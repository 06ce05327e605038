----------------------------- MODULE MCRouting -----------------------------
(***************************************************************************)
(* Documents, quotas and ready lists for Routing: every document of four   *)
(* profiles with chains of any shape; routes, overrides and slots over     *)
(* four tasks of three projects; and numbers at their limits.              *)
(***************************************************************************)
EXTENDS Routing, TLC

CONSTANTS a, b, c, d, x, serving, unnamed, t1, t2, t3, t4, p1, p2, p3

MCNames == {a, b, c, d}
MCAccounts == {x}
MCTasks == {t1, t2, t3, t4}
MCProject == (t1 :> p1) @@ (t2 :> p1) @@ (t3 :> p2) @@ (t4 :> p3)
MCPriority == (t1 :> 0) @@ (t2 :> 2) @@ (t3 :> 1) @@ (t4 :> -1)

Claude(to) == [provider |-> "claude", account |-> serving, fallback |-> to]
Codex(of, to) == [provider |-> "codex", account |-> of, fallback |-> to]

Document(profiles) ==
  [sound |-> TRUE, profiles |-> profiles, default |-> a, projects |-> <<>>,
   routes |-> <<>>, percent |-> 50, columns |-> 0, panes |-> 0, workers |-> 0]

\* what a name may stand for: nothing, a claude profile, or a codex one of
\* some account with any fallback
Absent == [provider |-> "", account |-> serving, fallback |-> unnamed]
Standing(of) ==
  {Absent, Claude(unnamed)} \union {Codex(o, to) : o \in of, to \in MCNames \union {unnamed}}

Chains ==
  {Document([n \in {m \in MCNames : f[m] # Absent} |-> f[n]]) :
     f \in {(a :> pa) @@ (b :> pb) @@ (c :> pc) @@ (d :> pd) :
             pa \in Standing({serving, x}), pb \in Standing({serving, x}),
             pc \in Standing({serving}), pd \in Standing({serving})}}

Fleet == (a :> Codex(serving, unnamed)) @@ (b :> Claude(unnamed)) @@ (c :> Codex(x, b))
Band(min, name) == [min |-> min, profile |-> name]
Shares ==
  {[Document(Fleet) EXCEPT !.routes = routes, !.workers = n, !.projects = p2 :> c] :
     n \in {0, 1, 3},
     routes \in {<<Band(2, c)>>, <<Band(1, b), Band(2, c)>>,
                 <<Band(2, c), Band(1, b), Band(2, a)>>, <<Band(-1, b), Band(0, a)>>,
                 <<Band(1, d)>>}}

Limits ==
  {[Document(Fleet) EXCEPT !.columns = w, !.panes = n] :
     w \in {0, 39, 40, 56, 57, 113, 114, 300}, n \in {0, 1, 20}}
  \union {[Document(Fleet) EXCEPT !.percent = n] : n \in {-1, 0, 100, 101}}
  \union {[Document(Fleet) EXCEPT !.workers = -1], [Document(Fleet) EXCEPT !.sound = FALSE],
          [Document(Fleet) EXCEPT !.default = d], [Document(Fleet) EXCEPT !.projects = p1 :> d],
          [Document(Fleet) EXCEPT !.profiles = (a :> Codex(serving, unnamed))
             @@ (b :> [Claude(unnamed) EXCEPT !.account = x])]}

MCDocuments == Chains \union Shares \union Limits

OneQuota ==
  {[known |-> FALSE, reached |-> FALSE, used |-> 0], [known |-> TRUE, reached |-> TRUE, used |-> 0]}
  \union {[known |-> TRUE, reached |-> FALSE, used |-> u] : u \in {49, 50}}
MCQuotas == [{serving, x} -> OneQuota]

MCOffers(dc) ==
  IF dc.routes = <<>> THEN {<<t1>>}
  ELSE UNION {{s \in [1..n -> MCTasks] : \A i, j \in 1..n : i # j => s[i] # s[j]} :
                n \in 0..4}
=============================================================================
