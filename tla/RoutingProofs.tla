---------------------------- MODULE RoutingProofs ----------------------------
(* From a document to a worker's profile for every document, quota and     *)
(* ready list: the profile a task asks for is defined, the walk down its   *)
(* chain ends at the nearest profile no quota refuses, the dispatch verb   *)
(* and the tick agree on what may launch, a cap that is derived keeps      *)
(* panes readable, and slots are shared over the projects.                 *)
EXTENDS Routing, Numbers, FunctionTheorems, SequenceTheorems

-----------------------------------------------------------------------------
(* Chains.                                                                 *)

(* The names down from a name are one fallback after the other.            *)
LEMMA DownRuns ==
  ASSUME NEW dc, NEW name
  PROVE  /\ Down(dc, name)[0] = name
         /\ \A n \in 1..MaxFallbackDepth :
              Down(dc, name)[n] = IF Down(dc, name)[n - 1] \in DOMAIN dc.profiles
                                  THEN dc.profiles[Down(dc, name)[n - 1]].fallback
                                  ELSE Unnamed
  <1> DEFINE N == MaxFallbackDepth
             P == dc.profiles
             Next1(v) == IF v \in DOMAIN P THEN P[v].fallback ELSE Unnamed
             T == {name, Unnamed} \union {P[m].fallback : m \in DOMAIN P}
             step == [n \in 1..N |-> [v \in T |-> Next1(v)]]
             F(g) == g = [n \in 0..N |->
                          IF n = 0 THEN name
                          ELSE IF g[n - 1] \in DOMAIN P
                               THEN P[g[n - 1]].fallback ELSE Unnamed]
  <1>1. N \in Nat
    BY RoutingAssumption
  <1>2. step \in [1..N -> [T -> T]] /\ name \in T
    OBVIOUS
  <1>3. PICK g \in [0..N -> T] : Recurs(g, N, name, step)
    <2> HIDE DEF T, step
    <2> QED BY <1>1, <1>2, Recursion
  <1>4. \A n \in 1..N : n \in 0..N /\ n - 1 \in 0..N /\ step[n][g[n - 1]] = Next1(g[n - 1])
    BY <1>1
  <1>5. F(g)
    <2>1. \A n \in 0..N : n = 0 \/ n \in 1..N
      BY <1>1
    <2> HIDE DEF step, P
    <2> QED BY <1>3, <1>4, <2>1 DEF Recurs
  <1>6. Down(dc, name) = CHOOSE h : F(h)
    BY DEF Down
  <1>7. F(Down(dc, name))
    <2> HIDE DEF F
    <2> QED BY <1>5, <1>6
  <1>8. \A n \in 1..N : n # 0 /\ n \in 0..N
    BY <1>1
  <1> DEFINE D == Down(dc, name)
  <1>9. F(D) /\ 0 \in 0..N
    BY <1>1, <1>7
  <1> HIDE DEF P, D
  <1>10. D[0] = name /\ \A n \in 1..N : D[n] = Next1(D[n - 1])
    BY <1>8, <1>9
  <1> QED BY <1>10 DEF D, P

Profiled == DOMAIN config.profiles

(* The chains of the document the daemon runs with were checked.           *)
Followable ==
  /\ Profiled \subseteq Names /\ config.profiles = doc.profiles
  /\ \A name \in Profiled : ChainFollowable(doc, name)

Chain(asked) == Down(doc, asked)

(* A chain that can be followed names defined profiles until it ends, and  *)
(* none of them twice.                                                     *)
LEMMA ChainDown ==
  ASSUME Followable, NEW asked \in Profiled
  PROVE  /\ Chain(asked)[0] = asked /\ Chain(asked)[MaxFallbackDepth] = Unnamed
         /\ \A n \in 0..MaxFallbackDepth :
              /\ Chain(asked)[n] \in Profiled \union {Unnamed}
              /\ Chain(asked)[n] # Unnamed =>
                   \A k \in 0..(n - 1) : Chain(asked)[k] # Chain(asked)[n]
         /\ \A n \in 1..MaxFallbackDepth :
              Chain(asked)[n] = IF Chain(asked)[n - 1] \in Profiled
                                THEN config.profiles[Chain(asked)[n - 1]].fallback
                                ELSE Unnamed
  <1> DEFINE N == MaxFallbackDepth  D == Chain(asked)
  <1>1. N \in Nat
    BY RoutingAssumption
  <1>2. /\ D[0] = asked
        /\ \A n \in 1..N : D[n] = IF D[n - 1] \in Profiled
                                  THEN config.profiles[D[n - 1]].fallback ELSE Unnamed
    BY DownRuns DEF Chain, Profiled, Followable
  <1>3. ChainFollowable(doc, asked)
    BY DEF Followable
  <1>4. /\ D[N] = Unnamed
        /\ \A n \in 1..N : D[n] # Unnamed =>
             D[n] \in Profiled /\ \A k \in 0..(n - 1) : D[k] # D[n]
    BY <1>3 DEF ChainFollowable, Chain, Profiled, Followable
  <1>5. \A n \in 0..N : n = 0 \/ n \in 1..N
    BY <1>1
  <1> HIDE DEF D
  <1>6. \A n \in 0..N : /\ D[n] \in Profiled \union {Unnamed}
                        /\ D[n] # Unnamed => \A k \in 0..(n - 1) : D[k] # D[n]
    BY <1>2, <1>4, <1>5
  <1> QED BY <1>2, <1>4, <1>6 DEF D

(* A fallback of a profile is a profile, or there is none.                 *)
LEMMA FallbackDefined ==
  ASSUME Followable, NEW name \in Profiled
  PROVE  config.profiles[name].fallback \in Profiled \union {Unnamed}
  <1>1. 0 \in 0..MaxFallbackDepth /\ 1 \in 0..MaxFallbackDepth /\ 1 \in 1..MaxFallbackDepth
    BY RoutingAssumption
  <1>2. Chain(name)[1] = config.profiles[name].fallback
    BY <1>1, ChainDown
  <1> QED BY <1>1, <1>2, ChainDown

-----------------------------------------------------------------------------
(* The walk.                                                               *)

Walking == [at : Profiled \union {Unnamed}, tried : Seq(Profiled),
            chosen : Profiled \union {Unnamed}]

Begins(asked) == [at |-> asked, tried |-> <<>>, chosen |-> Unnamed]

(* One step of the walk.                                                   *)
Looks(w, quota) ==
  IF w.at = Unnamed \/ w.chosen # Unnamed \/ Contains(w.tried, w.at)
  THEN w
  ELSE IF ProfileRefused(w.at, quota)
       THEN [w EXCEPT !.tried = Append(@, w.at),
                      !.at = config.profiles[w.at].fallback]
       ELSE [w EXCEPT !.chosen = w.at]

(* The walk is its steps.                                                  *)
LEMMA WalkRuns ==
  ASSUME Followable, NEW asked \in Profiled, NEW quota
  PROVE  \E w \in [0..MaxFallbackDepth -> Walking] :
           /\ w[0] = Begins(asked) /\ Walk(asked, quota) = w[MaxFallbackDepth]
           /\ \A n \in 1..MaxFallbackDepth : w[n] = Looks(w[n - 1], quota)
  <1> DEFINE N == MaxFallbackDepth
             step == [n \in 1..N |-> [v \in Walking |-> Looks(v, quota)]]
             F(g) == g = [n \in 0..N |->
                IF n = 0 THEN [at |-> asked, tried |-> <<>>, chosen |-> Unnamed]
                ELSE LET w == g[n - 1] IN
                     IF w.at = Unnamed \/ w.chosen # Unnamed \/ Contains(w.tried, w.at)
                     THEN w
                     ELSE IF ProfileRefused(w.at, quota)
                          THEN [w EXCEPT !.tried = Append(@, w.at),
                                         !.at = config.profiles[w.at].fallback]
                          ELSE [w EXCEPT !.chosen = w.at]]
  <1>1. N \in Nat /\ MaxFallbackChain = N
    BY RoutingAssumption
  <1>2. step \in [1..N -> [Walking -> Walking]]
    <2> SUFFICES ASSUME NEW v \in Walking PROVE Looks(v, quota) \in Walking
      OBVIOUS
    <2>1. v.at # Unnamed => v.at \in Profiled /\ config.profiles[v.at].fallback \in Profiled \union {Unnamed}
      BY FallbackDefined DEF Walking
    <2>2. CASE v.at = Unnamed \/ v.chosen # Unnamed \/ Contains(v.tried, v.at)
      BY <2>2 DEF Looks
    <2>3. CASE ~(v.at = Unnamed \/ v.chosen # Unnamed \/ Contains(v.tried, v.at))
      <3> DEFINE on == [v EXCEPT !.tried = Append(@, v.at),
                                 !.at = config.profiles[v.at].fallback]
      <3>1. on \in Walking
        <4> DEFINE more == Append(v.tried, v.at)  to == config.profiles[v.at].fallback
        <4>1. more \in Seq(Profiled) /\ to \in Profiled \union {Unnamed}
          BY <2>1, <2>3 DEF Walking
        <4>2. on = [v EXCEPT !.tried = more, !.at = to]
          OBVIOUS
        <4> HIDE DEF more, to, on
        <4> QED BY <4>1, <4>2 DEF Walking
      <3>2. [v EXCEPT !.chosen = v.at] \in Walking
        BY DEF Walking
      <3> HIDE DEF Walking
      <3> QED BY <2>3, <3>1, <3>2 DEF Looks
    <2> QED BY <2>2, <2>3
  <1>3. Begins(asked) \in Walking
    BY DEF Begins, Walking
  <1>4. PICK g \in [0..N -> Walking] : Recurs(g, N, Begins(asked), step)
    <2> HIDE DEF step
    <2> QED BY <1>1, <1>2, <1>3, Recursion
  <1>5. \A n \in 1..N : n \in 0..N /\ n # 0 /\ n - 1 \in 0..N /\ step[n][g[n - 1]] = Looks(g[n - 1], quota)
    BY <1>1
  <1>6. F(g)
    <2>1. \A n \in 0..N : n = 0 \/ n \in 1..N
      BY <1>1
    <2> HIDE DEF step
    <2> QED BY <1>4, <1>5, <2>1 DEF Recurs, Looks, Begins
  <1>7. Walk(asked, quota) = (CHOOSE h : F(h))[N]
    BY <1>1 DEF Walk
  <1> DEFINE h == CHOOSE x : F(x)
  <1>8. F(h)
    <2> HIDE DEF F
    <2> QED BY <1>6
  <1>9. h = [n \in 0..N |-> IF n = 0 THEN Begins(asked) ELSE Looks(h[n - 1], quota)]
    <2> HIDE DEF h
    <2> QED BY <1>8 DEF Looks, Begins
  <1>10. Walk(asked, quota) = h[N]
    BY <1>7
  <1> HIDE DEF F, h
  <1>11. h[0] = Begins(asked) /\ \A n \in 1..N : h[n] = Looks(h[n - 1], quota)
    BY <1>1, <1>5, <1>9
  <1>12. \A n \in 0..N : h[n] \in Walking
    <2> DEFINE S == {n \in 0..N : h[n] \in Walking}
    <2>1. 0 \in S
      BY <1>1, <1>3, <1>11
    <2>2. \A n \in 1..N : n - 1 \in S => n \in S
      <3> SUFFICES ASSUME NEW n \in 1..N, h[n - 1] \in Walking PROVE h[n] \in Walking
        BY <1>5
      <3>1. step[n][h[n - 1]] = Looks(h[n - 1], quota)
        OBVIOUS
      <3> QED BY <1>2, <1>11, <3>1
    <2>3. 0..N \subseteq S
      <3> HIDE DEF S
      <3> QED BY <1>1, <2>1, <2>2, Climb
    <2> QED BY <2>3
  <1>13. h \in [0..N -> Walking]
    BY <1>9, <1>12
  <1> QED BY <1>10, <1>11, <1>13

(* The first j names of a chain are refused.                               *)
Passed(D, j, quota) ==
  \A i \in 0..(j - 1) : D[i] # Unnamed /\ ProfileRefused(D[i], quota)

(* The walk is past j profiles, or past all there are.                     *)
Searching(w, n, D, quota) ==
  /\ w.chosen = Unnamed
  /\ \E j \in 0..n : /\ w.at = D[j] /\ w.tried = [i \in 1..j |-> D[i - 1]]
                     /\ Passed(D, j, quota) /\ (j = n \/ D[j] = Unnamed)

(* The walk has come to the first profile that is not refused.             *)
Found(w, n, D, quota) ==
  \E j \in 0..n : /\ w.chosen = D[j] /\ D[j] # Unnamed
                  /\ ~ProfileRefused(D[j], quota) /\ Passed(D, j, quota)

LEMMA WalkStep ==
  ASSUME Followable, NEW asked \in Profiled, NEW quota,
         NEW n \in 1..MaxFallbackDepth, NEW w \in Walking,
         Searching(w, n - 1, Chain(asked), quota) \/ Found(w, n - 1, Chain(asked), quota)
  PROVE  \/ Searching(Looks(w, quota), n, Chain(asked), quota)
         \/ Found(Looks(w, quota), n, Chain(asked), quota)
  <1> DEFINE D == Chain(asked)
  <1>1. n \in Nat /\ n - 1 \in 0..n /\ 0..(n - 1) \subseteq 0..n /\ 0..n \subseteq 0..MaxFallbackDepth
    BY RoutingAssumption
  <1>2. Unnamed \notin Profiled
    BY RoutingAssumption DEF Followable
  <1>3. CASE Found(w, n - 1, D, quota)
    <2>1. Looks(w, quota) = w
      BY <1>3 DEF Looks, Found
    <2> QED BY <1>1, <1>3, <2>1 DEF Found
  <1>4. CASE Searching(w, n - 1, D, quota)
    <2>1. PICK j \in 0..(n - 1) :
            /\ w.chosen = Unnamed /\ w.at = D[j] /\ w.tried = [i \in 1..j |-> D[i - 1]]
            /\ Passed(D, j, quota) /\ (j = n - 1 \/ D[j] = Unnamed)
      BY <1>4 DEF Searching
    <2>2. CASE D[j] = Unnamed
      <3>1. Looks(w, quota) = w /\ j \in 0..n
        BY <1>1, <2>1, <2>2 DEF Looks
      <3> QED BY <2>1, <2>2, <3>1 DEF Searching
    <2>3. CASE D[j] # Unnamed
      <3>1. j = n - 1 /\ n = j + 1 /\ j \in 0..n /\ j \in Nat
        BY <1>1, <2>1, <2>3
      <3>2. D[j] \in Profiled /\ \A k \in 0..(j - 1) : D[k] # D[j]
        BY <1>1, <2>3, <3>1, ChainDown
      <3>3. ~Contains(w.tried, w.at)
        <4>1. Len(w.tried) = j
          BY <2>1, <3>1
        <4>2. \A i \in 1..j : i - 1 \in 0..(j - 1) /\ w.tried[i] = D[i - 1]
          BY <2>1, <3>1
        <4> HIDE DEF D
        <4> QED BY <2>1, <3>2, <4>1, <4>2 DEF Contains
      <3>4. CASE ProfileRefused(D[j], quota)
        <4> DEFINE to == config.profiles[D[j]].fallback  more == Append(w.tried, D[j])
        <4>1. Looks(w, quota) = [w EXCEPT !.tried = more, !.at = to]
          BY <2>1, <2>3, <3>3, <3>4 DEF Looks
        <4>2. D[n] = to
          <5>1. n - 1 = j
            BY <3>1
          <5> QED BY <3>2, <5>1, ChainDown
        <4>3. more = [i \in 1..n |-> D[i - 1]]
          <5> HIDE DEF D
          <5> QED BY <2>1, <3>1
        <4>4. Passed(D, n, quota)
          <5>1. \A i \in 0..(n - 1) : i = j \/ i \in 0..(j - 1)
            BY <3>1
          <5> HIDE DEF D
          <5> QED BY <2>1, <2>3, <3>4, <5>1 DEF Passed
        <4>5. /\ Looks(w, quota).chosen = Unnamed /\ Looks(w, quota).at = D[n]
              /\ Looks(w, quota).tried = [i \in 1..n |-> D[i - 1]]
          <5> HIDE DEF D, to, more
          <5> QED BY <2>1, <4>1, <4>2, <4>3 DEF Walking
        <4>6. n \in 0..n
          BY <1>1
        <4>7. Searching(Looks(w, quota), n, D, quota)
          <5> HIDE DEF D
          <5> QED BY <4>4, <4>5, <4>6 DEF Searching
        <4> QED BY <4>7
      <3>5. CASE ~ProfileRefused(D[j], quota)
        <4>1. Looks(w, quota) = [w EXCEPT !.chosen = D[j]]
          BY <2>1, <2>3, <3>3, <3>5 DEF Looks
        <4>2. Looks(w, quota).chosen = D[j]
          BY <4>1 DEF Walking
        <4>3. Found(Looks(w, quota), n, D, quota)
          <5> HIDE DEF D
          <5> QED BY <2>1, <2>3, <3>1, <3>5, <4>2 DEF Found
        <4> QED BY <4>3
      <3> QED BY <3>4, <3>5
    <2> QED BY <2>2, <2>3
  <1> QED BY <1>3, <1>4

(* Where the walk ends: at the end of the chain with all of it refused, or *)
(* at the first profile of it that is not.                                 *)
LEMMA WalkEnds ==
  ASSUME Followable, NEW asked \in Profiled, NEW quota
  PROVE  \/ /\ Walk(asked, quota).chosen = Unnamed
            /\ \E j \in 0..MaxFallbackDepth :
                 Chain(asked)[j] = Unnamed /\ Passed(Chain(asked), j, quota)
         \/ Found(Walk(asked, quota), MaxFallbackDepth, Chain(asked), quota)
  <1> DEFINE N == MaxFallbackDepth  D == Chain(asked)
  <1>1. N \in Nat
    BY RoutingAssumption
  <1>2. PICK w \in [0..N -> Walking] :
          /\ w[0] = Begins(asked) /\ Walk(asked, quota) = w[N]
          /\ \A n \in 1..N : w[n] = Looks(w[n - 1], quota)
    BY WalkRuns
  <1> DEFINE S == {n \in 0..N : Searching(w[n], n, D, quota) \/ Found(w[n], n, D, quota)}
  <1>3. 0 \in S
    <2>1. D[0] = asked
      BY ChainDown
    <2>2. Passed(D, 0, quota)
      BY DEF Passed
    <2>3. <<>> = [i \in 1..0 |-> D[i - 1]]
      OBVIOUS
    <2> HIDE DEF D
    <2>4. Searching(w[0], 0, D, quota)
      BY <1>2, <2>1, <2>2, <2>3 DEF Searching, Begins
    <2> QED BY <1>1, <2>4
  <1>4. \A n \in 1..N : n - 1 \in S => n \in S
    <2> SUFFICES ASSUME NEW n \in 1..N,
                        Searching(w[n - 1], n - 1, D, quota) \/ Found(w[n - 1], n - 1, D, quota)
                 PROVE  Searching(w[n], n, D, quota) \/ Found(w[n], n, D, quota)
      BY <1>1
    <2>1. n - 1 \in 0..N /\ w[n - 1] \in Walking
      BY <1>1, <1>2
    <2> QED BY <1>2, <2>1, WalkStep
  <1>5. 0..N \subseteq S
    <2> HIDE DEF S
    <2> QED BY <1>1, <1>3, <1>4, Climb
  <1>6. Searching(w[N], N, D, quota) \/ Found(w[N], N, D, quota)
    BY <1>1, <1>5
  <1>7. D[N] = Unnamed
    BY ChainDown
  <1> HIDE DEF D
  <1>8. Searching(w[N], N, D, quota) =>
          \E j \in 0..N : D[j] = Unnamed /\ Passed(D, j, quota)
    BY <1>7 DEF Searching
  <1> QED BY <1>2, <1>6, <1>8 DEF Searching, D

-----------------------------------------------------------------------------
(* What fallbacks reach.                                                   *)

(* Fallbacks reach no name but those of the chain, up to its end.          *)
LEMMA ReachedIsChain ==
  ASSUME Followable, NEW asked \in Profiled,
         NEW e \in 0..MaxFallbackDepth, Chain(asked)[e] = Unnamed,
         \A i \in 0..(e - 1) : Chain(asked)[i] # Unnamed
  PROVE  \A m \in Reached(asked) : \E i \in 0..(e - 1) : m = Chain(asked)[i]
  <1> DEFINE D == Chain(asked)  S == {D[i] : i \in 0..(e - 1)}
  <1>1. Unnamed \notin Profiled /\ Profiled \subseteq Names
    BY RoutingAssumption DEF Followable
  <1>2. /\ D[0] = asked /\ MaxFallbackDepth \in Nat
        /\ \A n \in 0..MaxFallbackDepth : D[n] \in Profiled \union {Unnamed}
        /\ \A n \in 1..MaxFallbackDepth :
             D[n - 1] \in Profiled => D[n] = config.profiles[D[n - 1]].fallback
    BY ChainDown, RoutingAssumption
  <1> HIDE DEF D
  <1>3. asked \in S /\ S \subseteq Profiled
    <2>1. e # 0
      BY <1>1, <1>2 DEF D
    <2>2. 0 \in 0..(e - 1)
      BY <2>1
    <2>3. \A i \in 0..(e - 1) : i \in 0..MaxFallbackDepth /\ D[i] # Unnamed
      BY <1>2 DEF D
    <2> QED BY <1>2, <2>2, <2>3
  <1>4. ASSUME NEW m \in S
        PROVE  config.profiles[m].fallback \in S \union {Unnamed}
    <2>1. PICK i \in 0..(e - 1) : m = D[i]
      OBVIOUS
    <2>2. i + 1 \in 1..MaxFallbackDepth /\ (i + 1) - 1 = i /\ (i + 1 = e \/ i + 1 \in 0..(e - 1))
      BY <1>2
    <2>3. D[i + 1] = config.profiles[m].fallback
      BY <1>2, <1>3, <2>1, <2>2
    <2> QED BY <2>2, <2>3 DEF D
  <1>5. \A m \in Reached(asked) : m \in S
    BY <1>1, <1>3, <1>4 DEF Reached, Profiled
  <1> QED BY <1>5 DEF D

(* They reach every name of the chain from where they start.               *)
LEMMA ChainIsReached ==
  ASSUME Followable, NEW asked \in Profiled, NEW k \in Nat, NEW n \in Nat,
         k + n <= MaxFallbackDepth,
         \A i \in 0..(k + n) : Chain(asked)[i] # Unnamed
  PROVE  Chain(asked)[k + n] \in Reached(Chain(asked)[k])
  <1> DEFINE D == Chain(asked)
  <1>1. Profiled \subseteq Names /\ MaxFallbackDepth \in Nat
    BY RoutingAssumption DEF Followable
  <1>2. /\ \A i \in 0..(k + n) : D[i] \in Profiled
        /\ \A i \in 1..(k + n) : D[i] = config.profiles[D[i - 1]].fallback
    <2>1. \A i \in 0..(k + n) : i \in 0..MaxFallbackDepth
      BY <1>1
    <2>2. \A i \in 1..(k + n) : i \in 1..MaxFallbackDepth /\ i - 1 \in 0..(k + n)
      BY <1>1
    <2>3. \A i \in 0..(k + n) : D[i] \in Profiled
      BY <2>1, ChainDown
    <2> QED BY <2>2, <2>3, ChainDown
  <1>3. ASSUME NEW S \in SUBSET Names, D[k] \in S,
               \A m \in S \cap Profiled : config.profiles[m].fallback \in S \union {Unnamed}
        PROVE  D[k + n] \in S
    <2> DEFINE I == {i \in 0..n : D[k + i] \in S}
    <2>1. 0 \in I
      BY <1>3
    <2>2. \A i \in 1..n : i - 1 \in I => i \in I
      <3> SUFFICES ASSUME NEW i \in 1..n, D[k + (i - 1)] \in S PROVE D[k + i] \in S
        OBVIOUS
      <3>1. k + i \in 1..(k + n) /\ (k + i) - 1 = k + (i - 1) /\ k + (i - 1) \in 0..(k + n)
            /\ k + i \in 0..(k + n)
        OBVIOUS
      <3> HIDE DEF D
      <3>2. D[k + i] = config.profiles[D[k + (i - 1)]].fallback /\ D[k + i] # Unnamed
        BY <1>2, <3>1 DEF D
      <3> QED BY <1>2, <1>3, <3>1, <3>2
    <2>3. 0..n \subseteq I
      <3> HIDE DEF I
      <3> QED BY <2>1, <2>2, Climb
    <2> QED BY <2>3
  <1>4. k + n \in 0..(k + n)
    OBVIOUS
  <1> HIDE DEF D
  <1>5. D[k + n] \in Names
    BY <1>1, <1>2, <1>4
  <1> QED BY <1>3, <1>5 DEF Reached, Profiled, D

-----------------------------------------------------------------------------
(* The routes.                                                             *)

(* The profile routed to is that of a highest band the priority reaches.   *)
LEMMA RouteIsTop ==
  ASSUME NEW priority \in Int, NEW default, NEW routes,
         Len(routes) \in Nat, DOMAIN routes = 1..Len(routes),
         \A i \in DOMAIN routes : routes[i].min \in Int
  PROVE  \/ /\ \A i \in DOMAIN routes : ~(priority >= routes[i].min)
            /\ RouteProfile(priority, default, routes) = default
         \/ \E i \in DOMAIN routes :
              /\ priority >= routes[i].min
              /\ \A j \in DOMAIN routes :
                   priority >= routes[j].min => routes[j].min <= routes[i].min
              /\ RouteProfile(priority, default, routes) = routes[i].profile
  <1> DEFINE N == Len(routes)
             Takes(i, v) == IF priority < routes[i].min THEN v
                            ELSE IF v = 0 \/ routes[i].min > routes[v].min THEN i ELSE v
             step == [i \in 1..N |-> [v \in 0..N |-> Takes(i, v)]]
             F(g) == g = [i \in 0..N |->
                IF i = 0 THEN 0
                ELSE LET found == g[i - 1] IN
                     IF priority < routes[i].min THEN found
                     ELSE IF found = 0 \/ routes[i].min > routes[found].min THEN i ELSE found]
  <1>1. N \in Nat /\ DOMAIN routes = 1..N /\ \A i \in 1..N : routes[i].min \in Int
    OBVIOUS
  <1>2. step \in [1..N -> [0..N -> 0..N]] /\ 0 \in 0..N
    BY <1>1
  <1>3. PICK g \in [0..N -> 0..N] : Recurs(g, N, 0, step)
    <2> HIDE DEF step
    <2> QED BY <1>1, <1>2, Recursion
  <1>4. \A i \in 1..N : i # 0 /\ i \in 0..N /\ i - 1 \in 0..N /\ step[i][g[i - 1]] = Takes(i, g[i - 1])
    BY <1>1
  <1>5. F(g)
    <2>1. \A i \in 0..N : i = 0 \/ i \in 1..N
      BY <1>1
    <2> HIDE DEF step
    <2> QED BY <1>3, <1>4, <2>1 DEF Recurs
  <1> DEFINE h == CHOOSE x : F(x)
  <1>6. F(h)
    <2> HIDE DEF F
    <2> QED BY <1>5
  <1>7. RouteProfile(priority, default, routes) = IF h[N] = 0 THEN default ELSE routes[h[N]].profile
    BY DEF RouteProfile
  <1> HIDE DEF h
  <1>8. h[0] = 0 /\ \A i \in 1..N : h[i] = Takes(i, h[i - 1])
    <2>1. h = [i \in 0..N |-> IF i = 0 THEN 0 ELSE Takes(i, h[i - 1])]
      BY <1>6
    <2> HIDE DEF Takes
    <2> QED BY <1>1, <1>4, <2>1
  <1> HIDE DEF F, step
  <1> DEFINE Top(n, v) == \/ v = 0 /\ \A i \in 1..n : priority < routes[i].min
                          \/ /\ v \in 1..n /\ priority >= routes[v].min
                             /\ \A j \in 1..n : priority >= routes[j].min =>
                                                routes[j].min <= routes[v].min
             S == {n \in 0..N : Top(n, h[n])}
  <1>9. 0 \in S
    BY <1>1, <1>8
  <1>10. \A n \in 1..N : n - 1 \in S => n \in S
    <2> SUFFICES ASSUME NEW n \in 1..N, Top(n - 1, h[n - 1]) PROVE Top(n, h[n])
      <3> HIDE DEF Top
      <3> QED BY <1>4
    <2> DEFINE u == h[n - 1]  v == h[n]
    <2>1. /\ \A i \in 1..n : (i = n \/ i \in 1..(n - 1)) /\ routes[i].min \in Int
          /\ \A i \in 1..(n - 1) : i \in 1..n
          /\ n \in 1..n /\ v = Takes(n, u)
      BY <1>1, <1>8
    <2>2. Top(n - 1, u)
      OBVIOUS
    <2> HIDE DEF u, v
    <2>3. CASE priority < routes[n].min
      <3>1. v = u /\ ~(priority >= routes[n].min)
        BY <2>1, <2>3
      <3>2. Top(n, u)
        BY <2>1, <2>2, <2>3, <3>1
      <3> QED BY <3>1, <3>2 DEF u, v
    <2>4. CASE ~(priority < routes[n].min)
      <3>1. priority >= routes[n].min
        BY <2>1, <2>4
      <3>2. CASE u = 0 \/ routes[n].min > routes[u].min
        <4>1. v = n
          BY <2>1, <2>4, <3>2
        <4>2. Top(n, n)
          BY <2>1, <2>2, <3>1, <3>2
        <4> QED BY <4>1, <4>2 DEF v
      <3>3. CASE ~(u = 0 \/ routes[n].min > routes[u].min)
        <4>1. v = u
          BY <2>1, <2>4, <3>3
        <4>2. Top(n, u)
          BY <2>1, <2>2, <3>1, <3>3
        <4> QED BY <4>1, <4>2 DEF u, v
      <3> QED BY <3>2, <3>3
    <2> QED BY <2>3, <2>4
  <1>11. 0..N \subseteq S
    <2> HIDE DEF S
    <2> QED BY <1>1, <1>9, <1>10, Climb
  <1>12. Top(N, h[N])
    BY <1>1, <1>11
  <1> QED BY <1>1, <1>7, <1>12

-----------------------------------------------------------------------------
(* The document the daemon runs with.                                      *)

(* A config that was accepted is its document, which was checked.          *)
ConfigInv ==
  /\ doc \in Documents
  /\ Running => /\ Acceptable(doc) /\ config.profiles = doc.profiles
                /\ config.default = doc.default /\ config.projects = doc.projects
                /\ config.routes = doc.routes

LEMMA ConfigKept == Spec => []ConfigInv
  <1>1. Init => ConfigInv
    BY DEF Init, ConfigInv, Running
  <1>2. ConfigInv /\ [Next]_vars => ConfigInv'
    <2> SUFFICES ASSUME ConfigInv, [Next]_vars PROVE ConfigInv'
      OBVIOUS
    <2>1. CASE Parse
      <3>1. CASE Acceptable(doc)
        BY <2>1, <3>1 DEF Parse, ConfigInv
      <3>2. CASE ~Acceptable(doc)
        BY <2>1, <3>2 DEF Parse, ConfigInv, Running, Refused
      <3> QED BY <3>1, <3>2
    <2>2. CASE UNCHANGED <<doc, config>>
      BY <2>2 DEF ConfigInv, Running
    <2>3. \/ Parse \/ UNCHANGED <<doc, config>>
      BY DEF Next, Tick, vars
    <2> QED BY <2>1, <2>2, <2>3
  <1> QED BY <1>1, <1>2, PTL DEF Spec

LEMMA RunsFollowable ==
  ASSUME ConfigInv, Running
  PROVE  Followable
  BY DocumentAssumption DEF ConfigInv, Acceptable, Followable, Profiled

(* The profile a task asks for is that of a highest band, and is defined.  *)
LEMMA AskedIsTop ==
  ASSUME ConfigInv, Running, NEW t \in Tasks
  PROVE  Asked(t) \in TopBands(t) /\ Asked(t) \in Profiled
  <1> DEFINE routes == config.routes  own == ProfileNameFor(Project[t])
  <1>1. /\ Len(routes) \in Nat /\ DOMAIN routes = 1..Len(routes)
        /\ \A i \in DOMAIN routes : routes[i].min \in Int /\ routes[i].profile \in Profiled
    <2> DEFINE R == [min : Int, profile : Names]
    <2>1. routes \in Seq(R)
      BY DocumentAssumption DEF ConfigInv
    <2>2. /\ Len(routes) \in Nat /\ DOMAIN routes = 1..Len(routes)
          /\ \A i \in DOMAIN routes : routes[i] \in R
      <3> HIDE DEF R, routes
      <3> QED BY <2>1
    <2>3. \A i \in DOMAIN routes : routes[i].profile \in Profiled
      BY DEF ConfigInv, Acceptable, Profiled
    <2> QED BY <2>2, <2>3
  <1>2. own \in Profiled
    <2>1. \A p \in DOMAIN config.projects : config.projects[p] \in Profiled
      BY DEF ConfigInv, Acceptable, Profiled
    <2>2. config.default \in Profiled
      BY DEF ConfigInv, Acceptable, Profiled
    <2> QED BY <2>1, <2>2 DEF ProfileNameFor
  <1>3. Priority[t] \in Int
    BY RoutingAssumption
  <1> HIDE DEF routes, own
  <1>4. \/ /\ \A i \in DOMAIN routes : ~(Priority[t] >= routes[i].min)
           /\ RouteProfile(Priority[t], own, routes) = own
        \/ \E i \in DOMAIN routes :
             /\ Priority[t] >= routes[i].min
             /\ \A j \in DOMAIN routes :
                  Priority[t] >= routes[j].min => routes[j].min <= routes[i].min
             /\ RouteProfile(Priority[t], own, routes) = routes[i].profile
    BY <1>1, <1>3, RouteIsTop
  <1>5. Asked(t) = RouteProfile(Priority[t], own, routes)
    BY DEF Asked, routes, own
  <1> QED BY <1>1, <1>2, <1>4, <1>5 DEF TopBands, routes, own

(* A dispatch is refused for quota exactly when a tick that reads the same *)
(* quota would pass the task over (quotaRefusal, Decide), whatever the     *)
(* document, the task and the quota.                                       *)
THEOREM DoorsAgree == Spec => []DoorAgrees
  <1>1. ConfigInv => DoorAgrees
    <2> SUFFICES ASSUME ConfigInv, Fresh, NEW t \in Tasks, NEW quota \in Quotas, ~Eligible(t, quota)
                 PROVE  config.profiles[Asked(t)].provider = "codex"
      BY DEF DoorAgrees, DoorRefuses
    <2>1. Followable /\ Asked(t) \in Profiled
      BY RunsFollowable, AskedIsTop DEF Fresh
    <2>2. Walk(Asked(t), quota).chosen = Unnamed
      BY DEF Eligible
    <2> DEFINE D == Chain(Asked(t))
    <2>3. PICK j \in 0..MaxFallbackDepth : D[j] = Unnamed /\ Passed(D, j, quota)
      BY <2>1, <2>2, WalkEnds DEF Found
    <2>4. D[0] = Asked(t) /\ Asked(t) # Unnamed
      BY <2>1, ChainDown, RoutingAssumption DEF Followable
    <2>5. 0 \in 0..(j - 1)
      BY <2>3, <2>4, RoutingAssumption
    <2> HIDE DEF D
    <2> QED BY <2>3, <2>4, <2>5 DEF Passed, ProfileRefused
  <1> QED BY <1>1, ConfigKept, PTL

(* A worker launches with the nearest profile of its task's chain that no  *)
(* quota refuses, and a task waits only where its whole chain is refused   *)
(* (RouteProfile, ChooseProfile): for documents of any size and shape.     *)
THEOREM NearestEligible == Spec => []FirstEligible
  <1>1. ASSUME ConfigInv, Fresh, NEW t \in Tasks, NEW quota \in Quotas
        PROVE  LET chosen == Walk(Asked(t), quota).chosen
                   chain == Reached(Asked(t))
               IN IF chosen = Unnamed
                  THEN \A m \in chain : ProfileRefused(m, quota)
                  ELSE /\ chosen \in chain /\ ~ProfileRefused(chosen, quota)
                       /\ \A m \in chain \ Reached(chosen) : ProfileRefused(m, quota)
    <2> DEFINE N == MaxFallbackDepth  a == Asked(t)  D == Chain(a)
               chosen == Walk(a, quota).chosen
    <2>1. Followable /\ a \in Profiled /\ N \in Nat
      BY <1>1, RunsFollowable, AskedIsTop, RoutingAssumption DEF Fresh
    <2>2. D[0] = a /\ D[N] = Unnamed
      BY <2>1, ChainDown
    <2>3. \/ chosen = Unnamed /\ \E j \in 0..N : D[j] = Unnamed /\ Passed(D, j, quota)
          \/ \E j \in 0..N : /\ chosen = D[j] /\ D[j] # Unnamed
                             /\ ~ProfileRefused(D[j], quota) /\ Passed(D, j, quota)
      BY <2>1, WalkEnds DEF Found
    <2>4. CASE chosen = Unnamed
      <3>1. PICK j \in 0..N : D[j] = Unnamed /\ Passed(D, j, quota)
        BY <2>3, <2>4
      <3>2. \A i \in 0..(j - 1) : D[i] # Unnamed /\ ProfileRefused(D[i], quota)
        BY <3>1 DEF Passed
      <3>3. \A m \in Reached(a) : \E i \in 0..(j - 1) : m = D[i]
        BY <2>1, <3>1, <3>2, ReachedIsChain
      <3> QED BY <2>4, <3>2, <3>3
    <2>5. CASE chosen # Unnamed
      <3>1. PICK j \in 0..N : /\ chosen = D[j] /\ D[j] # Unnamed
                              /\ ~ProfileRefused(D[j], quota) /\ Passed(D, j, quota)
        BY <2>3, <2>5
      <3>2. PICK e \in 0..N : D[e] = Unnamed /\ \A i \in 0..(e - 1) : D[i] # Unnamed
        <4> DEFINE E == {n \in 0..N : D[n] = Unnamed}
        <4>1. N \in E /\ E \in SUBSET Nat
          BY <2>1, <2>2
        <4>2. PICK e \in E : \A x \in E : e <= x
          <5> HIDE DEF E
          <5> QED BY <4>1, Least
        <4>3. \A i \in 0..(e - 1) : i \in 0..N /\ ~(e <= i)
          BY <2>1
        <4> QED BY <4>2, <4>3
      <3>3. j \in 0..(e - 1)
        <4>1. ~(e <= j)
          <5> SUFFICES ASSUME e <= j PROVE FALSE
            OBVIOUS
          <5>1. e = j \/ e \in 0..(j - 1)
            BY <2>1
          <5> HIDE DEF D
          <5> QED BY <3>1, <3>2, <5>1 DEF Passed
        <4> QED BY <2>1, <4>1
      <3>4. ASSUME NEW k \in 0..(e - 1), NEW i \in k..(e - 1)
            PROVE  D[i] \in Reached(D[k])
        <4>1. i - k \in Nat /\ k \in Nat /\ k + (i - k) = i /\ k + (i - k) <= N
              /\ \A x \in 0..(k + (i - k)) : x \in 0..(e - 1)
          BY <2>1
        <4>2. D[k + (i - k)] \in Reached(D[k])
          BY <2>1, <3>2, <4>1, ChainIsReached
        <4> QED BY <4>1, <4>2
      <3>5. chosen \in Reached(a)
        <4>1. 0 \in 0..(e - 1) /\ j \in 0..(e - 1)
          BY <2>1, <3>3
        <4> HIDE DEF D
        <4> QED BY <2>2, <3>1, <3>4, <4>1
      <3>6. ASSUME NEW m \in Reached(a), m \notin Reached(chosen)
            PROVE  ProfileRefused(m, quota)
        <4>1. PICK i \in 0..(e - 1) : m = D[i]
          BY <2>1, <3>2, ReachedIsChain
        <4>2. i \in j..(e - 1) \/ i \in 0..(j - 1)
          BY <2>1
        <4> HIDE DEF D
        <4>3. i \notin j..(e - 1)
          BY <3>1, <3>3, <3>4, <3>6, <4>1
        <4> QED BY <3>1, <4>1, <4>2, <4>3 DEF Passed
      <3> QED BY <2>5, <3>1, <3>5, <3>6
    <2> QED BY <2>4, <2>5
  <1>2. ConfigInv => FirstEligible
    <2> SUFFICES ASSUME ConfigInv, Fresh, NEW t \in Tasks, NEW quota \in Quotas
                 PROVE  \E asked \in TopBands(t) :
                          LET chosen == Walk(Asked(t), quota).chosen
                              chain == Reached(asked)
                          IN IF chosen = Unnamed
                             THEN \A m \in chain : ProfileRefused(m, quota)
                             ELSE /\ chosen \in chain /\ ~ProfileRefused(chosen, quota)
                                  /\ \A m \in chain \ Reached(chosen) : ProfileRefused(m, quota)
      BY DEF FirstEligible
    <2>1. Asked(t) \in TopBands(t)
      BY AskedIsTop DEF Fresh
    <2> WITNESS Asked(t) \in TopBands(t)
    <2> QED BY <1>1
  <1> QED BY <1>2, ConfigKept, PTL

-----------------------------------------------------------------------------
(* How small the panes of a tab get.                                       *)

Sized(d, p, j) == d = [generation |-> j, size |-> p[j]]

(* The doublings stop at the largest power that is not above n.            *)
LEMMA DoublingsEnd ==
  ASSUME NEW n \in Nat \ {0}, NEW m \in Nat, n <= m, NEW p, Powers(p, m)
  PROVE  \E j \in 0..n : p[j] <= n /\ 2 * p[j] > n /\ Sized(Doublings(n), p, j)
  <1> DEFINE A == [generation |-> 0, size |-> 1]
             T == [generation : Nat, size : Nat]
             Next1(g) == IF g.size * 2 > n THEN g
                         ELSE [generation |-> g.generation + 1, size |-> g.size * 2]
             step == [k \in 1..n |-> [g \in T |-> Next1(g)]]
             F(d) == d = [k \in 0..n |-> IF k = 0 THEN A ELSE Next1(d[k - 1])]
  <1>1. \A j \in 0..n : j \in 0..m /\ p[j] \in Nat
    BY DEF Powers
  <1>2. step \in [1..n -> [T -> T]] /\ A \in T
    OBVIOUS
  <1>3. PICK g \in [0..n -> T] : Recurs(g, n, A, step)
    <2> HIDE DEF T, step, A
    <2> QED BY <1>2, Recursion
  <1>4. F(g)
    <2>1. ASSUME NEW k \in 1..n PROVE g[k - 1] \in T /\ step[k][g[k - 1]] = Next1(g[k - 1])
      <3>1. k - 1 \in 0..n
        OBVIOUS
      <3>2. g[k - 1] \in T
        <4> HIDE DEF T
        <4> QED BY <1>3, <3>1
      <3> QED BY <3>2
    <2>2. \A k \in 0..n : k = 0 \/ k \in 1..n
      OBVIOUS
    <2> HIDE DEF step, A, T, Next1
    <2> QED BY <1>3, <2>1, <2>2 DEF Recurs
  <1> DEFINE D == CHOOSE d : F(d)
  <1>5. F(D)
    <2> HIDE DEF F
    <2> QED BY <1>4
  <1>6. Doublings(n) = D[n]
    BY DEF Doublings
  <1> HIDE DEF D
  <1>7. D[0] = A /\ \A k \in 1..n : D[k] = Next1(D[k - 1])
    <2>1. 0 \in 0..n /\ \A k \in 1..n : k \in 0..n /\ k # 0
      OBVIOUS
    <2> HIDE DEF A, Next1
    <2> QED BY <1>5, <2>1
  <1> HIDE DEF T, step, F
  <1> DEFINE S == {k \in 0..n : \E j \in 0..k : /\ Sized(D[k], p, j) /\ p[j] <= n
                                                /\ j = k \/ 2 * p[j] > n}
  <1>8. 0 \in S
    BY <1>7 DEF Sized, Powers
  <1>9. ASSUME NEW k \in 1..n, k - 1 \in S PROVE k \in S
    <2>1. PICK j \in 0..(k - 1) : /\ Sized(D[k - 1], p, j) /\ p[j] <= n
                                  /\ j = k - 1 \/ 2 * p[j] > n
      BY <1>9
    <2>2. /\ j \in 0..k /\ k \in 0..n /\ p[j] \in Nat /\ D[k] = Next1(D[k - 1])
          /\ D[k - 1].size = p[j] /\ D[k - 1].generation = j
      BY <1>7, <1>1, <2>1 DEF Sized
    <2>3. CASE p[j] * 2 > n
      <3>1. D[k] = D[k - 1]
        BY <2>2, <2>3
      <3> QED BY <2>1, <2>2, <2>3, <3>1
    <2>4. CASE ~(p[j] * 2 > n)
      <3>1. j = k - 1
        BY <2>1, <2>2, <2>4
      <3>2. p[k] = 2 * p[k - 1] /\ p[k] <= n
        <4>1. k \in 1..m
          OBVIOUS
        <4>2. p[k] = 2 * p[k - 1]
          BY <4>1 DEF Powers
        <4> QED BY <2>2, <2>4, <3>1, <4>2
      <3>3. D[k] = [generation |-> k, size |-> p[k]]
        BY <2>2, <2>4, <3>1, <3>2
      <3> QED BY <2>2, <3>2, <3>3 DEF Sized
    <2> QED BY <2>3, <2>4, <2>2
  <1>10. n \in S
    <2>1. 0..n \subseteq S
      <3> HIDE DEF S
      <3> QED BY <1>8, <1>9, Climb
    <2> QED BY <2>1
  <1>11. PICK j \in 0..n : /\ Sized(D[n], p, j) /\ p[j] <= n
                           /\ j = n \/ 2 * p[j] > n
    BY <1>10
  <1>12. p[j] \in Nat /\ p[j] >= j + 1
    BY <1>1, PowersClimb
  <1> QED BY <1>6, <1>11, <1>12

(* The generation of n: the largest power of two not above it.             *)
LEMMA Generations ==
  ASSUME NEW n \in Nat \ {0}
  PROVE  LET d == Doublings(n) IN
         /\ d.size \in 1..n /\ n < 2 * d.size
         /\ Doublings(d.size) = d
         /\ n + 1 < 2 * d.size => Doublings(n + 1) = d
         /\ n + 1 = 2 * d.size => Doublings(n + 1).size = n + 1
  <1>1. PICK p : Powers(p, n + 1)
    BY PowersExist
  <1>2. n + 1 \in Nat
    OBVIOUS
  <1>3. \A j \in 0..(n + 1) : p[j] \in Nat /\ p[j] >= j + 1
    <2>1. \A j \in 0..(n + 1) : p[j] \in Nat
      BY <1>1 DEF Powers
    <2> QED BY <1>2, <1>1, <2>1, PowersClimb
  <1>4. \A i, j \in 0..(n + 1) : i < j => p[j] >= 2 * p[i]
    BY <1>1, PowersClimb
  <1>5. PICK j \in 0..n : p[j] <= n /\ 2 * p[j] > n /\ Sized(Doublings(n), p, j)
    BY <1>1, DoublingsEnd
  <1>6. j \in 0..(n + 1) /\ p[j] \in Nat \ {0}
    BY <1>3
  <1>7. PICK i \in 0..p[j] : p[i] <= p[j] /\ 2 * p[i] > p[j] /\ Sized(Doublings(p[j]), p, i)
    BY <1>1, <1>5, <1>6, DoublingsEnd
  <1>8. i = j
    <2>1. i \in 0..(n + 1) /\ p[i] \in Nat /\ p[j] \in Nat
      BY <1>3, <1>5, <1>6
    <2>2. ~(i < j) /\ ~(j < i)
      BY <1>4, <1>6, <1>7, <2>1, <1>3
    <2> QED BY <1>6, <2>1, <2>2
  <1>9. PICK k \in 0..(n + 1) : p[k] <= n + 1 /\ 2 * p[k] > n + 1 /\ Sized(Doublings(n + 1), p, k)
    BY <1>1, DoublingsEnd
  <1>10. p[k] \in Nat
    BY <1>3
  <1>11. ASSUME n + 1 < 2 * p[j] PROVE k = j
    <2>1. ~(k < j) /\ ~(j < k)
      BY <1>4, <1>5, <1>6, <1>9, <1>10, <1>11
    <2> QED BY <1>6, <2>1
  <1>12. ASSUME n + 1 = 2 * p[j] PROVE p[k] = n + 1
    <2>1. ~(k < j) /\ k # j
      BY <1>4, <1>6, <1>9, <1>10, <1>12
    <2>2. j < k
      BY <1>6, <2>1
    <2> QED BY <1>4, <1>6, <1>9, <1>10, <1>12, <2>2
  <1> QED BY <1>5, <1>6, <1>7, <1>8, <1>9, <1>11, <1>12 DEF Sized

Size == [columns : Nat, rows : Nat]
Window == [columns |-> WindowColumns, rows |-> WindowRows]

(* What the ladders make of a rung when a tab of n panes gets one more.    *)
Rung(n, above) ==
  [columns |-> IF Narrows(n, "right") THEN above.columns \div 2 ELSE above.columns,
   rows |-> IF ~Narrows(n, "down") THEN above.rows
            ELSE IF above.rows < SplitRowCost THEN 0
            ELSE (above.rows - SplitRowCost) \div 2]

LEMMA RungTyped ==
  ASSUME NEW n, NEW above \in Size
  PROVE  Rung(n, above) \in Size
  BY LayoutAssumption DEF Rung, Size

LEMMA LadderRuns ==
  /\ Ladder \in [1..SearchCeiling -> Size] /\ Ladder[1] = Window
  /\ \A n \in 1..(SearchCeiling - 1) : Ladder[n + 1] = Rung(n, Ladder[n])
  <1> DEFINE N == SearchCeiling
             step == [n \in 1..(N - 1) |-> [above \in Size |-> Rung(n, above)]]
             F(g) == g = [n \in 1..N |-> IF n = 1 THEN Window ELSE Rung(n - 1, g[n - 1])]
  <1>1. N \in Nat \ {0} /\ Window \in Size /\ step \in [1..(N - 1) -> [Size -> Size]]
    BY LayoutAssumption, RungTyped DEF Window, Size
  <1>2. PICK g \in [1..N -> Size] : RecursFromOne(g, N, Window, step)
    <2> HIDE DEF step, N
    <2> QED BY <1>1, RecursionFromOne
  <1>3. F(g) /\ g \in [1..N -> Size]
    <2>1. ASSUME NEW n \in 1..N, n # 1
          PROVE  step[n - 1][g[n - 1]] = Rung(n - 1, g[n - 1])
      <3>1. n - 1 \in 1..(N - 1) /\ n - 1 \in 1..N
        BY <1>1, <2>1
      <3>2. g[n - 1] \in Size
        <4> HIDE DEF N
        <4> QED BY <1>2, <3>1
      <3> HIDE DEF N
      <3> QED BY <3>1, <3>2
    <2> HIDE DEF step, N
    <2> QED BY <1>2, <2>1 DEF RecursFromOne
  <1>4. Ladder = CHOOSE h : F(h)
    BY DEF Ladder, Rung, Window
  <1>5. F(Ladder)
    <2> HIDE DEF F
    <2> QED BY <1>3, <1>4
  <1>6. Ladder[1] = Window /\ \A n \in 1..(N - 1) : Ladder[n + 1] = Rung(n, Ladder[n])
    <2>1. 1 \in 1..N /\ \A n \in 1..(N - 1) : n + 1 \in 1..N /\ n + 1 # 1 /\ (n + 1) - 1 = n
      BY <1>1
    <2> HIDE DEF N
    <2> QED BY <1>5, <2>1
  <1>7. Ladder = [n \in 1..N |-> Ladder[n]]
    BY <1>5
  <1> DEFINE S == {k \in 0..(N - 1) : Ladder[k + 1] \in Size}
  <1>8. 0..(N - 1) \subseteq S
    <2>1. 0 \in S
      BY <1>1, <1>6
    <2>2. ASSUME NEW k \in 1..(N - 1), k - 1 \in S PROVE k \in S
      BY <1>6, <2>2, RungTyped
    <2>3. N - 1 \in Nat
      BY <1>1
    <2> HIDE DEF S, N
    <2> QED BY <2>1, <2>2, <2>3, Climb
  <1>9. \A n \in 1..N : n - 1 \in 0..(N - 1) /\ (n - 1) + 1 = n
    BY <1>1
  <1>10. Ladder \in [1..N -> Size]
    BY <1>7, <1>8, <1>9
  <1> QED BY <1>6, <1>10

(* A pane split in a tab of n panes: the tab after it.                     *)
SplitIn(n, tab) ==
  LET split == GridSplit(n)
      halves == Halves(tab[split.target], split.direction)
  IN Append([tab EXCEPT ![split.target] = halves[1]], halves[2])

LEMMA HalvesTyped ==
  ASSUME NEW pane \in Size, NEW direction
  PROVE  /\ Halves(pane, direction)[1] \in Size
         /\ Halves(pane, direction)[2] \in Size
  <1>1. \A k \in Nat : k \div 2 \in Nat /\ k - k \div 2 \in Nat
    OBVIOUS
  <1>2. pane.columns \in Nat /\ pane.rows \in Nat
    BY DEF Size
  <1>3. CASE direction = "right"
    BY <1>1, <1>2, <1>3 DEF Halves, Size
  <1>4. CASE direction # "right"
    <2> DEFINE left == IF pane.rows < SplitRowCost THEN 0 ELSE pane.rows - SplitRowCost
    <2>1. left \in Nat
      BY <1>2, LayoutAssumption
    <2>2. Halves(pane, direction) = << [pane EXCEPT !.rows = left - left \div 2],
                                       [pane EXCEPT !.rows = left \div 2] >>
      BY <1>4 DEF Halves
    <2> HIDE DEF left
    <2> QED BY <1>1, <1>2, <2>1, <2>2 DEF Size
  <1> QED BY <1>3, <1>4

(* The pane a split is aimed at is there.                                  *)
LEMMA TargetIsThere ==
  ASSUME NEW n \in Nat \ {0}
  PROVE  GridSplit(n).target \in 1..n
  BY Generations DEF GridSplit

(* It has one half, the new pane the other, and no other changes.          *)
LEMMA SplitShares ==
  ASSUME NEW n \in Nat \ {0}, NEW tab \in [1..n -> Size]
  PROVE  LET target == GridSplit(n).target
             halves == Halves(tab[target], GridSplit(n).direction)
         IN /\ SplitIn(n, tab) \in [1..(n + 1) -> Size]
            /\ SplitIn(n, tab)[target] = halves[1]
            /\ SplitIn(n, tab)[n + 1] = halves[2]
            /\ \A i \in 1..n : i # target => SplitIn(n, tab)[i] = tab[i]
  <1> DEFINE target == GridSplit(n).target
             halves == Halves(tab[target], GridSplit(n).direction)
             old == [tab EXCEPT ![target] = halves[1]]
  <1>1. target \in 1..n /\ tab[target] \in Size
    BY TargetIsThere
  <1>2. halves[1] \in Size /\ halves[2] \in Size
    BY <1>1, HalvesTyped
  <1> HIDE DEF target, halves
  <1>3. old \in [1..n -> Size] /\ old[target] = halves[1]
        /\ \A i \in 1..n : i # target => old[i] = tab[i]
    BY <1>1, <1>2
  <1>4. SplitIn(n, tab) = Append(old, halves[2])
    BY DEF SplitIn, target, halves
  <1> HIDE DEF old
  <1>5. old \in Seq(Size) /\ Len(old) = n
    BY <1>3
  <1>6. /\ Append(old, halves[2]) \in Seq(Size) /\ Len(Append(old, halves[2])) = n + 1
        /\ \A i \in 1..n : Append(old, halves[2])[i] = old[i]
        /\ Append(old, halves[2])[n + 1] = halves[2]
    <2>1. /\ Append(old, halves[2]) \in Seq(Size)
          /\ Len(Append(old, halves[2])) = Len(old) + 1
          /\ \A i \in 1..Len(old) : Append(old, halves[2])[i] = old[i]
          /\ Append(old, halves[2])[Len(old) + 1] = halves[2]
      BY <1>2, <1>5, AppendProperties
    <2> QED BY <1>5, <2>1
  <1>7. Append(old, halves[2]) \in [1..(n + 1) -> Size]
    <2> DEFINE longer == Append(old, halves[2])
    <2>1. longer \in Seq(Size) /\ Len(longer) = n + 1
      BY <1>6
    <2> HIDE DEF longer
    <2>2. longer \in [1..(n + 1) -> Size]
      BY <2>1, LenProperties
    <2> QED BY <2>2 DEF longer
  <1> QED BY <1>1, <1>3, <1>4, <1>6, <1>7 DEF target, halves

LEMMA FilledRuns ==
  /\ \A n \in 1..SearchCeiling : Filled[n] \in [1..n -> Size]
  /\ Filled[1] = <<Window>>
  /\ \A n \in 1..(SearchCeiling - 1) : Filled[n + 1] = SplitIn(n, Filled[n])
  <1> DEFINE N == SearchCeiling
             T == UNION {[1..n -> Size] : n \in Nat}
             Whole(n, tab) == IF tab \in [1..n -> Size] THEN SplitIn(n, tab) ELSE tab
             step == [n \in 1..(N - 1) |-> [tab \in T |-> Whole(n, tab)]]
             F(g) == g = [n \in 1..N |-> IF n = 1 THEN <<Window>> ELSE SplitIn(n - 1, g[n - 1])]
  <1>1. N \in Nat \ {0} /\ Window \in Size
    BY LayoutAssumption DEF Window, Size
  <1>2. <<Window>> \in [1..1 -> Size]
    <2>1. <<Window>> \in Seq(Size) /\ Len(<<Window>>) = 1
      BY <1>1
    <2> HIDE DEF N
    <2> QED BY <2>1
  <1>3. \A n \in Nat : [1..n -> Size] \subseteq T
    OBVIOUS
  <1>4. <<Window>> \in T
    BY <1>2, <1>3
  <1>5. step \in [1..(N - 1) -> [T -> T]]
    <2> SUFFICES ASSUME NEW n \in 1..(N - 1), NEW tab \in T PROVE Whole(n, tab) \in T
      OBVIOUS
    <2>1. n \in Nat \ {0} /\ n + 1 \in Nat
      OBVIOUS
    <2>2. CASE tab \in [1..n -> Size]
      <3>1. SplitIn(n, tab) \in [1..(n + 1) -> Size]
        BY <2>1, <2>2, SplitShares
      <3> HIDE DEF T
      <3> QED BY <1>3, <2>1, <2>2, <3>1
    <2> QED BY <2>2
  <1>6. PICK g \in [1..N -> T] : RecursFromOne(g, N, <<Window>>, step)
    <2> HIDE DEF step, N, T
    <2> QED BY <1>1, <1>4, <1>5, RecursionFromOne
  <1>7. g[1] = <<Window>> /\ \A n \in 1..(N - 1) : g[n + 1] = step[n][g[n]]
    <2>1. 1 \in 1..N /\ \A n \in 1..(N - 1) : n + 1 \in 1..N /\ n + 1 # 1 /\ (n + 1) - 1 = n
      BY <1>1
    <2> HIDE DEF step, N, T
    <2> QED BY <1>6, <2>1 DEF RecursFromOne
  <1>8. ASSUME NEW n \in 1..(N - 1), g[n] \in [1..n -> Size]
        PROVE  g[n + 1] = SplitIn(n, g[n]) /\ g[n + 1] \in [1..(n + 1) -> Size]
    <2>1. n \in Nat \ {0}
      OBVIOUS
    <2>2. g[n] \in T
      <3> HIDE DEF T
      <3> QED BY <1>3, <1>8, <2>1
    <2>3. step[n][g[n]] = SplitIn(n, g[n])
      <3> HIDE DEF T
      <3> QED BY <1>8, <2>2
    <2> HIDE DEF step, T
    <2> QED BY <1>7, <1>8, <2>1, <2>3, SplitShares
  <1> HIDE DEF T, step
  <1> DEFINE S == {k \in 0..(N - 1) : g[k + 1] \in [1..(k + 1) -> Size]}
  <1>9. 0..(N - 1) \subseteq S
    <2>1. 0 \in S
      BY <1>1, <1>2, <1>7
    <2>2. ASSUME NEW k \in 1..(N - 1), k - 1 \in S PROVE k \in S
      <3>1. (k - 1) + 1 = k /\ k \in 0..(N - 1)
        OBVIOUS
      <3>2. g[k] \in [1..k -> Size]
        BY <2>2, <3>1
      <3> HIDE DEF N
      <3> QED BY <1>8, <3>1, <3>2
    <2>3. N - 1 \in Nat
      BY <1>1
    <2> HIDE DEF S, N
    <2> QED BY <2>1, <2>2, <2>3, Climb
  <1>10. \A n \in 1..N : n - 1 \in 0..(N - 1) /\ (n - 1) + 1 = n
    BY <1>1
  <1>11. \A n \in 1..N : g[n] \in [1..n -> Size]
    <2> HIDE DEF N
    <2> QED BY <1>9, <1>10
  <1>12. F(g)
    <2>1. ASSUME NEW n \in 1..N, n # 1 PROVE g[n] = SplitIn(n - 1, g[n - 1])
      <3>1. n - 1 \in 1..(N - 1) /\ n - 1 \in 1..N /\ (n - 1) + 1 = n
        BY <1>1, <2>1
      <3> HIDE DEF N
      <3> QED BY <1>8, <1>11, <3>1
    <2>2. g = [n \in 1..N |-> g[n]]
      BY <1>6
    <2> HIDE DEF N
    <2> QED BY <1>7, <2>1, <2>2
  <1>13. Filled = CHOOSE h : F(h)
    BY DEF Filled, SplitIn, Window
  <1>14. F(Filled)
    <2> HIDE DEF F
    <2> QED BY <1>12, <1>13
  <1>15. Filled[1] = <<Window>> /\ \A n \in 1..(N - 1) : Filled[n + 1] = SplitIn(n, Filled[n])
    <2>1. 1 \in 1..N /\ \A n \in 1..(N - 1) : n + 1 \in 1..N /\ n + 1 # 1 /\ (n + 1) - 1 = n
      BY <1>1
    <2> HIDE DEF N
    <2> QED BY <1>14, <2>1
  <1> DEFINE R == {k \in 0..(N - 1) : Filled[k + 1] \in [1..(k + 1) -> Size]}
  <1>16. 0..(N - 1) \subseteq R
    <2>1. 0 \in R
      BY <1>1, <1>2, <1>15
    <2>2. ASSUME NEW k \in 1..(N - 1), k - 1 \in R PROVE k \in R
      <3>1. (k - 1) + 1 = k /\ k \in 0..(N - 1) /\ k \in Nat \ {0}
        OBVIOUS
      <3>2. Filled[k] \in [1..k -> Size]
        BY <2>2, <3>1
      <3> HIDE DEF N
      <3> QED BY <1>15, <3>1, <3>2, SplitShares
    <2>3. N - 1 \in Nat
      BY <1>1
    <2> HIDE DEF R, N
    <2> QED BY <2>1, <2>2, <2>3, Climb
  <1>17. \A n \in 1..N : Filled[n] \in [1..n -> Size]
    <2> HIDE DEF N
    <2> QED BY <1>10, <1>16
  <1> QED BY <1>15, <1>17

(* A pane at least as wide and as tall.                                    *)
Clears(pane, rung) == pane.columns >= rung.columns /\ pane.rows >= rung.rows

LEMMA ClearsOn ==
  ASSUME NEW x \in Size, NEW y \in Size, NEW z \in Size
  PROVE  Clears(x, x) /\ (Clears(x, y) /\ Clears(y, z) => Clears(x, z))
  BY DEF Clears, Size

(* What a split halves: the rung below the one its pane clears.            *)
Halved(rung, direction) ==
  [columns |-> IF direction = "right" THEN rung.columns \div 2 ELSE rung.columns,
   rows |-> IF direction = "right" THEN rung.rows
            ELSE IF rung.rows < SplitRowCost THEN 0
            ELSE (rung.rows - SplitRowCost) \div 2]

LEMMA HalvedTyped ==
  ASSUME NEW rung \in Size, NEW direction
  PROVE  Halved(rung, direction) \in Size /\ Clears(rung, Halved(rung, direction))
  <1>1. \A k \in Nat : k \div 2 \in Nat /\ k >= k \div 2
    OBVIOUS
  <1>2. rung.columns \in Nat /\ rung.rows \in Nat /\ SplitRowCost \in Nat
    BY LayoutAssumption DEF Size
  <1>3. CASE direction = "right"
    BY <1>1, <1>2, <1>3 DEF Halved, Size, Clears
  <1>4. CASE direction # "right" /\ rung.rows < SplitRowCost
    BY <1>1, <1>2, <1>4 DEF Halved, Size, Clears
  <1>5. CASE direction # "right" /\ ~(rung.rows < SplitRowCost)
    <2> DEFINE left == rung.rows - SplitRowCost
    <2>1. left \in Nat /\ rung.rows >= left
      BY <1>2, <1>5
    <2>2. Halved(rung, direction) = [columns |-> rung.columns, rows |-> left \div 2]
      BY <1>5 DEF Halved
    <2> HIDE DEF left
    <2>3. rung.rows >= left \div 2 /\ left \div 2 \in Nat
      BY <1>1, <1>2, <2>1
    <2> QED BY <1>2, <2>2, <2>3 DEF Size, Clears
  <1> QED BY <1>3, <1>4, <1>5

(* Both halves of a pane clear what halving makes of a rung it clears.     *)
LEMMA HalvesClear ==
  ASSUME NEW pane \in Size, NEW rung \in Size, Clears(pane, rung), NEW direction
  PROVE  /\ Clears(Halves(pane, direction)[1], Halved(rung, direction))
         /\ Clears(Halves(pane, direction)[2], Halved(rung, direction))
  <1>1. \A j, k \in Nat : k >= j => k \div 2 >= j \div 2 /\ k - k \div 2 >= j \div 2
    OBVIOUS
  <1>2. /\ pane.columns \in Nat /\ pane.rows \in Nat /\ rung.columns \in Nat /\ rung.rows \in Nat
        /\ pane.columns >= rung.columns /\ pane.rows >= rung.rows /\ SplitRowCost \in Nat
    BY LayoutAssumption DEF Size, Clears
  <1>3. CASE direction = "right"
    <2>1. /\ pane.columns \div 2 >= rung.columns \div 2
          /\ pane.columns - pane.columns \div 2 >= rung.columns \div 2
      BY <1>1, <1>2
    <2>2. pane \in [columns : Nat, rows : Nat]
      BY DEF Size
    <2> QED BY <1>2, <1>3, <2>1, <2>2 DEF Halves, Halved, Clears
  <1>4. CASE direction # "right"
    <2> DEFINE left(p) == IF p.rows < SplitRowCost THEN 0 ELSE p.rows - SplitRowCost
    <2>1. left(pane) \in Nat /\ left(rung) \in Nat /\ left(pane) >= left(rung)
      BY <1>2
    <2>2. Halves(pane, direction) = << [pane EXCEPT !.rows = left(pane) - left(pane) \div 2],
                                       [pane EXCEPT !.rows = left(pane) \div 2] >>
      BY <1>4 DEF Halves
    <2>3. Halved(rung, direction) = [columns |-> rung.columns, rows |-> left(rung) \div 2]
      <3>1. 0 \div 2 = 0
        OBVIOUS
      <3> QED BY <1>4, <3>1 DEF Halved
    <2>4. pane \in [columns : Nat, rows : Nat]
      BY DEF Size
    <2> HIDE DEF left
    <2>5. /\ left(pane) \div 2 >= left(rung) \div 2
          /\ left(pane) - left(pane) \div 2 >= left(rung) \div 2
      BY <1>1, <2>1
    <2> QED BY <1>2, <2>2, <2>3, <2>4, <2>5 DEF Clears
  <1> QED BY <1>3, <1>4

(* With n panes in a tab, each clears the rung of n, and those the present *)
(* generation has yet to split still clear that of its beginning; the rung *)
(* of n is that one until the first of them is split, and its half after.  *)
Covers(n) ==
  LET d == Doublings(n) IN
  /\ \A i \in 1..n : Clears(Filled[n][i], Ladder[n])
  /\ \A i \in (n + 1 - d.size)..d.size : Clears(Filled[n][i], Ladder[d.size])
  /\ n > d.size => Ladder[n] = Halved(Ladder[d.size], GridSplit(n).direction)

LEMMA CoversFirst == Covers(1)
  <1>1. Doublings(1).size = 1
    BY Generations
  <1>2. Window \in Size /\ Filled[1] = <<Window>> /\ Ladder[1] = Window
    BY LayoutAssumption, FilledRuns, LadderRuns DEF Window, Size
  <1>3. Clears(Filled[1][1], Ladder[1])
    BY <1>2, ClearsOn
  <1>4. 1..1 = {1} /\ (1 + 1 - 1)..1 = {1} /\ ~(1 > 1)
    OBVIOUS
  <1> QED BY <1>1, <1>3, <1>4 DEF Covers

(* The rung after n panes: the half of the generation's first.             *)
LEMMA RungHalves ==
  ASSUME NEW n \in 1..(SearchCeiling - 1), Covers(n)
  PROVE  LET first == Ladder[Doublings(n).size] IN
         /\ first \in Size /\ Ladder[n] \in Size
         /\ Ladder[n + 1] = Halved(first, GridSplit(n).direction)
         /\ Clears(Ladder[n], Ladder[n + 1])
  <1> DEFINE d == Doublings(n)  dir == GridSplit(n).direction
  <1>1. /\ n \in Nat \ {0} /\ n \in 1..SearchCeiling /\ \A i \in 1..n : i \in 1..SearchCeiling
    BY LayoutAssumption
  <1>2. d.size \in 1..n /\ d.size \in 1..SearchCeiling
    BY <1>1, Generations
  <1>3. Ladder[d.size] \in Size /\ Ladder[n] \in Size
    BY <1>1, <1>2, LadderRuns
  <1>4. Ladder[n + 1] = Rung(n, Ladder[n])
    BY LadderRuns
  <1>5. dir \in {"right", "down"}
    BY DEF GridSplit
  <1>6. CASE d.size = n
    <2>1. Rung(n, Ladder[n]) = Halved(Ladder[n], dir)
      BY <1>5, <1>6 DEF Rung, Narrows, Halved
    <2>2. Clears(Ladder[n], Halved(Ladder[n], dir))
      BY <1>3, HalvedTyped
    <2> QED BY <1>3, <1>4, <1>6, <2>1, <2>2
  <1>7. CASE d.size # n
    <2>1. Ladder[n] = Halved(Ladder[d.size], dir)
      BY <1>1, <1>2, <1>7 DEF Covers
    <2>2. Rung(n, Ladder[n]) = Ladder[n]
      BY <1>3, <1>7 DEF Rung, Narrows, Size
    <2>3. Clears(Ladder[n], Ladder[n])
      BY <1>3, ClearsOn
    <2> QED BY <1>3, <1>4, <2>1, <2>2, <2>3
  <1> QED BY <1>6, <1>7

LEMMA CoversNext ==
  ASSUME NEW n \in 1..(SearchCeiling - 1), Covers(n)
  PROVE  Covers(n + 1)
  <1> DEFINE d == Doublings(n)  split == GridSplit(n)
             tab == Filled[n]  next == Filled[n + 1]
             first == Ladder[d.size]  below == Ladder[n + 1]
  <1>1. /\ n \in Nat \ {0} /\ n \in 1..SearchCeiling /\ n + 1 \in 1..SearchCeiling
    BY LayoutAssumption
  <1>2. /\ d.size \in 1..n /\ n < 2 * d.size /\ split.target = n + 1 - d.size
        /\ split.target \in 1..n /\ split.target \in (n + 1 - d.size)..d.size
    BY <1>1, Generations DEF GridSplit
  <1>3. /\ first \in Size /\ Ladder[n] \in Size /\ below \in Size
        /\ below = Halved(first, split.direction) /\ Clears(Ladder[n], below)
    BY <1>1, RungHalves, LadderRuns
  <1>4. tab \in [1..n -> Size] /\ next \in [1..(n + 1) -> Size] /\ next = SplitIn(n, tab)
    BY <1>1, FilledRuns
  <1>5. tab[split.target] \in Size /\ Clears(tab[split.target], first)
    BY <1>2, <1>4 DEF Covers
  <1>6. Clears(next[split.target], below) /\ Clears(next[n + 1], below)
    <2>1. /\ Clears(Halves(tab[split.target], split.direction)[1], below)
          /\ Clears(Halves(tab[split.target], split.direction)[2], below)
      BY <1>3, <1>5, HalvesClear
    <2> QED BY <1>1, <1>4, <2>1, SplitShares
  <1>7. \A i \in 1..n : i # split.target => next[i] = tab[i]
    BY <1>1, <1>4, SplitShares
  <1>8. ASSUME NEW i \in 1..(n + 1) PROVE Clears(next[i], below)
    <2>1. CASE i = n + 1 \/ i = split.target
      BY <1>6, <2>1
    <2>2. CASE i # n + 1 /\ i # split.target
      <3>1. i \in 1..n
        BY <2>2
      <3>2. next[i] \in Size /\ Clears(next[i], Ladder[n])
        BY <1>4, <1>7, <2>2, <3>1 DEF Covers
      <3> QED BY <1>3, <3>2, ClearsOn
    <2> QED BY <2>1, <2>2
  <1>9. CASE n + 1 < 2 * d.size
    <2>1. Doublings(n + 1) = d
      BY <1>1, <1>9, Generations
    <2>2. GridSplit(n + 1).direction = split.direction
      BY <2>1 DEF GridSplit
    <2>3. ASSUME NEW i \in ((n + 1) + 1 - d.size)..d.size
          PROVE  Clears(next[i], first)
      <3>1. i \in (n + 1 - d.size)..d.size /\ i \in 1..n /\ i # split.target
        BY <1>2
      <3> QED BY <1>7, <3>1 DEF Covers
    <2> HIDE DEF d, split, next, below
    <2> QED BY <1>3, <1>8, <2>1, <2>2, <2>3 DEF Covers, d, split, next, below
  <1>10. CASE ~(n + 1 < 2 * d.size)
    <2>1. n + 1 = 2 * d.size
      BY <1>2, <1>10
    <2>2. Doublings(n + 1).size = n + 1
      BY <1>1, <2>1, Generations
    <2>3. ((n + 1) + 1 - (n + 1))..(n + 1) = 1..(n + 1) /\ ~(n + 1 > n + 1)
      BY <1>1
    <2> QED BY <1>8, <2>2, <2>3 DEF Covers
  <1> QED BY <1>9, <1>10

(* No pane of a tab is smaller than the rung of its size, and the ladders  *)
(* only go down.                                                           *)
LEMMA LadderBounds ==
  ASSUME NEW m \in 1..SearchCeiling, NEW n \in 1..m
  PROVE  /\ Ladder[n] \in Size /\ Clears(Ladder[n], Ladder[m])
         /\ \A i \in 1..n : Filled[n][i] \in Size /\ Clears(Filled[n][i], Ladder[n])
  <1> DEFINE N == SearchCeiling  C == {k \in 0..(N - 1) : Covers(k + 1)}
  <1>1. N \in Nat \ {0} /\ N - 1 \in Nat
    BY LayoutAssumption
  <1>2. 0 \in C
    BY <1>1, CoversFirst
  <1>3. ASSUME NEW k \in 1..(N - 1), k - 1 \in C PROVE k \in C
    <2>1. (k - 1) + 1 = k /\ k \in 0..(N - 1)
      OBVIOUS
    <2> HIDE DEF N
    <2>2. Covers(k)
      BY <1>3, <2>1
    <2> QED BY <2>1, <2>2, CoversNext DEF N
  <1>4. 0..(N - 1) \subseteq C
    <2> HIDE DEF C, N
    <2> QED BY <1>1, <1>2, <1>3, Climb
  <1>5. ASSUME NEW k \in 1..N PROVE Covers(k)
    <2>1. k - 1 \in 0..(N - 1) /\ (k - 1) + 1 = k
      BY <1>1
    <2> HIDE DEF N
    <2> QED BY <1>4, <2>1
  <1> DEFINE S == {k \in 0..(m - n) : Clears(Ladder[n], Ladder[n + k])}
  <1>6. n \in 1..N /\ m - n \in Nat /\ \A k \in 0..(m - n) : n + k \in 1..N
    BY <1>1
  <1>7. Ladder[n] \in Size /\ Clears(Ladder[n], Ladder[n])
    BY <1>6, LadderRuns, ClearsOn
  <1>8. 0 \in S
    BY <1>6, <1>7
  <1>9. ASSUME NEW k \in 1..(m - n), k - 1 \in S PROVE k \in S
    <2> DEFINE l == n + (k - 1)
    <2>1. l \in 1..(N - 1) /\ l \in 1..N /\ l + 1 = n + k /\ n + k \in 1..N /\ k \in 0..(m - n)
      BY <1>1
    <2>2. Clears(Ladder[n], Ladder[l])
      BY <1>9
    <2> HIDE DEF l
    <2>3. Clears(Ladder[l], Ladder[n + k]) /\ Ladder[l] \in Size /\ Ladder[n + k] \in Size
      BY <1>5, <2>1, RungHalves, LadderRuns
    <2> QED BY <1>7, <2>1, <2>2, <2>3, ClearsOn
  <1>10. 0..(m - n) \subseteq S
    <2> HIDE DEF S
    <2> QED BY <1>6, <1>8, <1>9, Climb
  <1>11. Clears(Ladder[n], Ladder[m])
    <2>1. m - n \in 0..(m - n) /\ n + (m - n) = m
      BY <1>6
    <2> QED BY <1>10, <2>1
  <1>12. \A i \in 1..n : Filled[n][i] \in Size /\ Clears(Filled[n][i], Ladder[n])
    BY <1>5, <1>6, FilledRuns DEF Covers
  <1> QED BY <1>7, <1>11, <1>12

(* A cap of more than one pane that was derived from two floors has them   *)
(* under its rung.                                                         *)
LEMMA DerivedCap ==
  ASSUME NEW columns \in Int, NEW rows \in Int, MaxPanesClearing(columns, rows) > 1
  PROVE  LET cap == MaxPanesClearing(columns, rows) IN
         /\ cap \in 1..SearchCeiling
         /\ Ladder[cap].columns >= columns /\ Ladder[cap].rows >= rows
  <1> DEFINE S == {1} \union {n \in 1..SearchCeiling :
                                NarrowestColumns(n) >= columns /\ ShortestRows(n) >= rows}
             cap == MaxPanesClearing(columns, rows)
  <1>1. cap = CHOOSE x \in S : \A y \in S : x >= y
    BY DEF MaxPanesClearing, Max
  <1>2. \E x \in S : \A y \in S : x >= y
    <2>1. S \in SUBSET (1..SearchCeiling) /\ S # {} /\ \A y \in S : y \in Nat
      BY LayoutAssumption
    <2>2. SearchCeiling \in Nat
      BY LayoutAssumption
    <2> HIDE DEF S
    <2>3. PICK x \in S : \A y \in S : y <= x
      BY <2>1, <2>2, Greatest
    <2> QED BY <2>1, <2>3
  <1>3. cap \in S
    <2> HIDE DEF S, cap
    <2> QED BY <1>1, <1>2
  <1> QED BY <1>3 DEF NarrowestColumns, ShortestRows

(* What the config of an accepted document makes of its layout.            *)
LayoutKept == Running => config.cap = Cap(doc) /\ config.columns = Columns(doc)

(* The cap derived for a document that leaves it out keeps every pane of a *)
(* tab filled up to it readable (MaxPanesClearing, GridSplit), whatever    *)
(* the window, the floors and the cost of a split.                         *)
THEOREM CapIsReadable == Spec => []CapClearsFloors
  <1> DEFINE Inv == doc \in Documents /\ LayoutKept
  <1>1. Init => Inv
    BY DEF Init, LayoutKept, Running
  <1>2. Inv /\ [Next]_vars => Inv'
    <2> SUFFICES ASSUME Inv, [Next]_vars PROVE Inv'
      OBVIOUS
    <2>1. CASE Parse
      <3>1. CASE Acceptable(doc)
        BY <2>1, <3>1 DEF Parse, LayoutKept
      <3>2. CASE ~Acceptable(doc)
        BY <2>1, <3>2 DEF Parse, LayoutKept, Running, Refused
      <3> QED BY <3>1, <3>2
    <2>2. CASE UNCHANGED <<doc, config>>
      BY <2>2 DEF LayoutKept, Running
    <2>3. \/ Parse \/ UNCHANGED <<doc, config>>
      BY DEF Next, Tick, vars
    <2> QED BY <2>1, <2>2, <2>3
  <1>3. Inv => CapClearsFloors
    <2> SUFFICES ASSUME Inv, Fresh, doc.panes = 0, config.cap > 1,
                        NEW n \in 1..config.cap, NEW i \in 1..config.cap, i <= n
                 PROVE  /\ Filled[n][i].columns >= config.columns
                        /\ Filled[n][i].rows >= ReadableRows
      BY DEF CapClearsFloors
    <2> DEFINE cap == config.cap
    <2>1. /\ cap = MaxPanesClearing(Columns(doc), ReadableRows)
          /\ config.columns = Columns(doc) /\ Columns(doc) \in Int /\ ReadableRows \in Int
      <3>1. doc.columns \in Int /\ ReadableColumns \in Int /\ ReadableRows \in Int
        BY RoutingAssumption, DocumentAssumption
      <3>2. Columns(doc) \in Int
        BY <3>1 DEF Columns
      <3> QED BY <3>1, <3>2 DEF LayoutKept, Fresh, Cap
    <2>2. /\ cap \in 1..SearchCeiling
          /\ Ladder[cap].columns >= config.columns /\ Ladder[cap].rows >= ReadableRows
      BY <2>1, DerivedCap
    <2>3. cap \in 1..cap /\ i \in 1..n
      BY <2>2
    <2>4. /\ Clears(Ladder[n], Ladder[cap]) /\ Ladder[n] \in Size /\ Ladder[cap] \in Size
          /\ Filled[n][i] \in Size /\ Clears(Filled[n][i], Ladder[n])
      BY <2>2, <2>3, LadderBounds
    <2>5. Clears(Filled[n][i], Ladder[cap])
      BY <2>4, ClearsOn
    <2> HIDE DEF cap
    <2> QED BY <2>1, <2>2, <2>4, <2>5 DEF Clears, Size
  <1> QED BY <1>1, <1>2, <1>3, PTL DEF Spec

-----------------------------------------------------------------------------
(* The order tasks are dealt in.                                           *)

(* A ready list offers each of its tasks once.                             *)
ReadyList(r) ==
  /\ r \in Seq(Tasks) /\ Len(r) \in Nat /\ DOMAIN r = 1..Len(r)
  /\ \A i \in 1..Len(r) : r[i] \in Tasks
  /\ \A i, j \in 1..Len(r) : r[i] = r[j] => i = j

SameProject(r, i, j) == Project[r[i]] = Project[r[j]]

(* The least of a set of places.                                           *)
LEMMA MinIsLeast ==
  ASSUME NEW S \in SUBSET Nat, S # {}
  PROVE  Min(S) \in S /\ \A x \in S : Min(S) <= x
  <1>1. \E m \in S : \A x \in S : m <= x
    BY Least
  <1> QED BY <1>1 DEF Min

(* A place is among its own, and so are its turn and the foremost of them. *)
LEMMA OwnPlaces ==
  ASSUME NEW r, ReadyList(r), NEW i \in 1..Len(r)
  PROVE  /\ i \in Own(r, i) /\ Own(r, i) \subseteq 1..i /\ Own(r, i) \subseteq 1..Len(r)
         /\ IsFiniteSet(Own(r, i)) /\ Turn(r, i) \in Nat
         /\ Foremost(r, i) \in Own(r, i) /\ \A j \in Own(r, i) : Foremost(r, i) <= j
  <1>1. i \in Own(r, i) /\ Own(r, i) \subseteq 1..i /\ Own(r, i) \subseteq 1..Len(r)
    BY DEF Own, ReadyList
  <1>2. i \in Nat /\ Own(r, i) \in SUBSET Nat /\ Own(r, i) # {}
    BY <1>1 DEF ReadyList
  <1>3. IsFiniteSet(1..i)
    BY <1>2, FS_Interval
  <1>4. IsFiniteSet(Own(r, i)) /\ Turn(r, i) \in Nat
    BY <1>1, <1>3, FS_Subset, FS_CardinalityType DEF Turn
  <1>5. Foremost(r, i) \in Own(r, i) /\ \A j \in Own(r, i) : Foremost(r, i) <= j
    BY <1>2, MinIsLeast DEF Foremost
  <1> QED BY <1>1, <1>4, <1>5

(* Of two tasks of a project, the later one's turn comes later.            *)
LEMMA TurnsGrow ==
  ASSUME NEW r, ReadyList(r), NEW i \in 1..Len(r), NEW j \in 1..Len(r),
         SameProject(r, i, j), i < j
  PROVE  Turn(r, i) < Turn(r, j)
  <1>1. Own(r, i) \subseteq Own(r, j) /\ j \in Own(r, j) /\ j \notin Own(r, i)
    BY DEF Own, SameProject, ReadyList
  <1>2. IsFiniteSet(Own(r, j)) /\ Turn(r, j) \in Nat /\ Turn(r, i) \in Nat
    BY OwnPlaces
  <1>3. Turn(r, i) <= Turn(r, j) /\ (Turn(r, j) = Turn(r, i) => Own(r, j) = Own(r, i))
    BY <1>1, <1>2, FS_Subset DEF Turn
  <1> QED BY <1>1, <1>2, <1>3

(* The foremost place tells the project.                                   *)
LEMMA ForemostTells ==
  ASSUME NEW r, ReadyList(r), NEW i \in 1..Len(r), NEW j \in 1..Len(r)
  PROVE  Foremost(r, i) = Foremost(r, j) <=> SameProject(r, i, j)
  <1>1. /\ Foremost(r, i) \in Own(r, i) /\ \A k \in Own(r, i) : Foremost(r, i) <= k
        /\ Foremost(r, j) \in Own(r, j) /\ \A k \in Own(r, j) : Foremost(r, j) <= k
        /\ i \in Own(r, i) /\ j \in Own(r, j)
    BY OwnPlaces
  <1>2. i \in Nat /\ j \in Nat
    BY DEF ReadyList
  <1>3. Foremost(r, i) = Foremost(r, j) => SameProject(r, i, j)
    BY <1>1 DEF Own, SameProject
  <1>4. ASSUME SameProject(r, i, j) PROVE Foremost(r, i) = Foremost(r, j)
    <2>1. \A k \in 1..i : k \in Own(r, i) <=> Project[r[k]] = Project[r[i]]
      BY DEF Own
    <2>2. \A k \in 1..j : k \in Own(r, j) <=> Project[r[k]] = Project[r[i]]
      BY <1>4 DEF Own, SameProject
    <2>3. Foremost(r, i) \in 1..i /\ Foremost(r, j) \in 1..j
      BY <1>1 DEF Own
    <2>4. Foremost(r, j) <= Foremost(r, i)
      <3>1. CASE Foremost(r, i) \in 1..j
        BY <1>1, <2>1, <2>2, <2>3, <3>1
      <3>2. CASE Foremost(r, i) \notin 1..j
        BY <1>2, <2>3, <3>2
      <3> QED BY <3>1, <3>2
    <2>5. Foremost(r, i) <= Foremost(r, j)
      <3>1. CASE Foremost(r, j) \in 1..i
        BY <1>1, <2>1, <2>2, <2>3, <3>1
      <3>2. CASE Foremost(r, j) \notin 1..i
        BY <1>2, <2>3, <3>2
      <3> QED BY <3>1, <3>2
    <2> QED BY <1>2, <2>3, <2>4, <2>5
  <1> QED BY <1>3, <1>4

LEMMA EarlierOrders ==
  ASSUME NEW r, ReadyList(r)
  PROVE  /\ \A i \in 1..Len(r) : ~Earlier(r, i, i)
         /\ \A i, j \in 1..Len(r) : i # j => Earlier(r, i, j) \/ Earlier(r, j, i)
         /\ \A i, j, k \in 1..Len(r) :
              Earlier(r, i, j) /\ Earlier(r, j, k) => Earlier(r, i, k)
  <1>1. \A i \in 1..Len(r) : Turn(r, i) \in Nat /\ Foremost(r, i) \in Nat
    <2> SUFFICES ASSUME NEW i \in 1..Len(r) PROVE Turn(r, i) \in Nat /\ Foremost(r, i) \in Nat
      OBVIOUS
    <2>1. Turn(r, i) \in Nat /\ Foremost(r, i) \in 1..Len(r)
      BY OwnPlaces
    <2> QED BY <2>1 DEF ReadyList
  <1>2. ASSUME NEW i \in 1..Len(r), NEW j \in 1..Len(r), i # j
        PROVE  Earlier(r, i, j) \/ Earlier(r, j, i)
    <2>1. i < j \/ j < i
      BY <1>2 DEF ReadyList
    <2>2. SameProject(r, i, j) => Turn(r, i) # Turn(r, j)
      <3>1. SameProject(r, i, j) => SameProject(r, j, i)
        BY DEF SameProject
      <3> QED BY <1>1, <2>1, <3>1, TurnsGrow
    <2>3. Foremost(r, i) = Foremost(r, j) => SameProject(r, i, j)
      BY ForemostTells
    <2> QED BY <1>1, <2>2, <2>3 DEF Earlier
  <1> QED BY <1>1, <1>2, SMTT(60) DEF Earlier

(* Every place of the list is dealt once.                                  *)
LEMMA PlacesDeal ==
  ASSUME NEW r, ReadyList(r)
  PROVE  /\ \A i \in 1..Len(r) : Place(r, i) \in 1..Len(r)
         /\ \A i, j \in 1..Len(r) : Earlier(r, i, j) <=> Place(r, i) < Place(r, j)
         /\ \A n \in 1..Len(r) : \E i \in 1..Len(r) : Place(r, i) = n
  <1> DEFINE N == Len(r)  Ahead(i) == {j \in 1..N : Earlier(r, j, i)}
  <1>1. N \in Nat /\ DOMAIN r = 1..N /\ IsFiniteSet(1..N) /\ Cardinality(1..N) = N
    <2>1. N \in Nat /\ DOMAIN r = 1..N
      BY DEF ReadyList
    <2> HIDE DEF N
    <2>2. 1 \in Int /\ N \in Int
      BY <2>1
    <2>3. IsFiniteSet(1..N) /\ Cardinality(1..N) = IF 1 > N THEN 0 ELSE N - 1 + 1
      BY <2>2, FS_Interval
    <2> QED BY <2>1, <2>3
  <1>2. \A i \in 1..N : /\ Place(r, i) = 1 + Cardinality(Ahead(i))
                        /\ IsFiniteSet(Ahead(i)) /\ Cardinality(Ahead(i)) \in Nat
    <2> SUFFICES ASSUME NEW i \in 1..N
                 PROVE  /\ Place(r, i) = 1 + Cardinality(Ahead(i))
                        /\ IsFiniteSet(Ahead(i)) /\ Cardinality(Ahead(i)) \in Nat
      OBVIOUS
    <2>1. Ahead(i) \in SUBSET (1..N)
      OBVIOUS
    <2> QED BY <1>1, <2>1, FS_Subset, FS_CardinalityType DEF Place
  <1>3. ASSUME NEW i \in 1..N PROVE Place(r, i) \in 1..N
    <2>1. Ahead(i) \in SUBSET ((1..N) \ {i})
      BY EarlierOrders
    <2>2. IsFiniteSet((1..N) \ {i}) /\ Cardinality((1..N) \ {i}) = N - 1
      BY <1>1, FS_RemoveElement
    <2>3. Cardinality(Ahead(i)) <= N - 1
      <3> HIDE DEF Ahead, N
      <3> QED BY <2>1, <2>2, FS_Subset
    <2> HIDE DEF Ahead
    <2> QED BY <1>1, <1>2, <2>3
  <1>4. ASSUME NEW i \in 1..N, NEW j \in 1..N, Earlier(r, i, j)
        PROVE  Place(r, i) < Place(r, j)
    <2>1. Ahead(i) \in SUBSET Ahead(j) /\ i \in Ahead(j) /\ i \notin Ahead(i)
      BY <1>4, EarlierOrders
    <2> HIDE DEF Ahead, N
    <2>2. /\ Cardinality(Ahead(i)) <= Cardinality(Ahead(j))
          /\ Cardinality(Ahead(j)) = Cardinality(Ahead(i)) => Ahead(j) = Ahead(i)
      BY <1>2, <2>1, FS_Subset
    <2> QED BY <1>2, <2>1, <2>2
  <1>5. ASSUME NEW i \in 1..N, NEW j \in 1..N, Place(r, i) < Place(r, j)
        PROVE  Earlier(r, i, j)
    <2>1. Place(r, i) \in Nat /\ Place(r, j) \in Nat
      BY <1>3
    <2>2. i # j /\ ~Earlier(r, j, i)
      BY <1>4, <1>5, <2>1
    <2> QED BY <2>2, EarlierOrders
  <1>6. \A n \in 1..N : \E i \in 1..N : Place(r, i) = n
    <2> DEFINE f == [i \in 1..N |-> Place(r, i)]
    <2>1. f \in [1..N -> 1..N]
      BY <1>3
    <2>2. ASSUME NEW i \in 1..N, NEW j \in 1..N, f[i] = f[j] PROVE i = j
      <3>1. Place(r, i) = Place(r, j) /\ Place(r, i) \in Nat
        BY <1>3, <2>2
      <3>2. ~Earlier(r, i, j) /\ ~Earlier(r, j, i)
        BY <1>4, <3>1
      <3> QED BY <3>2, EarlierOrders
    <2>3. f \in Injection(1..N, 1..N)
      <3> HIDE DEF f, N
      <3> QED BY <2>1, <2>2, Fun_IsInj
    <2>4. f \in Surjection(1..N, 1..N)
      <3> HIDE DEF f, N
      <3> QED BY <1>1, <2>3, FS_Injection
    <2>5. \A n \in 1..N : \E i \in 1..N : f[i] = n
      <3> HIDE DEF f, N
      <3> QED BY <2>4 DEF Surjection
    <2> QED BY <2>5
  <1> QED BY <1>3, <1>4, <1>5, <1>6

LEMMA DealtInPlace ==
  ASSUME NEW r, ReadyList(r)
  PROVE  /\ \A i \in 1..Len(r) : ShareOut(r)[Place(r, i)] = r[i]
         /\ \A n \in 1..Len(r) : ShareOut(r)[n] \in Tasks
  <1> DEFINE N == Len(r)  at(n) == CHOOSE i \in 1..N : Place(r, i) = n
  <1>1. DOMAIN r = 1..N /\ N \in Nat
    BY DEF ReadyList
  <1>2. ShareOut(r) = [n \in 1..N |-> r[at(n)]]
    BY <1>1 DEF ShareOut
  <1>3. \A n \in 1..N : at(n) \in 1..N /\ Place(r, at(n)) = n
    BY PlacesDeal
  <1>4. ASSUME NEW i \in 1..N PROVE Place(r, i) \in 1..N /\ at(Place(r, i)) = i
    <2>1. Place(r, i) \in 1..N
      BY PlacesDeal
    <2> DEFINE j == at(Place(r, i))
    <2>2. j \in 1..N /\ Place(r, j) = Place(r, i)
      BY <1>3, <2>1
    <2> HIDE DEF j
    <2>3. ~Earlier(r, i, j) /\ ~Earlier(r, j, i)
      BY <2>1, <2>2, PlacesDeal
    <2>4. i = j
      BY <2>2, <2>3, EarlierOrders
    <2> QED BY <2>1, <2>4 DEF j
  <1>5. \A i \in 1..N : r[i] \in Tasks
    BY DEF ReadyList
  <1> HIDE DEF at, N
  <1>6. \A i \in 1..N : ShareOut(r)[Place(r, i)] = r[i]
    BY <1>2, <1>4
  <1>7. \A n \in 1..N : ShareOut(r)[n] \in Tasks
    BY <1>2, <1>3, <1>5
  <1> QED BY <1>6, <1>7 DEF N

-----------------------------------------------------------------------------
(* The slots.                                                              *)

Launch(t, quota) == [task |-> t, profile |-> Walk(Asked(t), quota).chosen]
Launches(quota) == {Launch(t, quota) : t \in Tasks}
Given(spawns) == {spawns[i].task : i \in DOMAIN spawns}

LEMMA OneMore ==
  ASSUME NEW quota, NEW before \in Seq(Launches(quota)), NEW t \in Tasks
  PROVE  LET after == Append(before, Launch(t, quota)) IN
         /\ after \in Seq(Launches(quota)) /\ Len(after) = Len(before) + 1
         /\ Given(after) = Given(before) \union {t}
  <1> DEFINE L == Launches(quota)  x == Launch(t, quota)  after == Append(before, x)
  <1>1. x \in L /\ x.task = t
    BY DEF Launches, Launch
  <1> HIDE DEF L, x
  <1>2. /\ after \in Seq(L) /\ Len(after) = Len(before) + 1 /\ Len(before) \in Nat
        /\ DOMAIN before = 1..Len(before) /\ DOMAIN after = 1..(Len(before) + 1)
        /\ \A i \in 1..Len(before) : after[i] = before[i]
        /\ after[Len(before) + 1] = x
    BY <1>1, AppendProperties, LenProperties DEF L
  <1> HIDE DEF after
  <1>3. Given(after) = Given(before) \union {t}
    <2>1. 1..(Len(before) + 1) = 1..Len(before) \union {Len(before) + 1}
      BY <1>2
    <2> QED BY <1>1, <1>2, <2>1 DEF Given
  <1> QED BY <1>2, <1>3 DEF L, after, x

(* One task after the other is given a slot or passed over.                *)
Full(live, spawns) == live + Len(spawns) >= config.workers
Fill(live, quota, t, before) ==
  IF Full(live, before) \/ ~Eligible(t, quota) THEN before
  ELSE Append(before, Launch(t, quota))

Filling(b, r, live, quota) ==
  /\ b \in [0..Len(r) -> Seq(Launches(quota))]
  /\ b[0] = <<>> /\ Spawns(r, live, quota) = b[Len(r)]
  /\ \A n \in 1..Len(r) : b[n] = Fill(live, quota, ShareOut(r)[n], b[n - 1])

LEMMA SpawnsRun ==
  ASSUME NEW r, ReadyList(r), NEW live, NEW quota
  PROVE  \E b : Filling(b, r, live, quota)
  <1> DEFINE N == Len(r)  D == ShareOut(r)  T == Seq(Launches(quota))
             step == [n \in 1..N |-> [before \in T |-> Fill(live, quota, D[n], before)]]
             F(b) == b = [n \in 0..N |-> IF n = 0 THEN <<>>
                                         ELSE Fill(live, quota, D[n], b[n - 1])]
  <1>1. N \in Nat /\ <<>> \in T /\ \A n \in 1..N : D[n] \in Tasks
    BY DealtInPlace DEF ReadyList
  <1>2. step \in [1..N -> [T -> T]]
    <2> SUFFICES ASSUME NEW n \in 1..N, NEW before \in T PROVE Fill(live, quota, D[n], before) \in T
      BY Zenon
    <2> HIDE DEF D
    <2>1. Append(before, Launch(D[n], quota)) \in T
      BY <1>1, OneMore
    <2> QED BY <2>1 DEF Fill
  <1>3. PICK b \in [0..N -> T] : Recurs(b, N, <<>>, step)
    <2> HIDE DEF step, N, T
    <2> QED BY <1>1, <1>2, Recursion
  <1>4. F(b)
    <2>1. ASSUME NEW n \in 1..N PROVE step[n][b[n - 1]] = Fill(live, quota, D[n], b[n - 1])
      <3>1. n - 1 \in 0..N
        BY <1>1
      <3>2. b[n - 1] \in T
        <4> HIDE DEF T, N
        <4> QED BY <1>3, <3>1
      <3> HIDE DEF T, N, D
      <3> QED BY <3>2
    <2>2. \A n \in 0..N : n = 0 \/ n \in 1..N
      BY <1>1
    <2> HIDE DEF step, N, T, D
    <2> QED BY <1>3, <2>1, <2>2 DEF Recurs
  <1> DEFINE B == CHOOSE h : F(h)
  <1>5. F(B)
    <2> HIDE DEF F
    <2> QED BY <1>4
  <1>6. Spawns(r, live, quota) = B[N]
    BY DEF Spawns, Fill, Launch, Full
  <1> HIDE DEF B
  <1>7. B[0] = <<>> /\ \A n \in 1..N : B[n] = Fill(live, quota, D[n], B[n - 1])
    <2>1. 0 \in 0..N /\ \A n \in 1..N : n \in 0..N /\ n # 0
      BY <1>1
    <2> HIDE DEF N, D
    <2> QED BY <1>5, <2>1
  <1> DEFINE S == {n \in 0..N : B[n] \in T}
  <1>8. 0..N \subseteq S
    <2>1. 0 \in S
      <3> HIDE DEF T, D, N
      <3>1. 0 \in 0..N /\ B[0] \in T
        BY <1>1, <1>7
      <3> QED BY <3>1
    <2>2. ASSUME NEW n \in 1..N, n - 1 \in S PROVE n \in S
      <3>1. n \in 0..N /\ B[n - 1] \in T /\ B[n] = Fill(live, quota, D[n], B[n - 1])
        BY <1>1, <1>7, <2>2
      <3> HIDE DEF D
      <3>2. Append(B[n - 1], Launch(D[n], quota)) \in T
        BY <1>1, <3>1, OneMore
      <3> QED BY <3>1, <3>2 DEF Fill
    <2> HIDE DEF S, N
    <2> QED BY <1>1, <2>1, <2>2, Climb
  <1>9. B \in [0..N -> T]
    <2>1. B = [n \in 0..N |-> B[n]]
      BY <1>5
    <2> HIDE DEF N, T
    <2> QED BY <1>8, <2>1
  <1>10. Filling(B, r, live, quota)
    BY <1>6, <1>7, <1>9, Zenon DEF Filling
  <1> QED BY <1>10

(* What is dealt is given in that order while there are slots, but for the *)
(* tasks a quota holds back; what may launch waits for a slot alone.       *)
SlotsFilled(r, live, quota, spawns) ==
  /\ spawns \in Seq(Launches(quota))
  /\ \A n \in 1..Len(r) : Eligible(ShareOut(r)[n], quota) =>
       ShareOut(r)[n] \in Given(spawns) \/ Full(live, spawns)
  /\ (\A n \in 1..Len(r) : Eligible(ShareOut(r)[n], quota)) =>
       \E m \in 0..Len(r) : Given(spawns) = {ShareOut(r)[k] : k \in 1..m}

LEMMA SlotsFill ==
  ASSUME NEW r, ReadyList(r), NEW live \in Nat, NEW quota, config.workers \in Int
  PROVE  SlotsFilled(r, live, quota, Spawns(r, live, quota))
  <1>1. PICK b : Filling(b, r, live, quota)
    BY SpawnsRun
  <1> DEFINE N == Len(r)  D == ShareOut(r)  T == Seq(Launches(quota))
             All == \A n \in 1..N : Eligible(D[n], quota)
  <1>2. /\ b \in [0..N -> T] /\ b[0] = <<>> /\ Spawns(r, live, quota) = b[N]
        /\ \A n \in 1..N : b[n] = Fill(live, quota, D[n], b[n - 1])
    BY <1>1, Zenon DEF Filling
  <1>3. N \in Nat /\ \A n \in 1..N : D[n] \in Tasks
    BY DealtInPlace DEF ReadyList
  <1> HIDE DEF N, D, T
  <1> DEFINE P(n) == /\ \A k \in 1..n : Eligible(D[k], quota) =>
                          D[k] \in Given(b[n]) \/ Full(live, b[n])
                     /\ All => \E m \in 0..n : /\ Given(b[n]) = {D[k] : k \in 1..m}
                                               /\ m = n \/ Full(live, b[n])
             S == {n \in 0..N : P(n)}
  <1>4. 0 \in S
    <2>1. Given(b[0]) = {} /\ {D[k] : k \in 1..0} = {}
      BY <1>2 DEF Given
    <2>2. P(0)
      BY <2>1
    <2>3. 0 \in 0..N
      BY <1>3
    <2> HIDE DEF P
    <2> QED BY <2>2, <2>3
  <1>5. ASSUME NEW n \in 1..N, n - 1 \in S PROVE n \in S
    <2>1. P(n - 1)
      <3> HIDE DEF P
      <3> QED BY <1>5
    <2>2. /\ n \in 0..N /\ n - 1 \in 0..N /\ b[n - 1] \in T /\ D[n] \in Tasks
          /\ b[n] = Fill(live, quota, D[n], b[n - 1])
          /\ \A k \in 1..n : k = n \/ k \in 1..(n - 1)
      <3> HIDE DEF P, All
      <3> QED BY <1>2, <1>3
    <2>3. CASE Full(live, b[n - 1]) \/ ~Eligible(D[n], quota)
      <3>1. b[n] = b[n - 1]
        BY <2>2, <2>3 DEF Fill
      <3>2. \A k \in 1..n : Eligible(D[k], quota) => D[k] \in Given(b[n]) \/ Full(live, b[n])
        BY <2>2, <2>3, <2>1, <3>1
      <3>3. ASSUME All
            PROVE  \E m \in 0..n : /\ Given(b[n]) = {D[k] : k \in 1..m}
                                   /\ m = n \/ Full(live, b[n])
        <4>1. PICK m \in 0..(n - 1) : Given(b[n - 1]) = {D[k] : k \in 1..m}
          BY <2>2, <2>1, <3>3
        <4>2. m \in 0..n /\ Full(live, b[n])
          BY <2>3, <3>1, <3>3
        <4> QED BY <3>1, <4>1, <4>2
      <3> QED BY <2>2, <3>2, <3>3
    <2>4. CASE ~(Full(live, b[n - 1]) \/ ~Eligible(D[n], quota))
      <3>1. b[n] = Append(b[n - 1], Launch(D[n], quota))
        BY <2>2, <2>4 DEF Fill
      <3>2. Given(b[n]) = Given(b[n - 1]) \union {D[n]}
        BY <2>2, <3>1, OneMore DEF T
      <3>3. \A k \in 1..n : Eligible(D[k], quota) => D[k] \in Given(b[n]) \/ Full(live, b[n])
        BY <2>2, <2>4, <2>1, <3>2
      <3>4. ASSUME All
            PROVE  \E m \in 0..n : /\ Given(b[n]) = {D[k] : k \in 1..m}
                                   /\ m = n \/ Full(live, b[n])
        <4>1. PICK m \in 0..(n - 1) : /\ Given(b[n - 1]) = {D[k] : k \in 1..m}
                                      /\ m = n - 1 \/ Full(live, b[n - 1])
          BY <2>2, <2>1, <3>4
        <4>2. m = n - 1
          BY <2>4, <4>1
        <4>3. {D[k] : k \in 1..n} = {D[k] : k \in 1..(n - 1)} \union {D[n]}
          <5>1. 1..n = 1..(n - 1) \union {n}
            OBVIOUS
          <5> QED BY <5>1
        <4>4. n \in 0..n
          OBVIOUS
        <4> QED BY <3>2, <4>1, <4>2, <4>3, <4>4
      <3> QED BY <2>2, <3>3, <3>4
    <2> QED BY <2>3, <2>4
  <1>6. 0..N \subseteq S
    <2> HIDE DEF S
    <2> QED BY <1>3, <1>4, <1>5, Climb
  <1>7. N \in 0..N
    BY <1>3
  <1>8. P(N) /\ b[N] \in T
    <2> HIDE DEF P
    <2> QED BY <1>2, <1>6, <1>7
  <1> QED BY <1>2, <1>8 DEF N, D, T, SlotsFilled

-----------------------------------------------------------------------------
(* Fair shares.                                                            *)

TasksAt(r, S) == {r[i] : i \in S}

(* There are as many tasks as places.                                      *)
LEMMA TasksCount ==
  ASSUME NEW r, ReadyList(r), NEW S \in SUBSET (1..Len(r))
  PROVE  /\ IsFiniteSet(S) /\ IsFiniteSet(TasksAt(r, S))
         /\ Cardinality(TasksAt(r, S)) = Cardinality(S) /\ Cardinality(S) \in Nat
  <1> DEFINE T == TasksAt(r, S)  f == [i \in S |-> r[i]]
  <1>1. IsFiniteSet(S) /\ Cardinality(S) \in Nat
    <2>1. IsFiniteSet(1..Len(r))
      BY FS_Interval DEF ReadyList
    <2> QED BY <2>1, FS_Subset, FS_CardinalityType
  <1>2. f \in [S -> T] /\ \A t \in T : \E i \in S : f[i] = t
    BY DEF TasksAt
  <1>3. \A i, j \in S : f[i] = f[j] => i = j
    BY DEF ReadyList
  <1> HIDE DEF f, T
  <1>4. f \in Surjection(S, T)
    BY <1>2 DEF Surjection
  <1>5. f \in Injection(S, T)
    BY <1>2, <1>3, Fun_IsInj
  <1>6. IsFiniteSet(T) /\ Cardinality(T) = Cardinality(S)
    BY <1>1, <1>4, <1>5, FS_Surjection
  <1> QED BY <1>1, <1>6 DEF T

(* What was dealt first has been given, and nothing else.                  *)
DealtFirst(r, G) ==
  \A i, j \in 1..Len(r) : r[j] \in G /\ Earlier(r, i, j) => r[i] \in G

LEMMA GivenInOrder ==
  ASSUME NEW r, ReadyList(r), NEW m \in 0..Len(r), NEW G,
         G = {ShareOut(r)[k] : k \in 1..m}
  PROVE  G \subseteq TasksAt(r, 1..Len(r)) /\ DealtFirst(r, G)
  <1>1. \A k \in 1..m : k \in 1..Len(r)
    BY DEF ReadyList
  <1>2. \A k \in 1..m : \E i \in 1..Len(r) : Place(r, i) = k /\ ShareOut(r)[k] = r[i]
    <2> SUFFICES ASSUME NEW k \in 1..m
                 PROVE  \E i \in 1..Len(r) : Place(r, i) = k /\ ShareOut(r)[k] = r[i]
      OBVIOUS
    <2>1. PICK i \in 1..Len(r) : Place(r, i) = k
      BY <1>1, PlacesDeal
    <2>2. ShareOut(r)[Place(r, i)] = r[i]
      BY DealtInPlace
    <2> QED BY <2>1, <2>2
  <1>3. G \subseteq TasksAt(r, 1..Len(r))
    BY <1>2 DEF TasksAt
  <1>4. ASSUME NEW i \in 1..Len(r), NEW j \in 1..Len(r), r[j] \in G, Earlier(r, i, j)
        PROVE  r[i] \in G
    <2>1. PICK k \in 1..m : r[j] = ShareOut(r)[k]
      BY <1>4
    <2>2. PICK h \in 1..Len(r) : Place(r, h) = k /\ r[j] = r[h]
      BY <1>2, <2>1
    <2>3. h = j
      BY <2>2 DEF ReadyList
    <2>4. Place(r, i) < k /\ Place(r, i) \in 1..Len(r)
      BY <1>4, <2>2, <2>3, PlacesDeal
    <2>5. Place(r, i) \in 1..m
      BY <2>4 DEF ReadyList
    <2>6. ShareOut(r)[Place(r, i)] = r[i]
      BY DealtInPlace
    <2> QED BY <2>5, <2>6
  <1> QED BY <1>3, <1>4 DEF DealtFirst

Places(r, G, p) == {i \in 1..Len(r) : r[i] \in G /\ Project[r[i]] = p}

LEMMA PlacesTell ==
  ASSUME NEW r, ReadyList(r), NEW G, G \subseteq TasksAt(r, 1..Len(r)), NEW p
  PROVE  TasksAt(r, Places(r, G, p)) = {t \in G : Project[t] = p}
  <1>1. \A t \in G : \E i \in 1..Len(r) : t = r[i]
    BY DEF TasksAt
  <1> QED BY <1>1 DEF TasksAt, Places

(* The most a project is given.                                            *)
LEMMA GivenAtMost ==
  ASSUME NEW r, ReadyList(r), NEW G, DealtFirst(r, G), NEW p,
         NEW w \in 1..Len(r), r[w] \notin G
  PROVE  Cardinality(Places(r, G, p)) <= Turn(r, w)
  <1> DEFINE I == Places(r, G, p)
  <1>1. I \in SUBSET (1..Len(r)) /\ Len(r) \in Nat /\ Turn(r, w) \in Nat
    BY OwnPlaces DEF Places, ReadyList
  <1>2. CASE I = {}
    <2> HIDE DEF I
    <2>1. Cardinality(I) = 0
      BY <1>2, FS_EmptySet
    <2> QED BY <1>1, <2>1 DEF I
  <1>3. CASE I # {}
    <2>1. PICK j \in I : \A x \in I : x <= j
      <3> HIDE DEF I
      <3> QED BY <1>1, <1>3, Greatest
    <2>2. j \in 1..Len(r) /\ r[j] \in G /\ Turn(r, j) \in Nat /\ IsFiniteSet(Own(r, j))
      BY <2>1, OwnPlaces DEF Places
    <2>3. I \in SUBSET Own(r, j)
      BY <1>1, <2>1 DEF Own, Places
    <2>4. Cardinality(I) <= Turn(r, j) /\ Cardinality(I) \in Nat
      <3> HIDE DEF I
      <3> QED BY <2>2, <2>3, FS_Subset, FS_CardinalityType DEF Turn
    <2>5. ~(Turn(r, w) < Turn(r, j))
      BY <2>2 DEF DealtFirst, Earlier
    <2> HIDE DEF I
    <2> QED BY <1>1, <2>2, <2>4, <2>5 DEF I
  <1> QED BY <1>2, <1>3

(* The least a project is given that has a task waiting.                   *)
LEMMA GivenAtLeast ==
  ASSUME NEW r, ReadyList(r), NEW G, NEW o,
         NEW w \in 1..Len(r), r[w] \notin G, Project[r[w]] = o,
         \A i \in 1..Len(r) : r[i] \notin G /\ Project[r[i]] = o => w <= i
  PROVE  Turn(r, w) - 1 <= Cardinality(Places(r, G, o))
  <1> DEFINE I == Places(r, G, o)  B == Own(r, w) \ {w}
  <1>1. IsFiniteSet(B) /\ Cardinality(B) = Turn(r, w) - 1
    BY OwnPlaces, FS_RemoveElement DEF Turn
  <1>2. B \in SUBSET I
    <2> SUFFICES ASSUME NEW i \in Own(r, w), i # w PROVE i \in I
      OBVIOUS
    <2>1. i \in 1..Len(r) /\ i \in 1..w /\ Project[r[i]] = o
      BY OwnPlaces DEF Own
    <2>2. ~(w <= i)
      BY <2>1 DEF ReadyList
    <2> QED BY <2>1, <2>2 DEF Places
  <1>3. I \in SUBSET (1..Len(r))
    BY DEF Places
  <1>4. IsFiniteSet(I)
    <2> HIDE DEF I
    <2> QED BY <1>3, TasksCount
  <1> HIDE DEF B, I
  <1>5. Cardinality(B) <= Cardinality(I)
    BY <1>2, <1>4, FS_Subset
  <1> QED BY <1>1, <1>5 DEF I

(* A project with a task waiting is at most one behind any other, and what *)
(* it was given stood before what waits.                                   *)
Shared(r, G, p, o) ==
  /\ (\E i \in 1..Len(r) : r[i] \notin G /\ Project[r[i]] = o) =>
       Cardinality({t \in G : Project[t] = p})
         <= Cardinality({t \in G : Project[t] = o}) + 1
  /\ \A i, j \in 1..Len(r) :
       r[i] \in G /\ r[j] \notin G /\ Project[r[i]] = p /\ Project[r[j]] = p => i < j

LEMMA SharesAreFair ==
  ASSUME NEW r, ReadyList(r), NEW G, G \subseteq TasksAt(r, 1..Len(r)), DealtFirst(r, G),
         NEW p, NEW o
  PROVE  Shared(r, G, p, o)
  <1>1. ASSUME \E i \in 1..Len(r) : r[i] \notin G /\ Project[r[i]] = o
        PROVE  Cardinality({t \in G : Project[t] = p})
                 <= Cardinality({t \in G : Project[t] = o}) + 1
    <2> DEFINE W == {i \in 1..Len(r) : r[i] \notin G /\ Project[r[i]] = o}
    <2>1. PICK w \in W : \A x \in W : w <= x
      <3>1. W \in SUBSET Nat /\ W # {}
        BY <1>1 DEF ReadyList
      <3> HIDE DEF W
      <3> QED BY <3>1, Least
    <2>2. Cardinality(Places(r, G, p)) <= Turn(r, w)
      BY <2>1, GivenAtMost
    <2>3. Turn(r, w) - 1 <= Cardinality(Places(r, G, o))
      BY <2>1, GivenAtLeast
    <2>4. /\ Cardinality({t \in G : Project[t] = p}) = Cardinality(Places(r, G, p))
          /\ Cardinality({t \in G : Project[t] = o}) = Cardinality(Places(r, G, o))
          /\ Cardinality(Places(r, G, p)) \in Nat /\ Cardinality(Places(r, G, o)) \in Nat
      <3>1. Places(r, G, p) \in SUBSET (1..Len(r)) /\ Places(r, G, o) \in SUBSET (1..Len(r))
        BY DEF Places
      <3>2. /\ TasksAt(r, Places(r, G, p)) = {t \in G : Project[t] = p}
            /\ TasksAt(r, Places(r, G, o)) = {t \in G : Project[t] = o}
        BY PlacesTell
      <3> QED BY <3>1, <3>2, TasksCount
    <2>5. Turn(r, w) \in Nat
      BY <2>1, OwnPlaces
    <2> QED BY <2>2, <2>3, <2>4, <2>5
  <1>2. ASSUME NEW i \in 1..Len(r), NEW j \in 1..Len(r), r[i] \in G, r[j] \notin G,
               Project[r[i]] = p, Project[r[j]] = p
        PROVE  i < j
    <2>1. i \in Nat /\ j \in Nat /\ i # j
      BY <1>2 DEF ReadyList
    <2>2. ~(j < i)
      <3> SUFFICES ASSUME j < i PROVE FALSE
        OBVIOUS
      <3>1. SameProject(r, j, i)
        BY <1>2 DEF SameProject
      <3>2. Earlier(r, j, i)
        BY <3>1, TurnsGrow DEF Earlier
      <3> QED BY <1>2, <3>2 DEF DealtFirst
    <2> QED BY <2>1, <2>2
  <1> QED BY <1>1, <1>2 DEF Shared

-----------------------------------------------------------------------------
(* A tick.                                                                 *)

(* The last tick was one of the config the document was parsed into.       *)
TickInv ==
  /\ config # <<>> => config.refused \in BOOLEAN
  /\ Running => config.workers = Workers(doc)
  /\ tick = NoTick \/ ( /\ Running
                        /\ tick.offer \in Offers(doc) /\ tick.live \in 0..1
                        /\ tick.spawns = Spawns(tick.offer, tick.live, tick.quota) )

LEMMA TicksKept == Spec => []TickInv
  <1>1. Init => TickInv
    BY DEF Init, TickInv, Running
  <1>2. TickInv /\ [Next]_vars => TickInv'
    <2> SUFFICES ASSUME TickInv, [Next]_vars PROVE TickInv'
      OBVIOUS
    <2>1. CASE Parse
      <3>1. tick = NoTick /\ tick' = tick /\ doc' = doc
        BY <2>1 DEF Parse, TickInv, Running
      <3>2. CASE Acceptable(doc)
        <4>1. config'.refused = FALSE /\ config'.workers = Workers(doc)
          BY <2>1, <3>2 DEF Parse
        <4> QED BY <3>1, <4>1 DEF TickInv, NoTick, Workers
      <3>3. CASE ~Acceptable(doc)
        <4>1. config'.refused = TRUE
          BY <2>1, <3>3 DEF Parse, Refused
        <4> QED BY <3>1, <4>1 DEF TickInv, NoTick, Running
      <3> QED BY <3>2, <3>3
    <2>2. ASSUME NEW ready \in Offers(doc), NEW quota \in Quotas, NEW live \in 0..1,
                 Tick(ready, live, quota)
          PROVE  TickInv'
      <3>1. /\ Running /\ doc' = doc /\ config' = config
            /\ tick'.offer = ready /\ tick'.quota = quota /\ tick'.live = live
            /\ tick'.spawns = Spawns(ready, live, quota)
        BY <2>2 DEF Tick
      <3>2. Running' /\ Workers(doc)' = Workers(doc) /\ Offers(doc') = Offers(doc)
        BY <3>1 DEF Running, Workers
      <3>3. Spawns(tick.offer, tick.live, tick.quota)' = Spawns(ready, live, quota)
        <4>1. config' = config
          BY <3>1
        <4>2. Spawns(ready, live, quota)' = Spawns(ready, live, quota)
          BY <4>1 DEF Spawns, Eligible, Walk, Asked, ProfileRefused, AtQuota, ProfileNameFor
        <4> QED BY <3>1, <4>2
      <3> QED BY <3>1, <3>2, <3>3 DEF TickInv
    <2>3. CASE UNCHANGED vars
      <3>1. doc' = doc /\ config' = config /\ tick' = tick
        BY <2>3 DEF vars
      <3>2. Spawns(tick.offer, tick.live, tick.quota)' = Spawns(tick.offer, tick.live, tick.quota)
        BY <3>1 DEF Spawns, Eligible, Walk, Asked, ProfileRefused, AtQuota, ProfileNameFor
      <3> QED BY <3>1, <3>2 DEF TickInv, Running, Workers
    <2> QED BY <2>1, <2>2, <2>3 DEF Next
  <1> QED BY <1>1, <1>2, PTL DEF Spec

(* What the board offers is a ready list, and what a tick gives of it are  *)
(* tasks.                                                                  *)
LEMMA TickGives ==
  ASSUME ConfigInv, TickInv, Ticked
  PROVE  /\ Running /\ ReadyList(tick.offer) /\ tick.live \in Nat /\ config.workers \in Int
         /\ tick.spawns \in Seq(Launches(tick.quota)) /\ Spawned = Given(tick.spawns)
         /\ DOMAIN tick.spawns = 1..Len(tick.spawns)
         /\ \A i \in DOMAIN tick.spawns : tick.spawns[i].task \in Tasks
  <1>1. Running /\ tick.offer \in Offers(doc) /\ doc \in Documents /\ tick.live \in Nat
    BY DEF TickInv, Ticked, ConfigInv
  <1>2. ReadyList(tick.offer)
    <2>1. /\ tick.offer \in Seq(Tasks)
          /\ \A i, j \in DOMAIN tick.offer : tick.offer[i] = tick.offer[j] => i = j
      BY <1>1, DocumentAssumption
    <2> QED BY <2>1, LenProperties DEF ReadyList
  <1>3. config.workers \in Int
    BY <1>1, DocumentAssumption, RoutingAssumption DEF TickInv, Workers
  <1>4. tick.spawns \in Seq(Launches(tick.quota))
    BY <1>1, <1>2, <1>3, SlotsFill DEF TickInv, Ticked, SlotsFilled
  <1>5. /\ DOMAIN tick.spawns = 1..Len(tick.spawns)
        /\ \A i \in DOMAIN tick.spawns : tick.spawns[i] \in Launches(tick.quota)
    BY <1>4, LenProperties
  <1>6. \A i \in DOMAIN tick.spawns : tick.spawns[i].task \in Tasks
    BY <1>5 DEF Launches, Launch
  <1> QED BY <1>1, <1>2, <1>3, <1>4, <1>5, <1>6 DEF Spawned, Given

(* Everything has its type, and a config that was accepted names a defined *)
(* profile for every task.                                                 *)
THEOREM TypeCorrect == Spec => []TypeOK
  <1>1. ConfigInv /\ TickInv => TypeOK
    <2> SUFFICES ASSUME ConfigInv, TickInv PROVE TypeOK
      OBVIOUS
    <2>1. config # <<>> =>
            /\ config.refused \in BOOLEAN
            /\ Running => \A t \in Tasks : Asked(t) \in DOMAIN config.profiles
      BY AskedIsTop DEF TickInv, Profiled
    <2>2. CASE tick = NoTick
      <3>1. tick.live \in Nat /\ DOMAIN tick.spawns = {}
        BY <2>2 DEF NoTick
      <3> QED BY <2>1, <3>1 DEF TypeOK
    <2>3. CASE tick # NoTick
      BY <2>1, <2>3, TickGives DEF TypeOK, Ticked
    <2> QED BY <2>2, <2>3
  <1> QED BY <1>1, ConfigKept, TicksKept, PTL

(* No slot stays free while a task that may launch waits (Decide); and     *)
(* where nothing is gated, a project with a task waiting is at most one    *)
(* worker behind any other, and a project's tasks go out in the board's    *)
(* order (shareOut): for ready lists of any length and any number of       *)
(* projects.                                                               *)
THEOREM SharesAreKept == Spec => []FairShare
  <1>1. ASSUME ConfigInv, TickInv, Ticked PROVE FairShare
    <2> DEFINE r == tick.offer  quota == tick.quota  D == ShareOut(r)  N == Len(r)
    <2>1. /\ ReadyList(r) /\ tick.live \in Nat /\ config.workers \in Int
          /\ Spawned = Given(tick.spawns) /\ tick.spawns = Spawns(r, tick.live, quota)
      BY <1>1, TickGives DEF TickInv, Ticked
    <2>2. /\ \A n \in 1..N : Eligible(D[n], quota) =>
               D[n] \in Spawned \/ Full(tick.live, tick.spawns)
          /\ (\A n \in 1..N : Eligible(D[n], quota)) =>
               \E m \in 0..N : Spawned = {D[k] : k \in 1..m}
      <3>1. SlotsFilled(r, tick.live, quota, tick.spawns)
        BY <2>1, SlotsFill
      <3> QED BY <2>1, <3>1, Zenon DEF SlotsFilled
    <2>3. DOMAIN r = 1..N /\ N \in Nat /\ \A i, j \in 1..N : r[i] = r[j] => i = j
      BY <2>1 DEF ReadyList
    <2> DEFINE offered == ToSet(r)
               given(p) == {t \in Spawned : Project[t] = p}
               waiting(p) == {t \in offered \ Spawned : Project[t] = p}
               at(t) == CHOOSE i \in DOMAIN r : r[i] = t
    <2>4. \A t \in offered : \E i \in 1..N : t = r[i]
      BY <2>3 DEF ToSet
    <2>5. \A i \in 1..N : r[i] \in offered /\ at(r[i]) = i
      BY <2>3 DEF ToSet
    <2>6. \A n \in 1..N : D[n] \in offered
      <3> SUFFICES ASSUME NEW n \in 1..N PROVE D[n] \in offered
        OBVIOUS
      <3>1. PICK i \in 1..N : Place(r, i) = n
        BY <2>1, PlacesDeal
      <3>2. D[n] = r[i]
        BY <2>1, <3>1, DealtInPlace
      <3> QED BY <2>5, <3>2
    <2>7. ASSUME NEW t \in offered \ Spawned, Eligible(t, quota)
          PROVE  tick.live + Len(tick.spawns) >= config.workers
      <3>1. PICK i \in 1..N : t = r[i]
        BY <2>4
      <3>2. Place(r, i) \in 1..N /\ D[Place(r, i)] = t
        BY <2>1, <3>1, PlacesDeal, DealtInPlace
      <3> HIDE DEF D, N, r, quota
      <3> QED BY <2>2, <2>7, <3>2 DEF Full
    <2>8. ASSUME \A t \in offered : Eligible(t, quota), NEW p \in Projects, NEW o \in Projects
          PROVE  /\ waiting(o) # {} => Cardinality(given(p)) <= Cardinality(given(o)) + 1
                 /\ \A s \in given(p), t \in waiting(p) : at(s) < at(t)
      <3>1. PICK m \in 0..N : Spawned = {D[k] : k \in 1..m}
        BY <2>2, <2>6, <2>8
      <3>2. Spawned \subseteq TasksAt(r, 1..N) /\ DealtFirst(r, Spawned)
        BY <2>1, <3>1, GivenInOrder
      <3>3. Shared(r, Spawned, p, o)
        BY <2>1, <3>2, SharesAreFair
      <3>4. /\ (\E i \in 1..N : r[i] \notin Spawned /\ Project[r[i]] = o) =>
                  Cardinality(given(p)) <= Cardinality(given(o)) + 1
            /\ \A i, j \in 1..N :
                 /\ r[i] \in Spawned /\ r[j] \notin Spawned
                 /\ Project[r[i]] = p /\ Project[r[j]] = p
                 => i < j
        BY <3>3, Zenon DEF Shared
      <3>5. waiting(o) # {} => \E i \in 1..N : r[i] \notin Spawned /\ Project[r[i]] = o
        BY <2>4
      <3>6. ASSUME NEW s \in given(p), NEW t \in waiting(p) PROVE at(s) < at(t)
        <4>1. PICK i \in 1..N : s = r[i]
          BY <3>2 DEF TasksAt
        <4>2. PICK j \in 1..N : t = r[j]
          BY <2>4
        <4>3. i < j
          BY <3>4, <4>1, <4>2
        <4> QED BY <2>5, <4>1, <4>2, <4>3
      <3> QED BY <3>4, <3>5, <3>6
    <2> QED BY <2>7, <2>8 DEF FairShare
  <1>2. ConfigInv /\ TickInv => FairShare
    BY <1>1 DEF FairShare
  <1> QED BY <1>2, ConfigKept, TicksKept, PTL
=============================================================================
