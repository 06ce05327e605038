---------------------------- MODULE DoorsProofs ----------------------------
(* One daemon and its socket, parked calls decided and run once, the       *)
(* refinement of Verdict, and stops answered: proved for any number of     *)
(* daemons, calls and scenarios, with every fault.                         *)
EXTENDS Doors, FiniteSetTheorems, TLAPS

USE DEF Stage, Holding

(* TypeOK with the count of runs not bounded yet, and what a call in       *)
(* flight refers to.                                                       *)
DoorsType ==
  /\ asks \in [Call -> Verb] /\ path \in Paths /\ disk \in Rows
  /\ proc \in [Daemon -> Process] /\ call \in [Call -> Door]
  /\ reruns \in [Call -> Nat]
  /\ \A c \in Call : /\ call[c].at \in InFlight => call[c].to \in Daemon
                     /\ call[c].at = "claimed" => call[c].row \in Call

ProcTyped == proc \in [Daemon -> Process]

(* No daemon starts between another's last unlink and its exit.            *)
Apart == ~Straddles

(* Whoever has the lock file open has the one its path leads to; one       *)
(* daemon at most holds it; and a daemon that listens has the socket.      *)
LockInv ==
  /\ \A d \in Daemon :
       proc[d].stage \in Holding \cup {"opened"} =>
         proc[d].lock = path.lock /\ path.lock # NoDaemon
  /\ \A d, e \in Daemon :
       proc[d].stage \in Holding /\ proc[e].stage \in Holding => d = e
  /\ \A d \in Daemon :
       /\ proc[d].listening => proc[d].stage = "serving" /\ path.socket = d
       /\ proc[d].ticking => proc[d].stage \in Holding

-----------------------------------------------------------------------------
(* Type correctness.                                                       *)

LEMMA UnbornTyped == Unborn \in Process
  BY DEF Unborn, Process, Rows, NoRows, RowState

LEMMA GoneTyped == \A cut \in BOOLEAN : Gone(cut) \in Process
  BY UnbornTyped DEF Gone, Process

LEMMA DoorsTypeInit == Init => DoorsType
  BY UnbornTyped, DoorsOK
  DEF Init, DoorsType, Paths, Rows, NoRows, RowState, Door, Unasked, At, Answer,
      InFlight

(* One process changes.                                                    *)
LEMMA OneBecomes ==
  ASSUME DoorsType, NEW d \in Daemon, NEW p \in Process, Becomes(d, p)
  PROVE  /\ proc' \in [Daemon -> Process] /\ proc'[d] = p
         /\ \A e \in Daemon : e # d => proc'[e] = proc[e]
  BY DEF DoorsType, Becomes

(* One call moves.                                                         *)
LEMMA OneMoves ==
  ASSUME DoorsType, NEW c \in Call, NEW x \in Door, Moves(c, x),
         x.at \in InFlight => x.to \in Daemon,
         x.at = "claimed" => x.row \in Call
  PROVE  /\ call' \in [Call -> Door] /\ call'[c] = x
         /\ \A b \in Call : b # c => call'[b] = call[b]
         /\ \A b \in Call : /\ call'[b].at \in InFlight => call'[b].to \in Daemon
                            /\ call'[b].at = "claimed" => call'[b].row \in Call
  BY DEF DoorsType, Moves

CallTyped == /\ call \in [Call -> Door]
             /\ \A c \in Call :
                  /\ call[c].at \in InFlight => call[c].to \in Daemon
                  /\ call[c].at = "claimed" => call[c].row \in Call

LEMMA SayTyped ==
  ASSUME DoorsType, NEW c \in Call, call[c].at \in InFlight,
         NEW said \in Answer, Say(c, said)
  PROVE  /\ CallTyped' /\ call'[c].at = "answering" /\ call'[c].said = said
         /\ call'[c].to = call[c].to
         /\ \A b \in Call : b # c => call'[b] = call[b]
  <1> DEFINE x == [call[c] EXCEPT !.at = "answering", !.said = said, !.row = NoCall]
  <1>1. /\ x \in Door /\ x.at = "answering" /\ x.said = said
        /\ x.to = call[c].to /\ call[c].to \in Daemon
    <2>1. call[c] \in Door /\ call[c].to \in Daemon
      BY DEF DoorsType
    <2> QED BY <2>1 DEF Door, At, Answer
  <1>2. Moves(c, x)
    BY DEF Say
  <1> QED BY <1>1, <1>2, OneMoves DEF CallTyped

LEMMA DropTyped ==
  ASSUME DoorsType, NEW d \in Daemon, NEW lost, call' = Drop(d, lost)
  PROVE  /\ CallTyped'
         /\ \A c \in Call :
              \/ call'[c] = call[c] /\ ~(call[c].to = d /\ call[c].at \in lost)
              \/ /\ call'[c].at = "ended" /\ call'[c].said = "lost"
                 /\ call[c].to = d /\ call[c].at \in lost
  <1>1. \A x \in Door : [x EXCEPT !.at = "ended", !.said = "lost"] \in Door
    BY DEF Door, At, Answer
  <1>2. \A c \in Call :
          /\ call'[c] = IF call[c].to = d /\ call[c].at \in lost
                        THEN [call[c] EXCEPT !.at = "ended", !.said = "lost"]
                        ELSE call[c]
          /\ call[c] \in Door
    BY DEF DoorsType, Drop
  <1>3. call' \in [Call -> Door]
    BY <1>1, <1>2 DEF Drop
  <1>4. \A c \in Call :
          \/ call'[c] = call[c] /\ ~(call[c].to = d /\ call[c].at \in lost)
          \/ /\ call'[c].at = "ended" /\ call'[c].said = "lost"
             /\ call[c].to = d /\ call[c].at \in lost
    BY <1>2 DEF Door
  <1> QED BY <1>3, <1>4 DEF DoorsType, CallTyped, InFlight

(* What a step makes of process d, in the fields the invariants are about.  *)
Is(q, s, f, l, t, a, r) ==
  q.stage = s /\ q.lock = f /\ q.listening = l /\ q.ticking = t
  /\ q.adopted = a /\ q.rows = r
OnlyMoves(d) == ProcTyped' /\ \A e \in Daemon : e # d => proc'[e] = proc[e]
Makes(d, s, f, l, t, a, r) == OnlyMoves(d) /\ Is(proc'[d], s, f, l, t, a, r)

LEMMA MakesOf ==
  ASSUME DoorsType, NEW d \in Daemon, NEW q \in Process, Becomes(d, q),
         NEW s, NEW f, NEW l, NEW t, NEW a, NEW r,
         Is(q, s, f, l, t, a, r)
  PROVE  Makes(d, s, f, l, t, a, r)
  BY OneBecomes DEF Makes, Is, OnlyMoves, ProcTyped

LEMMA GoneIs ==
  \A cut \in BOOLEAN : /\ Gone(cut) \in Process
                       /\ Is(Gone(cut), "gone", NoDaemon, FALSE, FALSE, FALSE,
                          NoRows)
  BY GoneTyped DEF Gone, Unborn, Is

LEMMA DaemonMakes ==
  ASSUME DoorsType, NEW d \in Daemon
  PROVE LET p == proc[d] IN
    /\ Opens(d) => Makes(d, "opened", Opened(d), p.listening, p.ticking, p.adopted, p.rows)
    /\ TickAdopts(d) => Makes(d, p.stage, p.lock, p.listening, p.ticking, TRUE, disk)
    /\ Locks(d) => Makes(d, "locked", p.lock, p.listening, p.ticking, p.adopted, p.rows)
    /\ Refused(d) => Makes(d, "gone", NoDaemon, FALSE, FALSE, FALSE, NoRows)
    /\ Adopts(d) => Makes(d, "serving", p.lock, TRUE, TRUE, TRUE, disk)
    /\ AdoptFails(d) => Makes(d, "serving", p.lock, TRUE, TRUE, p.adopted, p.rows)
    /\ Closes(d) => Makes(d, p.stage, p.lock, FALSE, p.ticking, p.adopted, p.rows)
    /\ TickEnds(d) => Makes(d, p.stage, p.lock, p.listening, FALSE, p.adopted, p.rows)
    /\ AcceptFails(d) => Makes(d, AfterAccept(d), p.lock, p.listening, p.ticking, p.adopted, p.rows)
    /\ StopAnswered(d) => Makes(d, "draining", p.lock, p.listening, p.ticking, p.adopted, p.rows)
    /\ Drains(d) => Makes(d, "leaving", p.lock, p.listening, p.ticking, p.adopted, p.rows)
    /\ Leaves(d) => Makes(d, "gone", NoDaemon, FALSE, FALSE, FALSE, NoRows)
    /\ Signal(d) => Makes(d, p.stage, p.lock, p.listening, p.ticking, p.adopted, p.rows)
    /\ Crash(d) => Makes(d, "gone", NoDaemon, FALSE, FALSE, FALSE, NoRows)
  <1> DEFINE p == proc[d]
  <1>0. p \in Process /\ disk \in Rows /\ path \in Paths /\ p.cut \in BOOLEAN
    BY DEF DoorsType, Process
  <1>1. Opens(d) => Makes(d, "opened", Opened(d), p.listening, p.ticking, p.adopted, p.rows)
    <2> DEFINE q == [proc[d] EXCEPT !.stage = "opened", !.lock = Opened(d)]
    <2>1. q \in Process /\ Is(q, "opened", Opened(d), p.listening, p.ticking, p.adopted, p.rows)
      BY <1>0 DEF Process, Is, Opened, Paths
    <2> QED BY <2>1, MakesOf DEF Opens
  <1>2. TickAdopts(d) => Makes(d, p.stage, p.lock, p.listening, p.ticking, TRUE, disk)
    <2> DEFINE q == Load(d)
    <2>1. q \in Process /\ Is(q, p.stage, p.lock, p.listening, p.ticking, TRUE, disk)
      BY <1>0 DEF Process, Is, Load
    <2> QED BY <2>1, MakesOf DEF TickAdopts
  <1>3. Locks(d) => Makes(d, "locked", p.lock, p.listening, p.ticking, p.adopted, p.rows)
    <2> DEFINE q == [proc[d] EXCEPT !.stage = "locked"]
    <2>1. q \in Process /\ Is(q, "locked", p.lock, p.listening, p.ticking, p.adopted, p.rows)
      BY <1>0 DEF Process, Is
    <2> QED BY <2>1, MakesOf DEF Locks
  <1>4. Refused(d) => Makes(d, "gone", NoDaemon, FALSE, FALSE, FALSE, NoRows)
    BY <1>0, GoneIs, MakesOf DEF Refused
  <1>5. Adopts(d) => Makes(d, "serving", p.lock, TRUE, TRUE, TRUE, disk)
    <2> DEFINE q == Serve(Load(d))
    <2>1. q \in Process /\ Is(q, "serving", p.lock, TRUE, TRUE, TRUE, disk)
      BY <1>0 DEF Process, Is, Load, Serve
    <2> QED BY <2>1, MakesOf DEF Adopts
  <1>6. AdoptFails(d) => Makes(d, "serving", p.lock, TRUE, TRUE, p.adopted, p.rows)
    <2> DEFINE q == Serve(proc[d])
    <2>1. q \in Process /\ Is(q, "serving", p.lock, TRUE, TRUE, p.adopted, p.rows)
      BY <1>0 DEF Process, Is, Serve
    <2> QED BY <2>1, MakesOf DEF AdoptFails
  <1>7. Closes(d) => Makes(d, p.stage, p.lock, FALSE, p.ticking, p.adopted, p.rows)
    <2> DEFINE q == [proc[d] EXCEPT !.cancelled = TRUE, !.listening = FALSE]
    <2>1. q \in Process /\ Is(q, p.stage, p.lock, FALSE, p.ticking, p.adopted, p.rows)
      BY <1>0 DEF Process, Is
    <2> QED BY <2>1, MakesOf DEF Closes
  <1>8. TickEnds(d) => Makes(d, p.stage, p.lock, p.listening, FALSE, p.adopted, p.rows)
    <2> DEFINE q == [proc[d] EXCEPT !.ticking = FALSE]
    <2>1. q \in Process /\ Is(q, p.stage, p.lock, p.listening, FALSE, p.adopted, p.rows)
      BY <1>0 DEF Process, Is
    <2> QED BY <2>1, MakesOf DEF TickEnds
  <1>9. AcceptFails(d) => Makes(d, AfterAccept(d), p.lock, p.listening, p.ticking, p.adopted, p.rows)
    <2> DEFINE q == [proc[d] EXCEPT !.stage = AfterAccept(d)]
    <2>1. q \in Process /\ Is(q, AfterAccept(d), p.lock, p.listening, p.ticking, p.adopted, p.rows)
      BY <1>0 DEF Process, Is, AfterAccept
    <2> QED BY <2>1, MakesOf DEF AcceptFails
  <1>10. StopAnswered(d) => Makes(d, "draining", p.lock, p.listening, p.ticking, p.adopted, p.rows)
    <2> DEFINE q == [proc[d] EXCEPT !.stage = "draining"]
    <2>1. q \in Process /\ Is(q, "draining", p.lock, p.listening, p.ticking, p.adopted, p.rows)
      BY <1>0 DEF Process, Is
    <2> QED BY <2>1, MakesOf DEF StopAnswered
  <1>11. Drains(d) => Makes(d, "leaving", p.lock, p.listening, p.ticking, p.adopted, p.rows)
    <2> DEFINE q == [proc[d] EXCEPT !.stage = "leaving"]
    <2>1. q \in Process /\ Is(q, "leaving", p.lock, p.listening, p.ticking, p.adopted, p.rows)
      BY <1>0 DEF Process, Is
    <2> QED BY <2>1, MakesOf DEF Drains
  <1>12. Leaves(d) => Makes(d, "gone", NoDaemon, FALSE, FALSE, FALSE, NoRows)
    BY <1>0, GoneIs, MakesOf DEF Leaves
  <1>13. Signal(d) => Makes(d, p.stage, p.lock, p.listening, p.ticking, p.adopted, p.rows)
    <2> DEFINE q == [proc[d] EXCEPT !.cancelled = TRUE, !.cut = TRUE]
    <2>1. q \in Process /\ Is(q, p.stage, p.lock, p.listening, p.ticking, p.adopted, p.rows)
      BY <1>0 DEF Process, Is
    <2> QED BY <2>1, MakesOf DEF Signal
  <1>14. Crash(d) => Makes(d, "gone", NoDaemon, FALSE, FALSE, FALSE, NoRows)
    BY <1>0, GoneIs, MakesOf DEF Crash
  <1> QED BY <1>1, <1>2, <1>3, <1>4, <1>5, <1>6, <1>7, <1>8, <1>9, <1>10, <1>11, <1>12, <1>13, <1>14

(* What the steps of a call make of the daemon it goes to: nothing the     *)
(* invariants are about, but for the rows.                                 *)
Writes(d, rows) ==
  LET p == proc[d] IN
  Makes(d, p.stage, p.lock, p.listening, p.ticking, p.adopted, rows)
Steady(d) == Writes(d, proc[d].rows)

LEMMA KeepsWrites ==
  ASSUME DoorsType, NEW d \in Daemon, NEW rows \in Rows, Keeps(d, rows)
  PROVE  Writes(d, rows)
  <1> DEFINE p == proc[d]  q == [proc[d] EXCEPT !.rows = rows]
  <1>1. p \in Process
    BY DEF DoorsType
  <1>2. q \in Process /\ Is(q, p.stage, p.lock, p.listening, p.ticking, p.adopted, rows)
    BY <1>1 DEF Process, Is
  <1> QED BY <1>2, MakesOf DEF Keeps, Writes

LEMMA FlagsSteady ==
  ASSUME DoorsType, NEW d \in Daemon
  PROVE  /\ Becomes(d, [proc[d] EXCEPT !.halted = TRUE]) => Steady(d)
         /\ Becomes(d, [proc[d] EXCEPT !.answered = TRUE]) => Steady(d)
         /\ UNCHANGED proc => Steady(d)
  <1> DEFINE p == proc[d]
  <1>1. p \in Process
    BY DEF DoorsType
  <1>2. Becomes(d, [proc[d] EXCEPT !.halted = TRUE]) => Steady(d)
    <2> DEFINE q == [proc[d] EXCEPT !.halted = TRUE]
    <2>1. q \in Process /\ Is(q, p.stage, p.lock, p.listening, p.ticking, p.adopted, p.rows)
      BY <1>1 DEF Process, Is
    <2> QED BY <2>1, MakesOf DEF Steady, Writes
  <1>3. Becomes(d, [proc[d] EXCEPT !.answered = TRUE]) => Steady(d)
    <2> DEFINE q == [proc[d] EXCEPT !.answered = TRUE]
    <2>1. q \in Process /\ Is(q, p.stage, p.lock, p.listening, p.ticking, p.adopted, p.rows)
      BY <1>1 DEF Process, Is
    <2> QED BY <2>1, MakesOf DEF Steady, Writes
  <1>4. UNCHANGED proc => Steady(d)
    BY DEF Steady, Writes, Makes, OnlyMoves, Is, ProcTyped, DoorsType
  <1> QED BY <1>2, <1>3, <1>4

LEMMA HandleMakes ==
  ASSUME DoorsType, NEW c \in Call, call[c].at \in InFlight
  PROVE  LET d == call[c].to  rows == proc[d].rows IN
         /\ Denies(c) \/ Dispatches(c) \/ DispatchFails(c) => Steady(d)
         /\ Stops(c) \/ Reruns(c) \/ Answers(c) => Steady(d)
         /\ Park(c) => IF proc[d].adopted
                       THEN Writes(d, [rows EXCEPT ![c] = "parked"])
                       ELSE Steady(d)
         /\ \A r \in Call :
              /\ Rejects(c, r) => Writes(d, Claimed(d, r, "refused"))
              /\ Claims(c, r) => Writes(d, Claimed(d, r, "resolved"))
              /\ ClaimFails(c, r) => Steady(d)
         /\ RerunFails(c) => Writes(d, [rows EXCEPT ![call[c].row] = "failed"])
  <1> DEFINE d == call[c].to  rows == proc[d].rows
  <1>1. d \in Daemon /\ rows \in Rows
    BY DEF DoorsType, Process
  <1>2. \A r \in Call, s \in RowState : [rows EXCEPT ![r] = s] \in Rows
    BY <1>1 DEF Rows
  <1>3. Denies(c) \/ Dispatches(c) \/ DispatchFails(c) => Steady(d)
    BY <1>1, FlagsSteady DEF Denies, Dispatches, DispatchFails
  <1>4. Stops(c) \/ Reruns(c) \/ Answers(c) => Steady(d)
    BY <1>1, FlagsSteady DEF Stops, Reruns, Answers
  <1>5. Park(c) => IF proc[d].adopted THEN Writes(d, [rows EXCEPT ![c] = "parked"])
                                      ELSE Steady(d)
    BY <1>1, <1>2, FlagsSteady, KeepsWrites DEF Park, RowState
  <1>6. ASSUME NEW r \in Call
        PROVE  /\ Rejects(c, r) => Writes(d, Claimed(d, r, "refused"))
               /\ Claims(c, r) => Writes(d, Claimed(d, r, "resolved"))
               /\ ClaimFails(c, r) => Steady(d)
    BY <1>1, <1>2, FlagsSteady, KeepsWrites
    DEF Rejects, Claims, ClaimFails, Claimed, RowState
  <1>7. RerunFails(c) => Writes(d, [rows EXCEPT ![call[c].row] = "failed"])
    <2>1. RerunFails(c) => call[c].row \in Call
      BY DEF DoorsType, RerunFails
    <2> QED BY <1>1, <1>2, <2>1, KeepsWrites DEF RerunFails, RowState
  <1> QED BY <1>3, <1>4, <1>5, <1>6, <1>7

OneCall(c) == CallTyped' /\ \A b \in Call : b # c => call'[b] = call[b]

(* What the client's steps and those of the goroutine make of call c.      *)
LEMMA ClientMakes ==
  ASSUME DoorsType, NEW c \in Call
  PROVE  LET x == call[c]  y == call'[c] IN
         /\ Dials(c) \/ Autostarts(c) \/ Accepts(c) =>
              OneCall(c) /\ y.at \in {"waiting", "connected", "accepted"}
                         /\ y.said = x.said
         /\ NotStarted(c) \/ GivesUp(c) =>
              OneCall(c) /\ y.at = "ended" /\ y.said = "absent"
  <1> DEFINE x == call[c]
  <1>1. x \in Door /\ (x.at \in InFlight => x.to \in Daemon)
    BY DEF DoorsType
  <1>2. ASSUME NEW d \in Daemon, Moves(c, [x EXCEPT !.at = "connected", !.to = d])
        PROVE  OneCall(c) /\ call'[c].at = "connected" /\ call'[c].said = x.said
    <2> DEFINE y == [x EXCEPT !.at = "connected", !.to = d]
    <2>1. y \in Door /\ y.at = "connected" /\ y.to = d /\ y.said = x.said
      BY <1>1 DEF Door, At
    <2> QED BY <1>2, <2>1, OneMoves DEF CallTyped, OneCall
  <1>3. ASSUME Moves(c, [x EXCEPT !.at = "ended", !.said = "absent"])
        PROVE  OneCall(c) /\ call'[c].at = "ended" /\ call'[c].said = "absent"
    <2> DEFINE y == [x EXCEPT !.at = "ended", !.said = "absent"]
    <2>1. y \in Door /\ y.at = "ended" /\ y.said = "absent"
      BY <1>1 DEF Door, At, Answer
    <2> QED BY <1>3, <2>1, OneMoves DEF CallTyped, InFlight, OneCall
  <1>4. ASSUME NEW at \in {"waiting", "accepted"}, Moves(c, [x EXCEPT !.at = at]),
               at = "accepted" => x.at \in InFlight
        PROVE  OneCall(c) /\ call'[c].at = at /\ call'[c].said = x.said
    <2> DEFINE y == [x EXCEPT !.at = at]
    <2>1. y \in Door /\ y.at = at /\ y.said = x.said /\ y.to = x.to
      BY <1>1 DEF Door, At
    <2> QED BY <1>1, <1>4, <2>1, OneMoves DEF CallTyped, InFlight, OneCall
  <1> QED BY <1>2, <1>3, <1>4
      DEF Dials, NotStarted, Autostarts, GivesUp, Accepts, InFlight

Says(c, said) == /\ call[c].at \in {"accepted", "claimed"}
                 /\ OneCall(c) /\ call'[c].at = "answering"
                 /\ call'[c].to = call[c].to /\ call'[c].said = said

LEMMA HandleSays ==
  ASSUME DoorsType, NEW c \in Call
  PROVE  /\ Denies(c) \/ DispatchFails(c) \/ RerunFails(c) => Says(c, "error")
         /\ Dispatches(c) \/ Stops(c) \/ Reruns(c) => Says(c, "ok")
         /\ Park(c) => \/ proc[call[c].to].adopted /\ Says(c, "parked")
                       \/ ~proc[call[c].to].adopted /\ Says(c, "error")
         /\ \A r \in Call : /\ Rejects(c, r) => Says(c, "ok")
                            /\ ClaimFails(c, r) => Says(c, "error")
  BY SayTyped
  DEF Says, OneCall, InFlight, Answer, Denies, DispatchFails, RerunFails, Dispatches,
      Stops, Reruns, Park, Rejects, ClaimFails, GateSays

LEMMA HandleMoves ==
  ASSUME DoorsType, NEW c \in Call
  PROVE  LET x == call[c]  y == call'[c] IN
         /\ Answers(c) => OneCall(c) /\ y.at = "ended" /\ y.to = x.to /\ y.said = x.said
         /\ \A r \in Call :
              Claims(c, r) => OneCall(c) /\ y.at = "claimed" /\ y.row = r
                              /\ y.to = x.to /\ y.said = x.said
  <1> DEFINE x == call[c]
  <1>1. x \in Door /\ (x.at \in InFlight => x.to \in Daemon)
    BY DEF DoorsType
  <1>2. ASSUME Answers(c)
        PROVE  OneCall(c) /\ call'[c].at = "ended" /\ call'[c].to = x.to
               /\ call'[c].said = x.said
    <2> DEFINE y == [x EXCEPT !.at = "ended"]
    <2>1. y \in Door /\ y.at = "ended" /\ y.to = x.to /\ y.said = x.said
      BY <1>1 DEF Door, At
    <2> QED BY <1>2, <2>1, OneMoves DEF Answers, CallTyped, InFlight, OneCall
  <1>3. ASSUME NEW r \in Call, Claims(c, r)
        PROVE  OneCall(c) /\ call'[c].at = "claimed" /\ call'[c].row = r
               /\ call'[c].to = x.to /\ call'[c].said = x.said
    <2> DEFINE y == [x EXCEPT !.at = "claimed", !.row = r]
    <2>1. y \in Door /\ y.at = "claimed" /\ y.row = r /\ y.to = x.to /\ y.said = x.said
      BY <1>1 DEF Door, At
    <2> QED BY <1>1, <1>3, <2>1, OneMoves DEF Claims, CallTyped, InFlight, OneCall
  <1> QED BY <1>2, <1>3

DaemonSteps(d) ==
  \/ Opens(d) \/ TickAdopts(d) \/ Locks(d) \/ Refused(d) \/ Adopts(d)
  \/ AdoptFails(d) \/ Closes(d) \/ TickEnds(d) \/ AcceptFails(d)
  \/ StopAnswered(d) \/ Drains(d) \/ Leaves(d) \/ Signal(d) \/ Crash(d)
ClientSteps(c) ==
  Dials(c) \/ NotStarted(c) \/ Autostarts(c) \/ GivesUp(c) \/ Accepts(c)
HandleSteps(c) ==
  \/ Denies(c) \/ Park(c) \/ Dispatches(c) \/ DispatchFails(c) \/ Stops(c)
  \/ (\E r \in Call : Rejects(c, r) \/ Claims(c, r) \/ ClaimFails(c, r))
  \/ Reruns(c) \/ RerunFails(c) \/ Answers(c)

LEMMA Stepwise ==
  ASSUME [Next]_vars
  PROVE  /\ UNCHANGED asks
         /\ \/ \E d \in Daemon : DaemonSteps(d)
            \/ \E c \in Call : ClientSteps(c) \/ HandleSteps(c)
            \/ UNCHANGED vars
  BY DEF Next, Start, Up, Down, Ended, Client, Handle, Resolve, vars, DaemonSteps,
         ClientSteps, HandleSteps

(* A handler's step is one of a call in flight, and leaves the paths.      *)
LEMMA HandleInFlight ==
  ASSUME NEW c \in Call, HandleSteps(c)
  PROVE  call[c].at \in InFlight /\ UNCHANGED path
  BY DEF HandleSteps, Denies, Park, Dispatches, DispatchFails, Stops, Rejects,
         Claims, ClaimFails, Reruns, RerunFails, Answers, GateSays, InFlight

(* Of its daemon it changes at most the rows.                              *)
LEMMA HandleWrites ==
  ASSUME DoorsType, NEW c \in Call, HandleSteps(c)
  PROVE  \E rows : Writes(call[c].to, rows)
  BY HandleInFlight, HandleMakes DEF HandleSteps, Steady

LEMMA SaveTyped ==
  ASSUME DoorsType, NEW d \in Daemon
  PROVE  /\ Save(d, proc[d].rows) \in Rows
         /\ \A r \in Call, s \in RowState :
              Save(d, [proc[d].rows EXCEPT ![r] = s]) \in Rows
  <1>1. proc[d].rows \in Rows /\ disk \in Rows
    BY DEF DoorsType, Process
  <1>2. \A r \in Call, s \in RowState : [proc[d].rows EXCEPT ![r] = s] \in Rows
    BY <1>1 DEF Rows
  <1> QED BY <1>1, <1>2 DEF Save

LEMMA DoorsTypeStep ==
  ASSUME DoorsType, [Next]_vars PROVE DoorsType'
  <1> SUFFICES /\ ProcTyped' /\ CallTyped' /\ path' \in Paths /\ disk' \in Rows
               /\ reruns' \in [Call -> Nat]
    BY Stepwise DEF DoorsType, ProcTyped, CallTyped
  <1>1. ASSUME NEW d \in Daemon, DaemonSteps(d)
        PROVE  /\ ProcTyped' /\ CallTyped' /\ path' \in Paths
               /\ UNCHANGED <<disk, reruns>>
    <2>1. ProcTyped'
      BY <1>1, DaemonMakes DEF DaemonSteps, Makes, OnlyMoves
    <2>2. CallTyped'
      <3>1. CallTyped
        BY DEF DoorsType, CallTyped
      <3>2. UNCHANGED call => CallTyped'
        BY <3>1 DEF CallTyped
      <3>3. UNCHANGED call \/ \E lost : call' = Drop(d, lost)
        BY <1>1
        DEF DaemonSteps, Opens, TickAdopts, Locks, Refused, Adopts, AdoptFails, Closes,
            TickEnds, AcceptFails, StopAnswered, Drains, Leaves, Signal, Crash
      <3> QED BY <3>2, <3>3, DropTyped
    <2>3. path' \in Paths
      BY <1>1
      DEF DoorsType, DaemonSteps, Opens, TickAdopts, Locks, Refused, Adopts, AdoptFails,
          Closes, TickEnds, AcceptFails, StopAnswered, Drains, Leaves, Signal, Crash,
          Paths, Opened, Removed
    <2>4. UNCHANGED <<disk, reruns>>
      BY <1>1
      DEF DaemonSteps, Opens, TickAdopts, Locks, Refused, Adopts, AdoptFails, Closes,
          TickEnds, AcceptFails, StopAnswered, Drains, Leaves, Signal, Crash
    <2> QED BY <2>1, <2>2, <2>3, <2>4
  <1>2. ASSUME NEW c \in Call, ClientSteps(c)
        PROVE  CallTyped' /\ UNCHANGED <<proc, path, disk, reruns>>
    BY <1>2, ClientMakes
    DEF ClientSteps, OneCall, Dials, NotStarted, Autostarts, GivesUp, Accepts
  <1>3. ASSUME NEW c \in Call, HandleSteps(c)
        PROVE  /\ ProcTyped' /\ CallTyped' /\ UNCHANGED path /\ disk' \in Rows
               /\ reruns' \in [Call -> Nat]
    <2>1. ProcTyped' /\ UNCHANGED path
      BY <1>3, HandleWrites, HandleInFlight DEF Writes, Makes, OnlyMoves
    <2>2. CallTyped'
      BY <1>3, HandleSays, HandleMoves DEF HandleSteps, Says, OneCall
    <2>3. disk' \in Rows
      <3>1. call[c].to \in Daemon /\ (call[c].at = "claimed" => call[c].row \in Call)
        BY <1>3, HandleInFlight DEF DoorsType
      <3>2. disk \in Rows
        BY DEF DoorsType
      <3>3. /\ \A r \in Call, s \in RowState :
                 Keeps(call[c].to, [proc[call[c].to].rows EXCEPT ![r] = s]) => disk' \in Rows
            /\ disk' = Save(call[c].to, proc[call[c].to].rows) => disk' \in Rows
        BY <3>1, SaveTyped DEF Keeps
      <3>4. Park(c) => disk' \in Rows
        BY <3>1, <3>2, <3>3 DEF Park, RowState
      <3>5. Dispatches(c) \/ Reruns(c) => disk' \in Rows
        BY <3>1, <3>2, <3>3 DEF Dispatches, Reruns
      <3>6. \A r \in Call : Rejects(c, r) \/ Claims(c, r) => disk' \in Rows
        BY <3>1, <3>3 DEF Rejects, Claims, Claimed, RowState
      <3>7. RerunFails(c) => disk' \in Rows
        BY <3>1, <3>3 DEF RerunFails, RowState
      <3>8. /\ Denies(c) \/ DispatchFails(c) \/ Stops(c) \/ Answers(c) => disk' = disk
            /\ \A r \in Call : ClaimFails(c, r) => disk' = disk
        BY DEF Denies, DispatchFails, Stops, Answers, ClaimFails
      <3> QED BY <1>3, <3>2, <3>4, <3>5, <3>6, <3>7, <3>8 DEF HandleSteps
    <2>4. reruns' \in [Call -> Nat]
      <3>1. Reruns(c) \/ RerunFails(c) => reruns' \in [Call -> Nat]
        BY DEF Reruns, RerunFails, DoorsType
      <3>2. \/ Denies(c) \/ Park(c) \/ Dispatches(c) \/ DispatchFails(c) \/ Stops(c)
            \/ (\E r \in Call : Rejects(c, r) \/ Claims(c, r) \/ ClaimFails(c, r))
            \/ Answers(c)
            => reruns' = reruns
        BY DEF Denies, Park, Dispatches, DispatchFails, Stops, Rejects, Claims,
               ClaimFails, Answers
      <3> QED BY <1>3, <3>1, <3>2 DEF HandleSteps, DoorsType
    <2> QED BY <2>1, <2>2, <2>3, <2>4
  <1>4. CASE UNCHANGED vars
    BY <1>4 DEF vars, DoorsType, ProcTyped, CallTyped
  <1> QED BY <1>1, <1>2, <1>3, <1>4, Stepwise DEF DoorsType, ProcTyped, CallTyped

-----------------------------------------------------------------------------
(* One daemon.                                                             *)

LEMMA LockInit == Init => LockInv
  BY DEF Init, LockInv, Unborn

(* What a step of one process must see to.                                 *)
LEMMA LockKept ==
  ASSUME DoorsType, LockInv, NEW d \in Daemon, NEW s, NEW f, NEW l, NEW t, NEW a, NEW r,
         Makes(d, s, f, l, t, a, r),
         s \in Holding \cup {"opened"} => f = path'.lock /\ f # NoDaemon,
         \/ path'.lock = path.lock
         \/ \A e \in Daemon : proc[e].stage \in Holding \cup {"opened"} => e = d,
         s \in Holding => \A e \in Daemon : proc[e].stage \in Holding => e = d,
         l => s = "serving" /\ path'.socket = d,
         \/ path'.socket = path.socket
         \/ \A e \in Daemon : proc[e].listening => e = d,
         t => s \in Holding
  PROVE  LockInv'
  <1>1. /\ proc'[d].stage = s /\ proc'[d].lock = f /\ proc'[d].listening = l
        /\ proc'[d].ticking = t /\ \A e \in Daemon : e # d => proc'[e] = proc[e]
    BY DEF Makes, OnlyMoves, Is
  <1>2. \A e \in Daemon : proc'[e].stage \in Holding \cup {"opened"} =>
                            proc'[e].lock = path'.lock /\ path'.lock # NoDaemon
    BY <1>1 DEF LockInv
  <1>3. \A e, g \in Daemon :
          proc'[e].stage \in Holding /\ proc'[g].stage \in Holding => e = g
    BY <1>1 DEF LockInv
  <1>4. \A e \in Daemon :
          /\ proc'[e].listening => proc'[e].stage = "serving" /\ path'.socket = e
          /\ proc'[e].ticking => proc'[e].stage \in Holding
    BY <1>1 DEF LockInv
  <1> QED BY <1>2, <1>3, <1>4 DEF LockInv

LEMMA LockStep ==
  ASSUME Apart, DoorsType, LockInv, [Next]_vars PROVE LockInv'
  <1>1. ASSUME NEW d \in Daemon, DaemonSteps(d) PROVE LockInv'
    <2> DEFINE p == proc[d]
    <2>0. path \in Paths
      BY DEF DoorsType
    <2>1. /\ p.stage \in Holding \cup {"opened"} => p.lock = path.lock /\ path.lock # NoDaemon
          /\ p.stage \in Holding => \A e \in Daemon : proc[e].stage \in Holding => e = d
          /\ p.listening => p.stage = "serving" /\ path.socket = d
          /\ p.ticking => p.stage \in Holding
          /\ p.stage \in Holding => \A e \in Daemon : proc[e].listening => e = d
      BY DEF LockInv
    <2>2. CASE Opens(d)
      <3>1. Makes(d, "opened", Opened(d), p.listening, p.ticking, p.adopted, p.rows)
        BY <2>2, DaemonMakes
      <3>2. p.stage = "off" /\ path'.lock = Opened(d) /\ path'.socket = path.socket
        BY <2>0, <2>2 DEF Opens, Paths, Opened
      <3>3. /\ Opened(d) # NoDaemon
            /\ \/ path'.lock = path.lock
               \/ \A e \in Daemon : proc[e].stage \in Holding \cup {"opened"} => e = d
        BY <2>1, <3>2, DoorsOK DEF LockInv, Opened
      <3> QED BY <2>1, <3>1, <3>2, <3>3, LockKept
    <2>3. CASE TickAdopts(d)
      <3>1. Makes(d, p.stage, p.lock, p.listening, p.ticking, TRUE, disk)
        BY <2>3, DaemonMakes
      <3>2. path'.lock = path.lock /\ path'.socket = path.socket /\ p.stage \in Holding
        BY <2>1, <2>3 DEF TickAdopts
      <3> QED BY <2>1, <3>1, <3>2, LockKept
    <2>4. CASE Locks(d)
      <3>1. Makes(d, "locked", p.lock, p.listening, p.ticking, p.adopted, p.rows)
        BY <2>4, DaemonMakes
      <3>2. p.stage = "opened" /\ UNCHANGED path
        BY <2>0, <2>4 DEF Locks, Paths
      <3>3. \A e \in Daemon : proc[e].stage \notin Holding
        BY <2>1, <2>4 DEF Locks, Locked, LockInv
      <3> QED BY <2>1, <3>1, <3>2, <3>3, LockKept
    <2>5. CASE Refused(d)
      <3>1. Makes(d, "gone", NoDaemon, FALSE, FALSE, FALSE, NoRows)
        BY <2>5, DaemonMakes
      <3>2. UNCHANGED path
        BY <2>0, <2>5 DEF Refused, Paths
      <3> QED BY <2>1, <3>1, <3>2, LockKept
    <2>6. CASE Adopts(d)
      <3>1. Makes(d, "serving", p.lock, TRUE, TRUE, TRUE, disk)
        BY <2>6, DaemonMakes
      <3>2. p.stage = "locked" /\ path'.lock = path.lock /\ path'.socket = d
        BY <2>0, <2>6 DEF Adopts, Paths
      <3> QED BY <2>1, <3>1, <3>2, LockKept
    <2>7. CASE AdoptFails(d)
      <3>1. Makes(d, "serving", p.lock, TRUE, TRUE, p.adopted, p.rows)
        BY <2>7, DaemonMakes
      <3>2. p.stage = "locked" /\ path'.lock = path.lock /\ path'.socket = d
        BY <2>0, <2>7 DEF AdoptFails, Paths
      <3> QED BY <2>1, <3>1, <3>2, LockKept
    <2>8. CASE Closes(d)
      <3>1. Makes(d, p.stage, p.lock, FALSE, p.ticking, p.adopted, p.rows)
        BY <2>8, DaemonMakes
      <3>2. p.listening /\ path'.lock = path.lock
        BY <2>0, <2>8 DEF Closes, Paths
      <3> QED BY <2>1, <3>1, <3>2, LockKept
    <2>9. CASE TickEnds(d)
      <3>1. Makes(d, p.stage, p.lock, p.listening, FALSE, p.adopted, p.rows)
        BY <2>9, DaemonMakes
      <3>2. path'.lock = path.lock /\ path'.socket = path.socket /\ p.stage \in Holding
        BY <2>1, <2>9 DEF TickEnds
      <3>3. /\ p.stage \in Holding \cup {"opened"} => p.lock = path'.lock /\ p.lock # NoDaemon
            /\ p.listening => p.stage = "serving" /\ path'.socket = d
        BY <2>1, <3>2
      <3> QED BY <2>1, <3>1, <3>2, <3>3, LockKept
    <2>10. CASE AcceptFails(d)
      <3>1. Makes(d, AfterAccept(d), p.lock, p.listening, p.ticking, p.adopted, p.rows)
        BY <2>10, DaemonMakes
      <3>2. p.stage = "serving" /\ ~p.listening /\ UNCHANGED path
        BY <2>0, <2>10 DEF AcceptFails, Paths, AfterAccept
      <3>3. AfterAccept(d) \in Holding
        BY DEF AfterAccept
      <3> QED BY <2>1, <3>1, <3>2, <3>3, LockKept
    <2>11. CASE StopAnswered(d)
      <3>1. Makes(d, "draining", p.lock, p.listening, p.ticking, p.adopted, p.rows)
        BY <2>11, DaemonMakes
      <3>2. p.stage = "answering" /\ UNCHANGED path
        BY <2>0, <2>11 DEF StopAnswered, Paths
      <3> QED BY <2>1, <3>1, <3>2, LockKept
    <2>12. CASE Drains(d)
      <3>1. Makes(d, "leaving", p.lock, p.listening, p.ticking, p.adopted, p.rows)
        BY <2>12, DaemonMakes
      <3>2. p.stage = "draining" /\ path'.lock = path.lock
        BY <2>0, <2>12 DEF Drains, Paths, Removed
      <3> QED BY <2>1, <3>1, <3>2, LockKept
    <2>13. CASE Leaves(d)
      <3>1. Makes(d, "gone", NoDaemon, FALSE, FALSE, FALSE, NoRows)
        BY <2>13, DaemonMakes
      <3>2. p.stage = "leaving" /\ path'.socket = path.socket
        BY <2>0, <2>13 DEF Leaves, Paths, Removed
      <3>3. \A e \in Daemon : proc[e].stage \in Holding \cup {"opened"} => e = d
        BY <2>1, <2>13, <3>2 DEF Leaves, Apart
      <3> QED BY <2>1, <3>1, <3>2, <3>3, LockKept
    <2>14. CASE Signal(d)
      <3>1. Makes(d, p.stage, p.lock, p.listening, p.ticking, p.adopted, p.rows)
        BY <2>14, DaemonMakes
      <3>2. UNCHANGED path
        BY <2>0, <2>14 DEF Signal, Paths
      <3> QED BY <2>1, <3>1, <3>2, LockKept
    <2>15. CASE Crash(d)
      <3>1. Makes(d, "gone", NoDaemon, FALSE, FALSE, FALSE, NoRows)
        BY <2>15, DaemonMakes
      <3>2. UNCHANGED path
        BY <2>0, <2>15 DEF Crash, Paths
      <3> QED BY <2>1, <3>1, <3>2, LockKept
    <2> QED BY <1>1, <2>2, <2>3, <2>4, <2>5, <2>6, <2>7, <2>8, <2>9, <2>10, <2>11, <2>12, <2>13, <2>14, <2>15 DEF DaemonSteps
  <1>2. ASSUME NEW c \in Call, ClientSteps(c) PROVE LockInv'
    <2>1. UNCHANGED <<proc, path>>
      BY <1>2 DEF ClientSteps, Dials, NotStarted, Autostarts, GivesUp, Accepts
    <2> QED BY <2>1 DEF LockInv
  <1>3. ASSUME NEW c \in Call, HandleSteps(c) PROVE LockInv'
    BY <1>3, HandleWrites, HandleInFlight
    DEF LockInv, Writes, Makes, OnlyMoves, Is, DoorsType
  <1>4. CASE UNCHANGED vars
    BY <1>4 DEF vars, LockInv
  <1> QED BY <1>1, <1>2, <1>3, <1>4, Stepwise

Inv == DoorsType /\ LockInv

LEMMA InvAlways ==
  ASSUME Apart PROVE Spec => []Inv
  <1>1. Init => Inv
    BY DoorsTypeInit, LockInit DEF Inv
  <1>2. Inv /\ [Next]_vars => Inv'
    BY DoorsTypeStep, LockStep DEF Inv
  <1> QED BY <1>1, <1>2, PTL DEF Spec

(* "One daemon per user" (serve.go:52): two daemons never drive the board  *)
(* at once, over any starts, stops, signals and crashes, as long as no     *)
(* start falls between another's last unlink and its exit.                 *)
THEOREM OneAtATime ==
  ASSUME Apart PROVE Spec => []OneDaemon
  <1>1. Inv => OneDaemon
    BY DEF Inv, LockInv, OneDaemon, Drives
  <1> QED BY <1>1, InvAlways, PTL

(* Under the same assumption no teardown, stale file or late unlink takes  *)
(* the socket's path from a daemon that listens.                           *)
THEOREM SocketAlwaysLeads ==
  ASSUME Apart PROVE Spec => []SocketLeads
  <1>1. Inv => SocketLeads
    BY DEF Inv, LockInv, SocketLeads
  <1> QED BY <1>1, InvAlways, PTL

-----------------------------------------------------------------------------
(* Parked calls.                                                           *)

(* A daemon's memory is the document, or empty.                            *)
MemoryInv ==
  \A d \in Daemon :
    /\ proc[d].adopted => proc[d].stage \in Holding /\ proc[d].rows = disk
    /\ ~proc[d].adopted => proc[d].rows = NoRows

(* A call the gate has not seen yet has no row.                            *)
Before == {"asking", "waiting", "connected", "accepted"}

(* A claimed row is one call's, and has not been run; a row that has been  *)
(* run was run once, and can be claimed no more.                           *)
RowsInv ==
  /\ \A c \in Call :
       /\ call[c].at = "claimed" => /\ proc[call[c].to].adopted
                                    /\ disk[call[c].row] = "resolved"
                                    /\ reruns[call[c].row] = 0
                                    /\ call[c].said = "none"
       /\ call[c].at \in Before => disk[c] = "none" /\ call[c].said = "none"
       /\ call[c].said = "parked" => disk[c] # "none"
  /\ \A b, c \in Call : call[b].at = "claimed" /\ call[c].at = "claimed"
                        /\ call[b].row = call[c].row => b = c
  /\ \A r \in Call : \/ reruns[r] = 0
                     \/ reruns[r] = 1 /\ disk[r] \in {"resolved", "failed"}

ParkedInv == Inv /\ MemoryInv /\ RowsInv

LEMMA ParkedInit == Init => MemoryInv /\ RowsInv
  BY DEF Init, MemoryInv, RowsInv, Unborn, Unasked, Before, NoRows

(* What a daemon's own steps do to memory, and which calls they end.       *)
LEMMA DaemonRows ==
  ASSUME ParkedInv, NEW d \in Daemon, DaemonSteps(d)
  PROVE  /\ UNCHANGED <<disk, reruns>> /\ MemoryInv'
         /\ \/ UNCHANGED call \/ \E lost : call' = Drop(d, lost)
         /\ \/ proc'[d].adopted \/ ~proc[d].adopted
            \/ call' = Drop(d, InFlight)
         /\ \A e \in Daemon : e # d => proc'[e] = proc[e]
  <1> DEFINE p == proc[d]
  <1>0. DoorsType /\ LockInv /\ MemoryInv
    BY DEF ParkedInv, Inv
  <1>1. UNCHANGED <<disk, reruns>>
    BY DEF DaemonSteps, Opens, TickAdopts, Locks, Refused, Adopts, AdoptFails, Closes,
           TickEnds, AcceptFails, StopAnswered, Drains, Leaves, Signal, Crash
  <1>2. \/ UNCHANGED call \/ \E lost : call' = Drop(d, lost)
    BY DEF DaemonSteps, Opens, TickAdopts, Locks, Refused, Adopts, AdoptFails, Closes,
           TickEnds, AcceptFails, StopAnswered, Drains, Leaves, Signal, Crash
  <1>3. \A e \in Daemon : e # d => proc'[e] = proc[e]
    BY <1>0, DaemonMakes DEF DaemonSteps, Makes, OnlyMoves
  <1>4. CASE \/ Locks(d) \/ AdoptFails(d) \/ Closes(d) \/ TickEnds(d) \/ AcceptFails(d)
             \/ StopAnswered(d) \/ Drains(d) \/ Signal(d) \/ Opens(d)
    <2>1. proc'[d].adopted = p.adopted /\ proc'[d].rows = p.rows
      BY <1>0, <1>4, DaemonMakes DEF Makes, Is
    <2>2. p.adopted => proc'[d].stage \in Holding
      BY <1>0, <1>4, DaemonMakes
      DEF Makes, Is, MemoryInv, Opens, AfterAccept
    <2> QED BY <1>0, <1>1, <1>2, <1>3, <2>1, <2>2 DEF MemoryInv
  <1>5. CASE TickAdopts(d) \/ Adopts(d)
    <2>1. proc'[d].adopted = TRUE /\ proc'[d].rows = disk
      BY <1>0, <1>5, DaemonMakes DEF Makes, Is
    <2>2. proc'[d].stage \in Holding
      BY <1>0, <1>5, DaemonMakes DEF Makes, Is, TickAdopts, LockInv
    <2> QED BY <1>0, <1>1, <1>2, <1>3, <2>1, <2>2 DEF MemoryInv
  <1>6. CASE Refused(d) \/ Leaves(d) \/ Crash(d)
    <2>1. proc'[d].adopted = FALSE /\ proc'[d].rows = NoRows
      BY <1>0, <1>6, DaemonMakes DEF Makes, Is
    <2>2. ~p.adopted \/ call' = Drop(d, InFlight)
      BY <1>0, <1>6 DEF Refused, Leaves, Crash, MemoryInv
    <2> QED BY <1>0, <1>1, <1>2, <1>3, <2>1, <2>2 DEF MemoryInv
  <1> QED BY <1>4, <1>5, <1>6 DEF DaemonSteps

LEMMA DaemonKeepsRows ==
  ASSUME ParkedInv, NEW d \in Daemon, DaemonSteps(d) PROVE RowsInv'
  <1>0. DoorsType /\ RowsInv
    BY DEF ParkedInv, Inv
  <1>1. /\ UNCHANGED <<disk, reruns>>
        /\ \A e \in Daemon : e # d => proc'[e] = proc[e]
        /\ \/ proc'[d].adopted \/ ~proc[d].adopted \/ call' = Drop(d, InFlight)
    BY DaemonRows
  <1>2. \A c \in Call : \/ call'[c] = call[c]
                        \/ call'[c].at = "ended" /\ call'[c].said = "lost"
    BY <1>0, DaemonRows, DropTyped
  <1>3. \A c \in Call : call'[c].at = "claimed" => proc'[call'[c].to].adopted
    <2> SUFFICES ASSUME NEW c \in Call, call'[c].at = "claimed"
                 PROVE  proc'[call'[c].to].adopted
      OBVIOUS
    <2>1. call'[c] = call[c] /\ proc[call[c].to].adopted /\ call[c].to \in Daemon
      BY <1>0, <1>2 DEF RowsInv, DoorsType, InFlight
    <2>2. CASE call[c].to = d
      <3>1. call' # Drop(d, InFlight)
        BY <1>0, <2>1, <2>2, DropTyped DEF InFlight
      <3> QED BY <1>1, <2>1, <2>2, <3>1
    <2> QED BY <1>1, <2>1, <2>2
  <1> QED BY <1>0, <1>1, <1>2, <1>3 DEF RowsInv, Before

(* The daemon of a call writes its memory and the document alike.          *)
LEMMA MemoryKept ==
  ASSUME Inv, MemoryInv, NEW d \in Daemon, NEW rows, Writes(d, rows),
         IF proc[d].adopted THEN disk' = rows ELSE rows = NoRows /\ disk' = disk
  PROVE  MemoryInv' /\ \A e \in Daemon : proc'[e].adopted = proc[e].adopted
  <1>1. /\ proc'[d].stage = proc[d].stage /\ proc'[d].adopted = proc[d].adopted
        /\ proc'[d].rows = rows
        /\ \A e \in Daemon : e # d => proc'[e] = proc[e]
    BY DEF Writes, Makes, OnlyMoves, Is
  <1>2. \A e \in Daemon : proc[d].adopted /\ proc[e].adopted => e = d
    BY DEF Inv, LockInv, MemoryInv
  <1> QED BY <1>1, <1>2 DEF MemoryInv

(* Steps that answer a call and leave the rows.                            *)
LEMMA QuietKeepsRows ==
  ASSUME ParkedInv, NEW c \in Call,
         \/ Denies(c) \/ Dispatches(c) \/ DispatchFails(c) \/ Stops(c) \/ Answers(c)
         \/ \E r \in Call : ClaimFails(c, r)
         \/ Park(c) /\ ~proc[call[c].to].adopted
  PROVE  MemoryInv' /\ RowsInv'
  <1> DEFINE d == call[c].to
  <1>0. DoorsType /\ Inv /\ MemoryInv /\ RowsInv
    BY DEF ParkedInv, Inv
  <1>1. call[c].at \in InFlight /\ d \in Daemon
    <2>1. HandleSteps(c)
      BY DEF HandleSteps
    <2> QED BY <1>0, <2>1, HandleInFlight DEF DoorsType
  <1>2. Writes(d, proc[d].rows)
    BY <1>0, <1>1, HandleMakes DEF Steady
  <1>3. UNCHANGED <<disk, reruns>>
    BY <1>0, <1>1
    DEF MemoryInv, Save, Denies, Dispatches, DispatchFails, Stops, Answers, ClaimFails,
        Park
  <1>4. MemoryInv' /\ \A e \in Daemon : proc'[e].adopted = proc[e].adopted
    <2>1. IF proc[d].adopted THEN disk' = proc[d].rows
                             ELSE proc[d].rows = NoRows /\ disk' = disk
      BY <1>0, <1>1, <1>3 DEF MemoryInv
    <2> QED BY <1>0, <1>1, <1>2, <2>1, MemoryKept
  <1>5. /\ \A b \in Call : b # c => call'[b] = call[b]
        /\ call'[c].at \in {"answering", "ended"}
        /\ call'[c].said \in {"ok", "error", call[c].said}
    BY <1>0, HandleSays, HandleMoves DEF Says, OneCall
  <1>6. \A b \in Call : call[b].at = "claimed" => call[b].to \in Daemon
    BY <1>0 DEF DoorsType, InFlight
  <1> QED BY <1>0, <1>3, <1>4, <1>5, <1>6 DEF RowsInv, Before

LEMMA ParkKeepsRows ==
  ASSUME ParkedInv, NEW c \in Call, Park(c), proc[call[c].to].adopted
  PROVE  MemoryInv' /\ RowsInv'
  <1> DEFINE d == call[c].to  rows == [proc[d].rows EXCEPT ![c] = "parked"]
  <1>0. DoorsType /\ Inv /\ MemoryInv /\ RowsInv
    BY DEF ParkedInv, Inv
  <1>1. call[c].at = "accepted" /\ d \in Daemon
    BY <1>0 DEF Park, GateSays, DoorsType, InFlight
  <1>2. Writes(d, rows)
    BY <1>0, <1>1, HandleMakes DEF InFlight
  <1>3. disk' = rows /\ UNCHANGED reruns
    BY DEF Park, Keeps, Save
  <1>4. MemoryInv' /\ \A e \in Daemon : proc'[e].adopted = proc[e].adopted
    BY <1>0, <1>1, <1>2, <1>3, MemoryKept
  <1>5. disk'[c] = "parked" /\ \A r \in Call : r # c => disk'[r] = disk[r]
    BY <1>0, <1>1, <1>3 DEF MemoryInv, DoorsType, Rows
  <1>6. /\ \A b \in Call : b # c => call'[b] = call[b]
        /\ call'[c].at = "answering" /\ call'[c].said = "parked"
    BY <1>0, HandleSays DEF Says, OneCall
  <1>7. \A b \in Call : call[b].at = "claimed" =>
          call[b].to \in Daemon /\ call[b].row \in Call
    BY <1>0 DEF DoorsType, InFlight
  <1>8. disk[c] = "none"
    BY <1>0, <1>1 DEF RowsInv, Before
  <1> QED BY <1>0, <1>3, <1>4, <1>5, <1>6, <1>7, <1>8 DEF RowsInv, Before

LEMMA ClaimKeepsRows ==
  ASSUME ParkedInv, NEW c \in Call, NEW r \in Call, Rejects(c, r) \/ Claims(c, r)
  PROVE  MemoryInv' /\ RowsInv'
  <1> DEFINE d == call[c].to  to == IF Claims(c, r) THEN "resolved" ELSE "refused"
             rows == [proc[d].rows EXCEPT ![r] = to]
  <1>0. DoorsType /\ Inv /\ MemoryInv /\ RowsInv
    BY DEF ParkedInv, Inv
  <1>1. call[c].at = "accepted" /\ d \in Daemon /\ proc[d].rows[r] = "parked"
    BY <1>0 DEF Rejects, Claims, DoorsType, InFlight, Waiting
  <1>2. proc[d].adopted /\ disk[r] = "parked" /\ proc[d].rows = disk
    BY <1>0, <1>1 DEF MemoryInv, NoRows
  <1>3. Writes(d, rows)
    BY <1>0, <1>1, HandleMakes DEF InFlight, Claimed
  <1>4. disk' = rows /\ UNCHANGED reruns
    BY <1>2 DEF Rejects, Claims, Keeps, Save, Claimed
  <1>5. MemoryInv' /\ \A e \in Daemon : proc'[e].adopted = proc[e].adopted
    BY <1>0, <1>1, <1>2, <1>3, <1>4, MemoryKept
  <1>6. disk'[r] = to /\ \A s \in Call : s # r => disk'[s] = disk[s]
    BY <1>0, <1>2, <1>4 DEF DoorsType, Rows
  <1>7. \A b \in Call : b # c => call'[b] = call[b]
    BY <1>0, HandleSays, HandleMoves DEF Says, OneCall
  <1>8. \/ to = "resolved" /\ call'[c].at = "claimed" /\ call'[c].row = r
           /\ call'[c].to = d /\ call'[c].said = call[c].said
        \/ to = "refused" /\ call'[c].at = "answering" /\ call'[c].said = "ok"
    BY <1>0, HandleSays, HandleMoves DEF Says
  <1>9. \A b \in Call : call[b].at = "claimed" =>
          call[b].to \in Daemon /\ call[b].row \in Call /\ call[b].row # r
    BY <1>0, <1>2 DEF DoorsType, InFlight, RowsInv
  <1>10. reruns[r] = 0 /\ call[c].said = "none"
    BY <1>0, <1>1, <1>2 DEF RowsInv, Before
  <1>11. \A b \in Call : call[b].at \in Before => disk'[b] = "none"
    BY <1>0, <1>2, <1>6 DEF RowsInv
  <1>12. \A b \in Call : call[b].said = "parked" => disk'[b] # "none"
    BY <1>0, <1>2, <1>6 DEF RowsInv
  <1>13. \A b \in Call : call'[b].at = "claimed" =>
           /\ proc'[call'[b].to].adopted /\ disk'[call'[b].row] = "resolved"
           /\ reruns'[call'[b].row] = 0 /\ call'[b].said = "none"
    BY <1>0, <1>1, <1>2, <1>4, <1>5, <1>6, <1>7, <1>8, <1>9, <1>10 DEF RowsInv
  <1>14. \A b, e \in Call : call'[b].at = "claimed" /\ call'[e].at = "claimed"
                            /\ call'[b].row = call'[e].row => b = e
    BY <1>0, <1>7, <1>8, <1>9 DEF RowsInv
  <1>15. \A s \in Call : \/ reruns'[s] = 0
                         \/ reruns'[s] = 1 /\ disk'[s] \in {"resolved", "failed"}
    BY <1>0, <1>4, <1>6, <1>10 DEF RowsInv
  <1>16. \A b \in Call :
           /\ call'[b].at \in Before => disk'[b] = "none" /\ call'[b].said = "none"
           /\ call'[b].said = "parked" => disk'[b] # "none"
    BY <1>0, <1>7, <1>8, <1>10, <1>11, <1>12 DEF RowsInv, Before
  <1> QED BY <1>5, <1>13, <1>14, <1>15, <1>16 DEF RowsInv

LEMMA RunKeepsRows ==
  ASSUME ParkedInv, NEW c \in Call, Reruns(c) \/ RerunFails(c)
  PROVE  MemoryInv' /\ RowsInv'
  <1> DEFINE d == call[c].to  r == call[c].row
             rows == IF RerunFails(c) THEN [proc[d].rows EXCEPT ![r] = "failed"]
                                      ELSE proc[d].rows
  <1>0. DoorsType /\ Inv /\ MemoryInv /\ RowsInv
    BY DEF ParkedInv, Inv
  <1>1. call[c].at = "claimed" /\ d \in Daemon /\ r \in Call
    BY <1>0 DEF Reruns, RerunFails, DoorsType, InFlight
  <1>2. proc[d].adopted /\ disk[r] = "resolved" /\ reruns[r] = 0 /\ proc[d].rows = disk
    BY <1>0, <1>1 DEF MemoryInv, RowsInv
  <1>3. \/ RerunFails(c) /\ disk' = [disk EXCEPT ![r] = "failed"]
           /\ Writes(d, [proc[d].rows EXCEPT ![r] = "failed"])
        \/ Reruns(c) /\ disk' = disk /\ Writes(d, proc[d].rows)
    BY <1>0, <1>1, <1>2, HandleMakes
    DEF Reruns, RerunFails, Keeps, Save, InFlight, Steady
  <1>4. MemoryInv' /\ \A e \in Daemon : proc'[e].adopted = proc[e].adopted
    BY <1>0, <1>1, <1>2, <1>3, MemoryKept
  <1>5. /\ disk'[r] \in {"resolved", "failed"}
        /\ \A s \in Call : s # r => disk'[s] = disk[s]
    BY <1>0, <1>1, <1>2, <1>3 DEF DoorsType, Rows
  <1>6. reruns'[r] = 1 /\ \A s \in Call : s # r => reruns'[s] = reruns[s]
    BY <1>0, <1>1, <1>2 DEF Reruns, RerunFails, DoorsType
  <1>7. /\ \A b \in Call : b # c => call'[b] = call[b]
        /\ call'[c].at = "answering" /\ call'[c].said \in {"ok", "error"}
    BY <1>0, HandleSays DEF Says, OneCall
  <1>8. \A b \in Call : b # c /\ call[b].at = "claimed" =>
          call[b].to \in Daemon /\ call[b].row \in Call /\ call[b].row # r
    BY <1>0, <1>1 DEF DoorsType, InFlight, RowsInv
  <1>9. \A b \in Call : call'[b].at = "claimed" =>
           /\ proc'[call'[b].to].adopted /\ disk'[call'[b].row] = "resolved"
           /\ reruns'[call'[b].row] = 0 /\ call'[b].said = "none"
    BY <1>0, <1>4, <1>5, <1>6, <1>7, <1>8 DEF RowsInv
  <1>10. \A b, e \in Call : call'[b].at = "claimed" /\ call'[e].at = "claimed"
                            /\ call'[b].row = call'[e].row => b = e
    BY <1>0, <1>7 DEF RowsInv
  <1>11. \A s \in Call : \/ reruns'[s] = 0
                         \/ reruns'[s] = 1 /\ disk'[s] \in {"resolved", "failed"}
    BY <1>0, <1>5, <1>6 DEF RowsInv
  <1>12. \A b \in Call :
           /\ call'[b].at \in Before => disk'[b] = "none" /\ call'[b].said = "none"
           /\ call'[b].said = "parked" => disk'[b] # "none"
    BY <1>0, <1>1, <1>2, <1>5, <1>7 DEF RowsInv, Before
  <1> QED BY <1>4, <1>9, <1>10, <1>11, <1>12 DEF RowsInv

LEMMA ParkedStep ==
  ASSUME ParkedInv, [Next]_vars PROVE MemoryInv' /\ RowsInv'
  <1>0. DoorsType /\ MemoryInv /\ RowsInv
    BY DEF ParkedInv, Inv
  <1>1. ASSUME NEW d \in Daemon, DaemonSteps(d) PROVE MemoryInv' /\ RowsInv'
    BY <1>1, DaemonRows, DaemonKeepsRows
  <1>2. ASSUME NEW c \in Call, ClientSteps(c) PROVE MemoryInv' /\ RowsInv'
    <2>1. UNCHANGED <<proc, disk, reruns>>
      BY <1>2 DEF ClientSteps, Dials, NotStarted, Autostarts, GivesUp, Accepts
    <2>2. call[c].at \in Before
      BY <1>2 DEF ClientSteps, Dials, NotStarted, Autostarts, GivesUp, Accepts, Before
    <2>3. /\ \A b \in Call : b # c => call'[b] = call[b]
          /\ \/ call'[c].at \in Before /\ call'[c].said = call[c].said
             \/ call'[c].at = "ended" /\ call'[c].said = "absent"
      BY <1>0, <1>2, ClientMakes DEF ClientSteps, OneCall, Before
    <2> QED BY <1>0, <2>1, <2>2, <2>3 DEF MemoryInv, RowsInv, Before
  <1>3. ASSUME NEW c \in Call, HandleSteps(c) PROVE MemoryInv' /\ RowsInv'
    BY <1>3, QuietKeepsRows, ParkKeepsRows, ClaimKeepsRows, RunKeepsRows
    DEF HandleSteps
  <1>4. CASE UNCHANGED vars
    BY <1>0, <1>4 DEF vars, MemoryInv, RowsInv
  <1> QED BY <1>1, <1>2, <1>3, <1>4, Stepwise

LEMMA ParkedAlways ==
  ASSUME Apart PROVE Spec => []ParkedInv
  <1>1. Init => ParkedInv
    BY DoorsTypeInit, LockInit, ParkedInit DEF ParkedInv, Inv
  <1>2. ParkedInv /\ [Next]_vars => ParkedInv'
    BY DoorsTypeStep, LockStep, ParkedStep DEF ParkedInv, Inv
  <1> QED BY <1>1, <1>2, PTL DEF Spec

(* Under the same assumption a parked call's verb runs at most once, and   *)
(* only after the decision to run it is in the document, whoever resolves  *)
(* it, how often, and over however many restarts.                          *)
THEOREM RunsOnce ==
  ASSUME Apart PROVE Spec => []OneRun
  <1>1. ParkedInv => OneRun
    BY DEF ParkedInv, RowsInv, OneRun
  <1> QED BY <1>1, ParkedAlways, PTL

(* Under the same assumption a call whose caller was told that it is       *)
(* parked keeps its row in the document, also through a daemon that could  *)
(* not reconcile and serves with an empty memory.                          *)
THEOREM ParkedAlwaysKept ==
  ASSUME Apart PROVE Spec => []ParkedIsKept
  <1>1. ParkedInv => ParkedIsKept
    BY DEF ParkedInv, RowsInv, ParkedIsKept
  <1> QED BY <1>1, ParkedAlways, PTL

(* The steps of a parked call's story: its row, its runs, and who was told. *)
LEMMA VerdictForgets ==
  ASSUME DoorsType, UNCHANGED <<disk, reruns>>,
         \A c \in Call : call'[c].said = "parked" => call[c].said = "parked"
  PROVE  V!Next
  <1> DEFINE told == {c \in Call : call[c].said = "parked"}
             S == told \ {c \in Call : call'[c].said = "parked"}
  <1>1. S \in SUBSET told
    OBVIOUS
  <1>2. told' = told \ S
    OBVIOUS
  <1> HIDE DEF S
  <1>3. \E gone \in SUBSET told : told' = told \ gone
    BY <1>1, <1>2
  <1> QED BY <1>3 DEF V!Next, V!Forget

LEMMA VerdictParks ==
  ASSUME ParkedInv, NEW c \in Call, Park(c), proc[call[c].to].adopted
  PROVE  V!Next
  <1> DEFINE d == call[c].to
  <1>0. DoorsType /\ MemoryInv /\ RowsInv
    BY DEF ParkedInv, Inv
  <1>1. call[c].at = "accepted" /\ d \in Daemon
    BY <1>0 DEF Park, GateSays, DoorsType, InFlight
  <1>2. disk[c] = "none" /\ proc[d].rows = disk
    BY <1>0, <1>1 DEF RowsInv, MemoryInv, Before
  <1>3. disk' = [disk EXCEPT ![c] = "parked"] /\ UNCHANGED reruns
    BY <1>2 DEF Park, Keeps, Save
  <1>4. (\A b \in Call : b # c => call'[b] = call[b]) /\ call'[c].said = "parked"
    BY <1>0, HandleSays DEF Says, OneCall
  <1>5. V!Park(c)
    BY <1>2, <1>3, <1>4 DEF V!Park
  <1> QED BY <1>5 DEF V!Next

LEMMA VerdictDecides ==
  ASSUME ParkedInv, NEW c \in Call, NEW r \in Call, Rejects(c, r) \/ Claims(c, r)
  PROVE  V!Next
  <1> DEFINE d == call[c].to  way == IF Claims(c, r) THEN "resolved" ELSE "refused"
  <1>0. DoorsType /\ MemoryInv /\ RowsInv
    BY DEF ParkedInv, Inv
  <1>1. call[c].at = "accepted" /\ d \in Daemon /\ proc[d].rows[r] = "parked"
    BY <1>0 DEF Rejects, Claims, DoorsType, InFlight, Waiting
  <1>2. proc[d].adopted /\ disk[r] = "parked" /\ proc[d].rows = disk
    BY <1>0, <1>1 DEF MemoryInv, NoRows
  <1>3. disk' = [disk EXCEPT ![r] = way] /\ UNCHANGED reruns
    BY <1>2 DEF Rejects, Claims, Keeps, Save, Claimed
  <1>4. /\ \A b \in Call : b # c => call'[b] = call[b]
        /\ call[c].said = "none" /\ call'[c].said # "parked"
    BY <1>0, <1>1, HandleSays, HandleMoves DEF Says, OneCall, RowsInv, Before
  <1>5. V!Decide(r, way)
    BY <1>2, <1>3, <1>4 DEF V!Decide
  <1> QED BY <1>5 DEF V!Next

LEMMA VerdictRuns ==
  ASSUME ParkedInv, NEW c \in Call, Reruns(c) \/ RerunFails(c)
  PROVE  V!Next
  <1> DEFINE d == call[c].to  r == call[c].row
             end == IF RerunFails(c) THEN "failed" ELSE "resolved"
  <1>0. DoorsType /\ MemoryInv /\ RowsInv
    BY DEF ParkedInv, Inv
  <1>1. call[c].at = "claimed" /\ d \in Daemon /\ r \in Call
    BY <1>0 DEF Reruns, RerunFails, DoorsType, InFlight
  <1>2. /\ proc[d].adopted /\ disk[r] = "resolved" /\ reruns[r] = 0
        /\ proc[d].rows = disk /\ call[c].said = "none"
    BY <1>0, <1>1 DEF MemoryInv, RowsInv
  <1>3. disk' = [disk EXCEPT ![r] = end]
    <2>1. disk = [disk EXCEPT ![r] = "resolved"]
      BY <1>0, <1>1, <1>2 DEF DoorsType, Rows
    <2>2. RerunFails(c) => disk' = [disk EXCEPT ![r] = "failed"]
      BY <1>2 DEF RerunFails, Keeps, Save
    <2>3. ~RerunFails(c) => disk' = disk
      BY <1>2 DEF Reruns, Save
    <2> QED BY <2>1, <2>2, <2>3
  <1>4. reruns' = [reruns EXCEPT ![r] = 1]
    BY <1>0, <1>1, <1>2 DEF Reruns, RerunFails, DoorsType
  <1>5. (\A b \in Call : b # c => call'[b] = call[b]) /\ call'[c].said # "parked"
    BY <1>0, HandleSays DEF Says, OneCall
  <1>6. V!Run(r, end)
    BY <1>2, <1>3, <1>4, <1>5 DEF V!Run
  <1> QED BY <1>1, <1>6 DEF V!Next

(* Under the same assumption the daemons and doors implement Verdict, step *)
(* by step: over racing resolvers, failed verbs, lost answers, crashes and *)
(* restarts, a parked call is decided once and run at most once, after the *)
(* decision is in the document, and whoever was told of it has its row     *)
(* (ClaimParked, FailParked, resolveParked, saveLocked).                   *)
THEOREM VerdictIsKept ==
  ASSUME Apart PROVE Spec => Decides
  <1>1. Init => V!Init
    <2>1. Init => {c \in Call : call[c].said = "parked"} = {}
      BY DEF Init, Unasked
    <2> QED BY <2>1 DEF Init, V!Init, NoRows
  <1>2. ParkedInv /\ [Next]_vars => [V!Next]_(V!verdictVars)
    <2> SUFFICES ASSUME ParkedInv, [Next]_vars PROVE [V!Next]_(V!verdictVars)
      OBVIOUS
    <2>0. DoorsType /\ RowsInv
      BY DEF ParkedInv, Inv
    <2>1. ASSUME NEW d \in Daemon, DaemonSteps(d) PROVE V!Next
      <3>1. \A c \in Call : call'[c] = call[c] \/ call'[c].said = "lost"
        BY <2>0, <2>1, DaemonRows, DropTyped
      <3> QED BY <2>0, <2>1, <3>1, DaemonRows, VerdictForgets
    <2>2. ASSUME NEW c \in Call, ClientSteps(c) PROVE V!Next
      <3>1. UNCHANGED <<disk, reruns>>
        BY <2>2 DEF ClientSteps, Dials, NotStarted, Autostarts, GivesUp, Accepts
      <3>2. /\ \A b \in Call : b # c => call'[b] = call[b]
            /\ call'[c].said \in {call[c].said, "absent"}
        BY <2>0, <2>2, ClientMakes DEF ClientSteps, OneCall
      <3> QED BY <2>0, <3>1, <3>2, VerdictForgets
    <2>3. ASSUME NEW c \in Call,
                 \/ Denies(c) \/ Dispatches(c) \/ DispatchFails(c) \/ Stops(c) \/ Answers(c)
                 \/ \E r \in Call : ClaimFails(c, r)
                 \/ Park(c) /\ ~proc[call[c].to].adopted
          PROVE  V!Next
      <3>1. call[c].at \in InFlight /\ call[c].to \in Daemon
        <4>1. HandleSteps(c)
          BY <2>3 DEF HandleSteps
        <4> QED BY <2>0, <4>1, HandleInFlight DEF DoorsType
      <3>2. UNCHANGED <<disk, reruns>>
        BY <2>3, <3>1
        DEF ParkedInv, MemoryInv, Save, Denies, Dispatches, DispatchFails, Stops, Answers,
            ClaimFails, Park
      <3>3. /\ \A b \in Call : b # c => call'[b] = call[b]
            /\ call'[c].said \in {"ok", "error", call[c].said}
        BY <2>0, <2>3, HandleSays, HandleMoves DEF Says, OneCall
      <3> QED BY <2>0, <3>2, <3>3, VerdictForgets
    <2>4. ASSUME NEW c \in Call, HandleSteps(c) PROVE V!Next
      BY <2>3, <2>4, VerdictParks, VerdictDecides, VerdictRuns DEF HandleSteps
    <2>5. CASE UNCHANGED vars
      BY <2>5 DEF vars, V!verdictVars
    <2> QED BY <2>1, <2>2, <2>4, <2>5, Stepwise
  <1> QED BY <1>1, <1>2, ParkedAlways, PTL DEF Spec, Decides, V!Spec

(* Every variable keeps its type; the count of a parked call's runs needs  *)
(* RunsOnce.                                                               *)
THEOREM DoorsTypeCorrect ==
  ASSUME Apart PROVE Spec => []TypeOK
  <1> DEFINE Asked == asks \in Scenarios
  <1>1. Init => Asked
    BY DEF Init
  <1>2. Asked /\ [Next]_vars => Asked'
    BY Stepwise
  <1>3. ParkedInv /\ Asked => TypeOK
    <2> SUFFICES ASSUME ParkedInv, Asked PROVE TypeOK
      OBVIOUS
    <2>1. \A r \in Call : reruns[r] \in 0..Cardinality(Call)
      <3>1. \A r \in Call : Cardinality(Call) \in Nat /\ Cardinality(Call) # 0
        BY FS_CardinalityType, FS_EmptySet, DoorsOK
      <3>2. \A r \in Call : reruns[r] \in {0, 1}
        BY DEF ParkedInv, RowsInv
      <3> QED BY <3>1, <3>2
    <2>2. DoorsType
      BY DEF ParkedInv, Inv
    <2>3. reruns \in [Call -> 0..Cardinality(Call)]
      <3>1. reruns \in [Call -> Nat]
        BY <2>2 DEF DoorsType
      <3> QED BY <2>1, <3>1
    <2>4. /\ asks \in Scenarios /\ proc \in [Daemon -> Process] /\ path \in Paths
          /\ disk \in Rows /\ call \in [Call -> Door]
      BY <2>2 DEF DoorsType
    <2> QED BY <2>3, <2>4, Zenon DEF TypeOK
  <1>4. Spec => []ParkedInv
    BY ParkedAlways
  <1> HIDE DEF Asked
  <1> QED BY <1>1, <1>2, <1>3, <1>4, PTL DEF Spec

-----------------------------------------------------------------------------
(* Stops and their answers.  No assumption on starts is needed here, but   *)
(* one on the gate: a stop it parks is run by the call that resolves it,   *)
(* and no answer to that one lets Serve go (see StopEnds in hungstop.cfg). *)

Undeferred == "defer" \notin Gate["stop"]

(* No stop is ever parked, so none is claimed.                             *)
UnparkedInv ==
  /\ \A r \in Call : asks[r] = "stop" =>
       disk[r] = "none" /\ \A d \in Daemon : proc[d].rows[r] = "none"
  /\ \A c \in Call : call[c].at = "claimed" => asks[call[c].row] # "stop"

(* A stop that daemon d let through, and has yet to answer or has answered.*)
Stopped(b, d) == /\ asks[b] = "stop" /\ call[b].to = d /\ call[b].said = "ok"
                 /\ call[b].at \in {"answering", "ended"}

(* A daemon goes down for a signal or for a stop it let through; after a   *)
(* stop it does not leave before one of them has its answer, and a stop    *)
(* whose connection it drops is dropped for that.                          *)
GoesDown(d) ==
  /\ proc[d].listening => proc[d].stage = "serving"
  /\ proc[d].cancelled => proc[d].cut \/ proc[d].halted
  /\ proc[d].stage = "serving" /\ ~proc[d].listening => proc[d].cancelled
  /\ proc[d].stage \in {"draining", "leaving"} => proc[d].cut \/ proc[d].answered
  /\ proc[d].stage \in {"off", "opened"} => ~proc[d].cut
  /\ proc[d].halted => \E b \in Call : Stopped(b, d)
  /\ proc[d].answered => \E b \in Call : Stopped(b, d) /\ call[b].at = "ended"

IsDropped(c) ==
  /\ call[c].at \in InFlight => proc[call[c].to].stage \in Holding \ {"locked"}
  /\ asks[c] = "stop" /\ call[c].said = "lost" =>
       /\ call[c].at = "ended" /\ call[c].to \in Daemon
       /\ proc[call[c].to].cut \/ \E b \in Call : Stopped(b, call[c].to)

StopInv == (\A d \in Daemon : GoesDown(d)) /\ (\A c \in Call : IsDropped(c))

(* What a step makes of the flags of process d.                            *)
Flags(q, cancelled, halted, answered, cut) ==
  q.cancelled = cancelled /\ q.halted = halted /\ q.answered = answered /\ q.cut = cut

OnTheWay(d) ==
  \/ Opens(d) \/ TickAdopts(d) \/ Locks(d) \/ Adopts(d) \/ AdoptFails(d)
  \/ TickEnds(d) \/ AcceptFails(d) \/ StopAnswered(d) \/ Drains(d)

LEMMA DaemonFlags ==
  ASSUME DoorsType, NEW d \in Daemon
  PROVE  LET p == proc[d]  q == proc'[d] IN
    /\ OnTheWay(d) => Flags(q, p.cancelled, p.halted, p.answered, p.cut)
    /\ Closes(d) => Flags(q, TRUE, p.halted, p.answered, p.cut)
    /\ Signal(d) => Flags(q, TRUE, p.halted, p.answered, TRUE)
    /\ Refused(d) => Flags(q, FALSE, FALSE, FALSE, FALSE)
    /\ Leaves(d) => Flags(q, FALSE, FALSE, FALSE, p.cut)
    /\ Crash(d) => Flags(q, FALSE, FALSE, FALSE, TRUE)
  <1> DEFINE p == proc[d]  q == proc'[d]
  <1>0. p \in Process
    BY DEF DoorsType
  <1>1. ASSUME NEW x, Becomes(d, x) PROVE q = x
    BY <1>1 DEF DoorsType, Becomes
  <1>2. Opens(d) \/ Locks(d) \/ TickEnds(d) \/ AcceptFails(d) \/ StopAnswered(d) \/ Drains(d)
        => Flags(q, p.cancelled, p.halted, p.answered, p.cut)
    BY <1>0, <1>1 DEF Opens, Locks, TickEnds, AcceptFails, StopAnswered, Drains, Flags, Process
  <1>3. TickAdopts(d) \/ Adopts(d) \/ AdoptFails(d)
        => Flags(q, p.cancelled, p.halted, p.answered, p.cut)
    BY <1>0, <1>1 DEF TickAdopts, Adopts, AdoptFails, Load, Serve, Flags, Process
  <1>4. /\ Closes(d) => Flags(q, TRUE, p.halted, p.answered, p.cut)
        /\ Signal(d) => Flags(q, TRUE, p.halted, p.answered, TRUE)
    BY <1>0, <1>1 DEF Closes, Signal, Flags, Process
  <1>5. /\ Refused(d) => Flags(q, FALSE, FALSE, FALSE, FALSE)
        /\ Leaves(d) => Flags(q, FALSE, FALSE, FALSE, p.cut)
        /\ Crash(d) => Flags(q, FALSE, FALSE, FALSE, TRUE)
    BY <1>1 DEF Refused, Leaves, Crash, Gone, Unborn, Flags
  <1> QED BY <1>2, <1>3, <1>4, <1>5 DEF OnTheWay

(* A dropped call keeps the daemon it went to.                             *)
LEMMA DropKeepsTo ==
  ASSUME DoorsType, NEW d, NEW lost, call' = Drop(d, lost)
  PROVE  \A c \in Call : call'[c].to = call[c].to
  <1>1. \A x \in Door : [x EXCEPT !.at = "ended", !.said = "lost"].to = x.to
    BY DEF Door
  <1>2. \A c \in Call : call[c] \in Door
    BY DEF DoorsType
  <1> QED BY <1>1, <1>2 DEF Drop

(* The flags a handler sets: a stop let through halts, and its answer,     *)
(* once written, is what Serve waits for.                                  *)
LEMMA HandleFlags ==
  ASSUME DoorsType, UnparkedInv, NEW c \in Call, HandleSteps(c)
  PROVE  LET p == proc[call[c].to]  q == proc'[call[c].to] IN
         /\ Stops(c) => Flags(q, p.cancelled, TRUE, p.answered, p.cut)
         /\ Answers(c) => Flags(q, p.cancelled, p.halted, p.answered \/ EndsStop(c), p.cut)
         /\ ~Stops(c) /\ ~Answers(c) => Flags(q, p.cancelled, p.halted, p.answered, p.cut)
  <1> DEFINE d == call[c].to  p == proc[d]  q == proc'[d]
  <1>0. d \in Daemon /\ p \in Process
    BY HandleInFlight DEF DoorsType
  <1>1. ASSUME NEW x, Becomes(d, x) PROVE q = x
    BY <1>0, <1>1 DEF DoorsType, Becomes
  <1>2. Stops(c) => Flags(q, p.cancelled, TRUE, p.answered, p.cut)
    BY <1>0, <1>1 DEF Stops, Flags, Process
  <1>3. Answers(c) => Flags(q, p.cancelled, p.halted, p.answered \/ EndsStop(c), p.cut)
    BY <1>0, <1>1 DEF Answers, Flags, Process
  <1>4. ASSUME NEW rows, Keeps(d, rows)
        PROVE  Flags(q, p.cancelled, p.halted, p.answered, p.cut)
    BY <1>0, <1>1, <1>4 DEF Keeps, Flags, Process
  <1>5. ASSUME UNCHANGED proc PROVE Flags(q, p.cancelled, p.halted, p.answered, p.cut)
    BY <1>0, <1>5 DEF Flags, Process
  <1>6. ASSUME \/ Denies(c) \/ Dispatches(c) \/ DispatchFails(c)
               \/ \E r \in Call : ClaimFails(c, r)
        PROVE  Flags(q, p.cancelled, p.halted, p.answered, p.cut)
    <2>1. UNCHANGED proc
      BY <1>6 DEF Denies, Dispatches, DispatchFails, ClaimFails
    <2> QED BY <1>5, <2>1
  <1>7. ASSUME Park(c) \/ RerunFails(c) \/ \E r \in Call : Rejects(c, r) \/ Claims(c, r)
        PROVE  Flags(q, p.cancelled, p.halted, p.answered, p.cut)
    <2>1. UNCHANGED proc \/ \E rows : Keeps(d, rows)
      BY <1>7 DEF Park, RerunFails, Rejects, Claims
    <2> QED BY <1>4, <1>5, <2>1
  <1>8. ASSUME Reruns(c)
        PROVE  Flags(q, p.cancelled, p.halted, p.answered, p.cut)
    <2>1. asks[call[c].row] # "stop"
      BY <1>8 DEF Reruns, UnparkedInv
    <2>2. UNCHANGED proc
      BY <1>8, <2>1 DEF Reruns
    <2> QED BY <1>5, <2>2
  <1> QED BY <1>2, <1>3, <1>6, <1>7, <1>8 DEF HandleSteps

(* A stop is never parked: the gate would have had to defer it.            *)
LEMMA UnparkedStep ==
  ASSUME Undeferred, DoorsType, UnparkedInv, [Next]_vars PROVE UnparkedInv'
  <1>0. UNCHANGED asks
    BY Stepwise
  <1>1. ASSUME NEW d \in Daemon, DaemonSteps(d) PROVE UnparkedInv'
    <2>1. /\ UNCHANGED disk /\ (UNCHANGED call \/ \E lost : call' = Drop(d, lost))
      BY <1>1 DEF DaemonSteps, Opens, TickAdopts, Locks, Refused, Adopts, AdoptFails, Closes,
             TickEnds, AcceptFails, StopAnswered, Drains, Leaves, Signal, Crash
    <2>2. /\ \A e \in Daemon : e # d => proc'[e] = proc[e]
          /\ proc'[d].rows \in {proc[d].rows, disk, NoRows}
      BY <1>1, DaemonMakes DEF DaemonSteps, Makes, OnlyMoves, Is
    <2>3. \A c \in Call : call'[c].at = "claimed" => call'[c] = call[c]
      BY <2>1, DropTyped
    <2> QED BY <1>0, <2>1, <2>2, <2>3 DEF UnparkedInv, NoRows
  <1>2. ASSUME NEW c \in Call, ClientSteps(c) PROVE UnparkedInv'
    <2>1. UNCHANGED <<proc, disk>>
      BY <1>2 DEF ClientSteps, Dials, NotStarted, Autostarts, GivesUp, Accepts
    <2>2. \A b \in Call : call'[b].at = "claimed" => call'[b] = call[b]
      BY <1>2, ClientMakes DEF ClientSteps, OneCall
    <2> QED BY <1>0, <2>1, <2>2 DEF UnparkedInv
  <1>3. ASSUME NEW c \in Call, HandleSteps(c) PROVE UnparkedInv'
    <2> DEFINE d == call[c].to
    <2>1. /\ call[c].at \in InFlight /\ d \in Daemon /\ disk \in Rows /\ proc[d].rows \in Rows
      BY <1>3, HandleInFlight DEF DoorsType, Process
    <2>2. ASSUME NEW rows, Writes(d, rows), disk' \in {disk, rows},
                 \A r \in Call : asks[r] = "stop" => rows[r] = "none"
          PROVE  \A r \in Call : asks[r] = "stop" =>
                   disk'[r] = "none" /\ \A e \in Daemon : proc'[e].rows[r] = "none"
      BY <2>1, <2>2 DEF Writes, Makes, OnlyMoves, Is, UnparkedInv
    <2>3. \A r \in Call : asks[r] = "stop" => proc[d].rows[r] = "none"
      BY <2>1 DEF UnparkedInv
    <2>4. CASE \/ Denies(c) \/ Dispatches(c) \/ DispatchFails(c) \/ Stops(c) \/ Reruns(c)
               \/ Answers(c) \/ \E r \in Call : ClaimFails(c, r)
      <3>1. Writes(d, proc[d].rows)
        BY <2>1, <2>4, HandleMakes DEF Steady
      <3>2. disk' \in {disk, proc[d].rows}
        BY <2>4 DEF Denies, Dispatches, DispatchFails, Stops, Reruns, Answers, ClaimFails, Save
      <3>3. \A b \in Call : call'[b].at = "claimed" => call'[b] = call[b]
        BY <2>4, HandleSays, HandleMoves DEF Says, OneCall
      <3> QED BY <1>0, <2>2, <2>3, <3>1, <3>2, <3>3 DEF UnparkedInv
    <2>5. CASE Park(c)
      <3>1. asks[c] # "stop"
        BY <2>5 DEF Park, GateSays, Undeferred
      <3>2. \A b \in Call : call'[b].at = "claimed" => call'[b] = call[b]
        BY <2>5, HandleSays DEF Says, OneCall
      <3>3. CASE proc[d].adopted
        <4> DEFINE rows == [proc[d].rows EXCEPT ![c] = "parked"]
        <4>1. Writes(d, rows) /\ disk' = rows
          BY <2>1, <2>5, <3>3, HandleMakes DEF Park, Keeps, Save
        <4>2. \A r \in Call : asks[r] = "stop" => rows[r] = "none"
          BY <2>1, <2>3, <3>1 DEF Rows
        <4> QED BY <1>0, <2>2, <3>2, <4>1, <4>2 DEF UnparkedInv
      <3>4. CASE ~proc[d].adopted
        <4>1. Writes(d, proc[d].rows) /\ disk' = disk
          BY <2>1, <2>5, <3>4, HandleMakes DEF Park, Steady
        <4> QED BY <1>0, <2>2, <2>3, <3>2, <4>1 DEF UnparkedInv
      <3> QED BY <3>3, <3>4
    <2>6. ASSUME NEW r \in Call, Rejects(c, r) \/ Claims(c, r) PROVE UnparkedInv'
      <3>1. asks[r] # "stop"
        BY <2>3, <2>6 DEF Rejects, Claims, Waiting
      <3>2. PICK to : /\ Writes(d, Claimed(d, r, to))
                      /\ disk' \in {disk, Claimed(d, r, to)}
        BY <2>1, <2>6, HandleMakes DEF Rejects, Claims, Keeps, Save
      <3>3. \A s \in Call : asks[s] = "stop" => Claimed(d, r, to)[s] = "none"
        BY <2>1, <2>3, <3>1 DEF Claimed, Rows
      <3>4. \A b \in Call : call'[b].at = "claimed" => call'[b] = call[b] \/ call'[b].row = r
        BY <2>6, HandleSays, HandleMoves DEF Says, OneCall
      <3> QED BY <1>0, <2>2, <3>1, <3>2, <3>3, <3>4 DEF UnparkedInv
    <2>7. CASE RerunFails(c)
      <3> DEFINE r == call[c].row  rows == [proc[d].rows EXCEPT ![r] = "failed"]
      <3>1. asks[r] # "stop" /\ r \in Call
        BY <2>7 DEF RerunFails, DoorsType
      <3>2. Writes(d, rows) /\ disk' \in {disk, rows}
        BY <2>1, <2>7, HandleMakes DEF RerunFails, Keeps, Save
      <3>3. \A s \in Call : asks[s] = "stop" => rows[s] = "none"
        BY <2>1, <2>3, <3>1 DEF Rows
      <3>4. \A b \in Call : call'[b].at = "claimed" => call'[b] = call[b]
        BY <2>7, HandleSays DEF Says, OneCall
      <3> QED BY <1>0, <2>2, <3>2, <3>3, <3>4 DEF UnparkedInv
    <2> QED BY <1>3, <2>4, <2>5, <2>6, <2>7 DEF HandleSteps
  <1>4. CASE UNCHANGED vars
    BY <1>4 DEF vars, UnparkedInv
  <1> QED BY <1>1, <1>2, <1>3, <1>4, Stepwise

(* A daemon's steps that drop no call and set no flag: it comes up, its    *)
(* tick ends, Serve goes on to leave.                                      *)
LEMMA StopOnTheWay ==
  ASSUME DoorsType, StopInv, NEW d \in Daemon, UNCHANGED asks, OnTheWay(d)
  PROVE  StopInv'
  <1> DEFINE p == proc[d]  q == proc'[d]
  <1>1. UNCHANGED call
    BY DEF OnTheWay, Opens, TickAdopts, Locks, Adopts, AdoptFails, TickEnds, AcceptFails,
           StopAnswered, Drains
  <1>2. Flags(q, p.cancelled, p.halted, p.answered, p.cut)
    BY DaemonFlags DEF Flags
  <1>3. \A e \in Daemon : e # d => proc'[e] = proc[e]
    BY DaemonMakes DEF OnTheWay, Makes, OnlyMoves
  <1>4. /\ q.listening => q.stage = "serving"
        /\ q.stage = "serving" /\ ~q.listening => p.cancelled
        /\ q.stage \in {"draining", "leaving"} => p.cut \/ p.answered
        /\ q.stage \in {"off", "opened"} => ~p.cut
        /\ p.stage \in Holding \ {"locked"} => q.stage \in Holding \ {"locked"}
    BY DaemonMakes
    DEF OnTheWay, StopInv, GoesDown, Makes, Is, Opens, TickAdopts, Locks, Adopts, AdoptFails,
        TickEnds, AcceptFails, StopAnswered, Drains, AfterAccept
  <1>5. \A b \in Call, e \in Daemon : Stopped(b, e)' <=> Stopped(b, e)
    BY <1>1 DEF Stopped
  <1>6. \A e \in Daemon : GoesDown(e)'
    BY <1>1, <1>2, <1>3, <1>4, <1>5 DEF StopInv, GoesDown, IsDropped, Flags
  <1>7. \A c \in Call : IsDropped(c)'
    BY <1>1, <1>2, <1>3, <1>4, <1>5 DEF StopInv, GoesDown, IsDropped, Flags, DoorsType
  <1> QED BY <1>6, <1>7 DEF StopInv

(* The daemon's ends: what it drops, and whose answer it owes the drop to. *)
LEMMA StopAtAnEnd ==
  ASSUME DoorsType, StopInv, NEW d \in Daemon, UNCHANGED asks,
         Closes(d) \/ Signal(d) \/ Refused(d) \/ Leaves(d) \/ Crash(d)
  PROVE  StopInv'
  <1> DEFINE p == proc[d]  q == proc'[d]
  <1>1. \A e \in Daemon : e # d => proc'[e] = proc[e]
    BY DaemonMakes DEF Makes, OnlyMoves
  <1>2. CASE Closes(d)
    <2>1. /\ q.stage = "serving" /\ ~q.listening /\ Flags(q, TRUE, p.halted, p.answered, p.cut)
          /\ p.stage = "serving" /\ (p.cut \/ p.halted)
      BY <1>2, DaemonMakes, DaemonFlags DEF Makes, Is, Closes, Flags, StopInv, GoesDown
    <2>2. call' = Drop(d, {"connected"})
      BY <1>2 DEF Closes
    <2>3. \A b \in Call, e \in Daemon : Stopped(b, e) =>
            Stopped(b, e)' /\ call'[b].at = call[b].at
      BY <2>2, DropTyped DEF Stopped
    <2>4. \A e \in Daemon : GoesDown(e)'
      BY <1>1, <2>1, <2>3 DEF StopInv, GoesDown, IsDropped, Flags
    <2>5. ASSUME NEW c \in Call
          PROVE  IsDropped(c)'
      <3>1. CASE call'[c] = call[c]
        BY <1>1, <2>1, <2>3, <3>1 DEF StopInv, GoesDown, IsDropped, Flags, DoorsType
      <3>2. CASE call'[c] # call[c]
        <4>1. call'[c].at = "ended" /\ call'[c].to = d
          BY <2>2, <3>2, DropTyped, DropKeepsTo
        <4>2. q.cut \/ \E b \in Call : Stopped(b, d)'
          BY <2>1, <2>4 DEF GoesDown, Flags
        <4> QED BY <4>1, <4>2 DEF InFlight, IsDropped
      <3> QED BY <3>1, <3>2
    <2> QED BY <2>4, <2>5 DEF StopInv
  <1>3. CASE Signal(d)
    <2>1. /\ UNCHANGED call /\ q.stage = p.stage /\ q.listening = p.listening
          /\ Flags(q, TRUE, p.halted, p.answered, TRUE) /\ p.stage \in {"locked", "serving"}
      BY <1>3, DaemonMakes, DaemonFlags DEF Makes, Is, Signal, Flags
    <2>2. \A b \in Call, e \in Daemon : Stopped(b, e)' <=> Stopped(b, e)
      BY <2>1 DEF Stopped
    <2>3. \A e \in Daemon : GoesDown(e)'
      BY <1>1, <2>1, <2>2 DEF StopInv, GoesDown, IsDropped, Flags
    <2>4. \A c \in Call : IsDropped(c)'
      BY <1>1, <2>1, <2>2 DEF StopInv, GoesDown, IsDropped, Flags, DoorsType
    <2> QED BY <2>3, <2>4 DEF StopInv
  <1>4. CASE Refused(d) \/ Leaves(d) \/ Crash(d)
    <2>1. /\ q.stage = "gone" /\ ~q.listening
          /\ ~q.cancelled /\ ~q.halted /\ ~q.answered
      BY <1>4, DaemonMakes, DaemonFlags DEF Makes, Is, Flags
    <2>2. \/ p.stage = "opened" /\ UNCHANGED call /\ ~q.cut /\ ~p.cut
          \/ p.stage = "leaving" /\ call' = Drop(d, InFlight) /\ q.cut = p.cut
          \/ call' = Drop(d, InFlight) /\ q.cut
      BY <1>4, DaemonFlags DEF Refused, Leaves, Crash, Flags, StopInv, GoesDown
    <2>3. \A b \in Call, e \in Daemon :
            Stopped(b, e) /\ (e # d \/ call[b].at = "ended" \/ UNCHANGED call)
              => Stopped(b, e)' /\ call'[b] = call[b]
      BY <2>2, DropTyped DEF Stopped, InFlight
    <2>4. \A e \in Daemon : GoesDown(e)'
      BY <1>1, <2>1, <2>3 DEF StopInv, GoesDown, IsDropped
    <2>5. \/ p.stage = "opened" /\ UNCHANGED call /\ ~p.cut
          \/ q.cut
          \/ \E b \in Call : Stopped(b, d)'
      BY <2>2, <2>3 DEF StopInv, GoesDown, IsDropped
    <2>6. ASSUME NEW c \in Call
          PROVE  IsDropped(c)'
      <3>1. CASE call'[c] # call[c]
        <4>1. call'[c].at = "ended" /\ call'[c].to = d /\ call' = Drop(d, InFlight)
          BY <2>2, <3>1, DropTyped, DropKeepsTo
        <4>2. q.cut \/ \E b \in Call : Stopped(b, d)'
          BY <2>5, <3>1
        <4> QED BY <4>1, <4>2 DEF InFlight, IsDropped
      <3>2. CASE call'[c] = call[c] /\ call[c].to # d
        BY <1>1, <2>3, <3>2 DEF StopInv, GoesDown, IsDropped, DoorsType
      <3>3. CASE call'[c] = call[c] /\ call[c].to = d
        <4>1. call[c].at \notin InFlight
          <5>1. CASE UNCHANGED call /\ p.stage = "opened"
            BY <3>3, <5>1 DEF StopInv, GoesDown, IsDropped
          <5>2. CASE call' = Drop(d, InFlight)
            BY <3>3, <5>2, DropTyped DEF InFlight
          <5> QED BY <2>2, <5>1, <5>2
        <4>2. asks[c] = "stop" /\ call[c].said = "lost" =>
                /\ call[c].at = "ended" /\ call[c].to \in Daemon
                /\ p.cut \/ \E b \in Call : Stopped(b, d)
          BY <3>3 DEF StopInv, GoesDown, IsDropped
        <4>3. asks[c] = "stop" /\ call[c].said = "lost" =>
                q.cut \/ \E b \in Call : Stopped(b, d)'
          BY <2>3, <2>5, <4>2
        <4> QED BY <3>3, <4>1, <4>2, <4>3 DEF IsDropped
      <3> QED BY <3>1, <3>2, <3>3
    <2> QED BY <2>4, <2>6 DEF StopInv
  <1> QED BY <1>2, <1>3, <1>4

(* The clients: a call reaches a daemon that serves, and nothing a client  *)
(* does unsays an answer.                                                  *)
LEMMA StopClient ==
  ASSUME DoorsType, StopInv, NEW c \in Call, UNCHANGED asks, ClientSteps(c)
  PROVE  StopInv'
  <1>1. UNCHANGED proc /\ call[c].at \in Before
    BY DEF ClientSteps, Dials, NotStarted, Autostarts, GivesUp, Accepts, Before
  <1>2. /\ \A b \in Call : b # c => call'[b] = call[b]
        /\ call'[c].said \in {call[c].said, "absent"}
    BY ClientMakes DEF ClientSteps, OneCall
  <1>3. call'[c].at \in InFlight => proc[call'[c].to].stage \in Holding \ {"locked"}
    <2>1. call[c] \in Door /\ call \in [Call -> Door]
      BY DEF DoorsType
    <2>2. ASSUME NEW x, Moves(c, x) PROVE call'[c] = x
      BY <2>1, <2>2 DEF Moves
    <2>3. CASE Dials(c)
      <3>1. PICK d \in Daemon :
              Reaches(d) /\ Moves(c, [call[c] EXCEPT !.at = "connected", !.to = d])
        BY <2>3 DEF Dials
      <3>2. call'[c].to = d
        BY <2>1, <2>2, <3>1 DEF Door
      <3> QED BY <3>1, <3>2 DEF Reaches, StopInv, GoesDown
    <2>4. CASE Accepts(c)
      <3>1. call'[c].to = call[c].to
        BY <2>1, <2>2, <2>4 DEF Accepts, Door
      <3> QED BY <2>4, <3>1 DEF Accepts, StopInv, InFlight
    <2>5. CASE NotStarted(c) \/ Autostarts(c) \/ GivesUp(c)
      <3>1. call'[c].at \in {"ended", "waiting"}
        BY <2>1, <2>2, <2>5 DEF NotStarted, Autostarts, GivesUp, Door
      <3> QED BY <3>1 DEF InFlight
    <2> QED BY <2>3, <2>4, <2>5 DEF ClientSteps
  <1>4. \A b \in Call, e \in Daemon : Stopped(b, e) => Stopped(b, e)' /\ call'[b] = call[b]
    BY <1>1, <1>2 DEF Stopped, Before
  <1>5. ~(asks[c] = "stop" /\ call'[c].said = "lost")
    BY <1>1, <1>2 DEF StopInv, GoesDown, IsDropped, Before
  <1>6. \A e \in Daemon : GoesDown(e)'
    BY <1>1, <1>4 DEF StopInv, GoesDown
  <1>7. ASSUME NEW b \in Call PROVE IsDropped(b)'
    <2>1. CASE b = c
      BY <1>1, <1>3, <1>5, <2>1 DEF IsDropped, InFlight
    <2>2. CASE b # c
      BY <1>1, <1>2, <1>4, <2>2 DEF StopInv, IsDropped, DoorsType
    <2> QED BY <2>1, <2>2
  <1> QED BY <1>6, <1>7 DEF StopInv

(* The handlers: a stop that halts its daemon is that daemon's to answer.  *)
LEMMA StopHandle ==
  ASSUME DoorsType, UnparkedInv, StopInv, NEW c \in Call, UNCHANGED asks, HandleSteps(c)
  PROVE  StopInv'
  <1>0. PICK d \in Daemon : d = call[c].to
    BY HandleInFlight DEF DoorsType
  <1> DEFINE p == proc[d]  q == proc'[d]
  <1>1. call[c].at \in InFlight /\ d \in Daemon /\ d = call[c].to
    BY <1>0, HandleInFlight
  <1>2. /\ q.stage = p.stage /\ q.listening = p.listening
        /\ \A e \in Daemon : e # d => proc'[e] = proc[e]
    BY <1>1, HandleWrites DEF Writes, Makes, OnlyMoves, Is
  <1>3. /\ \A b \in Call : b # c => call'[b] = call[b]
        /\ call'[c].to = d /\ call'[c].at \in {"claimed", "answering", "ended"}
        /\ call[c].at = "answering" => Answers(c)
        /\ Answers(c) => /\ call[c].at = "answering" /\ call'[c].at = "ended"
                         /\ call'[c].said = call[c].said
        /\ call'[c].said \in {call[c].said, "ok", "error", "parked"}
    <2>1. CASE Answers(c)
      BY <1>1, <2>1, HandleMoves DEF OneCall, Answers
    <2>2. ASSUME NEW r \in Call, Claims(c, r)
          PROVE  OneCall(c) /\ call'[c].at = "claimed" /\ call'[c].to = d
                 /\ call'[c].said = call[c].said /\ call[c].at = "accepted"
      BY <1>1, <2>2, HandleMoves DEF Claims
    <2>3. CASE ~Answers(c) /\ ~\E r \in Call : Claims(c, r)
      <3>1. \E said \in {"ok", "error", "parked"} : Says(c, said)
        BY <2>3, HandleSays DEF HandleSteps
      <3> QED BY <1>1, <2>3, <3>1 DEF Says, OneCall
    <2> QED BY <2>1, <2>2, <2>3 DEF OneCall, Answers
  <1>4. \A b \in Call, e \in Daemon :
          Stopped(b, e) => Stopped(b, e)' /\ (call[b].at = "ended" => call'[b].at = "ended")
    BY <1>1, <1>3 DEF Stopped, InFlight
  <1>5. /\ q.cancelled = p.cancelled /\ q.cut = p.cut
        /\ q.halted => p.halted \/ Stopped(c, d)'
        /\ q.answered => p.answered \/ (Stopped(c, d)' /\ call'[c].at = "ended")
        /\ p.halted => q.halted
        /\ p.answered => q.answered
    <2>1. CASE Stops(c)
      <3>1. Stopped(c, d)'
        BY <1>1, <2>1, HandleSays DEF Says, Stopped, Stops
      <3>2. Flags(q, p.cancelled, TRUE, p.answered, p.cut)
        BY <1>1, <2>1, HandleFlags
      <3> QED BY <3>1, <3>2 DEF Flags
    <2>2. CASE Answers(c)
      <3>1. Flags(q, p.cancelled, p.halted, p.answered \/ EndsStop(c), p.cut)
        BY <1>1, <2>2, HandleFlags
      <3>2. EndsStop(c) => Stopped(c, d)' /\ call'[c].at = "ended"
        BY <1>3, <2>2 DEF EndsStop, Stopped
      <3> QED BY <3>1, <3>2 DEF Flags
    <2>3. CASE ~Stops(c) /\ ~Answers(c)
      <3>1. Flags(q, p.cancelled, p.halted, p.answered, p.cut)
        BY <1>1, <2>3, HandleFlags
      <3> QED BY <3>1 DEF Flags
    <2> QED BY <2>1, <2>2, <2>3
  <1>6. ASSUME NEW e \in Daemon PROVE GoesDown(e)'
    <2>1. CASE e = d
      <3>1. GoesDown(d)
        BY <1>1 DEF StopInv
      <3>2. q.halted => \E b \in Call : Stopped(b, d)'
        BY <1>4, <1>5, <3>1 DEF GoesDown
      <3>3. q.answered => \E b \in Call : Stopped(b, d)' /\ call'[b].at = "ended"
        BY <1>4, <1>5, <3>1 DEF GoesDown
      <3> QED BY <1>2, <1>5, <2>1, <3>1, <3>2, <3>3 DEF GoesDown
    <2>2. CASE e # d
      BY <1>2, <1>4, <2>2 DEF StopInv, GoesDown
    <2> QED BY <2>1, <2>2
  <1>7. ASSUME NEW b \in Call
        PROVE  IsDropped(b)'
    <2>1. CASE b = c
      <3>1. /\ p.stage \in Holding \ {"locked"}
            /\ ~(asks[c] = "stop" /\ call[c].said = "lost")
        BY <1>1 DEF StopInv, IsDropped, InFlight
      <3>2. ~(asks[c] = "stop" /\ call'[c].said = "lost")
        BY <1>3, <3>1
      <3> QED BY <1>1, <1>2, <1>3, <2>1, <3>1, <3>2 DEF IsDropped
    <2>2. CASE b # c
      BY <1>1, <1>2, <1>3, <1>4, <1>5, <2>2 DEF StopInv, GoesDown, IsDropped, DoorsType
    <2> QED BY <2>1, <2>2
  <1> QED BY <1>6, <1>7 DEF StopInv

(* A stop the daemon takes has its answer, unless the daemon was signalled *)
(* or killed or another stop had its answer first: for any number of       *)
(* daemons and calls, whatever starts straddle a stop and whatever crashes,*)
(* so long as the gate does not park a stop (Serve, halt, answered).       *)
THEOREM StopsAreAnswered ==
  ASSUME Undeferred PROVE Spec => []StopIsAnswered
  <1>1. Init => UnparkedInv /\ StopInv
    BY DEF Init, UnparkedInv, StopInv, GoesDown, IsDropped, Unborn, Unasked, NoRows, InFlight
  <1>2. DoorsType /\ UnparkedInv /\ StopInv /\ [Next]_vars => StopInv'
    <2> SUFFICES ASSUME DoorsType, UnparkedInv, StopInv, [Next]_vars PROVE StopInv'
      OBVIOUS
    <2>1. CASE UNCHANGED vars
      BY <2>1 DEF vars, StopInv, GoesDown, IsDropped, Stopped
    <2> QED BY <2>1, Stepwise, StopOnTheWay, StopAtAnEnd, StopClient, StopHandle
            DEF DaemonSteps, OnTheWay
  <1>3. DoorsType /\ UnparkedInv /\ [Next]_vars => UnparkedInv'
    BY UnparkedStep
  <1>4. StopInv => StopIsAnswered
    BY DEF StopInv, GoesDown, IsDropped, StopIsAnswered, Stopped
  <1>5. Init => DoorsType
    BY DoorsTypeInit
  <1>6. DoorsType /\ [Next]_vars => DoorsType'
    BY DoorsTypeStep
  <1> QED BY <1>1, <1>2, <1>3, <1>4, <1>5, <1>6, PTL DEF Spec
=============================================================================
