---------------------------- MODULE TrailProofs ----------------------------
(* The trail and its followers for every value of their constants: what    *)
(* rotation and restarts leave of the history, the promise of module Feed, *)
(* the limit of a stream and the wake-ups.                                 *)
EXTENDS Trail, Numbers

-----------------------------------------------------------------------------
(* Rotation.                                                               *)

(* What rotation keeps is the newest, and no more than MaxEvents.          *)
LEMMA RotateKeepsNewest ==
  ASSUME NEW n \in Nat, NEW S \in SUBSET (1..n)
  PROVE  /\ Rotate(S) \subseteq S
         /\ Cardinality(Rotate(S)) <= MaxEvents
         /\ \A x \in Rotate(S), y \in S : x < y => y \in Rotate(S)
  <1> DEFINE From(e) == {x \in S : x >= e}
  <1>1. IsFiniteSet(S)
    <2>1. S \in SUBSET Nat /\ \A s \in S : s <= n
      OBVIOUS
    <2> QED BY <2>1, FS_BoundedSetOfNaturals
  <1>2. \A e \in S : IsFiniteSet(From(e)) /\ Cardinality(From(e)) \in Nat
    BY <1>1, FS_Subset, FS_CardinalityType
  <1>3. Rotate(S) = {e \in S : Cardinality(From(e)) <= MaxEvents}
    BY DEF Rotate
  <1>4. \A x, y \in S : x <= y => From(y) \in SUBSET From(x)
    <2> TAKE x, y \in S
    <2> HAVE x <= y
    <2>1. \A z \in S : z >= y => z >= x
      BY S \in SUBSET Nat
    <2> QED BY <2>1
  <1> HIDE DEF From
  <1>5. \A x \in Rotate(S), y \in S : x < y => y \in Rotate(S)
    <2> SUFFICES ASSUME NEW x \in Rotate(S), NEW y \in S, x < y
                 PROVE  Cardinality(From(y)) <= MaxEvents
      BY <1>3
    <2>1. x \in S /\ Cardinality(From(x)) <= MaxEvents
      BY <1>3
    <2>2. From(y) \in SUBSET From(x)
      BY <1>4, <2>1
    <2>3. Cardinality(From(y)) <= Cardinality(From(x))
      BY <1>2, <2>1, <2>2, FS_Subset
    <2> QED BY <1>2, <2>1, <2>3, TrailAssumption
  <1>6. Cardinality(Rotate(S)) <= MaxEvents
    <2>1. CASE Rotate(S) = {}
      BY <2>1, FS_EmptySet, TrailAssumption
    <2>2. CASE Rotate(S) # {}
      <3>1. Rotate(S) \in SUBSET S /\ S \in SUBSET Nat
        BY <1>3
      <3>2. PICK m \in Rotate(S) : \A x \in Rotate(S) : m <= x
        BY <2>2, <3>1, Least
      <3>3. m \in S /\ Cardinality(From(m)) <= MaxEvents
        BY <1>3, <3>2
      <3>4. Rotate(S) \in SUBSET From(m)
        BY <3>1, <3>2 DEF From
      <3>5. Cardinality(Rotate(S)) <= Cardinality(From(m))
        BY <1>2, <3>3, <3>4, FS_Subset
      <3>6. Cardinality(Rotate(S)) \in Nat
        BY <1>1, <3>1, FS_Subset, FS_CardinalityType
      <3> QED BY <1>2, <3>3, <3>5, <3>6, TrailAssumption
    <2> QED BY <2>1, <2>2
  <1>7. Rotate(S) \subseteq S
    BY <1>3
  <1> QED BY <1>5, <1>6, <1>7

-----------------------------------------------------------------------------
(* The inductive invariant.                                                *)

(* The history, the trail and the document, and the clock.                 *)
Recorded ==
  /\ trail \subseteq log /\ saved \subseteq log
  /\ \A x \in trail, y \in log : x < y => y \in trail
  /\ F!Gapless(saved, log)
  /\ Cardinality(trail) <= MaxEvents /\ Cardinality(saved) <= MaxEvents
  /\ \A x \in 1..written : at[x] <= now
  /\ \A x, y \in 1..written : x < y => at[x] <= at[y]

(* What a consumer holds has no hole, and its last event is the newest.    *)
Handed(f) ==
  /\ F!Gapless(got[f], log)
  /\ \/ last[f] = 0 /\ got[f] = {}
     \/ last[f] \in got[f] /\ \A x \in got[f] : x <= last[f]

(* A stream reads on from what its consumer holds, without a hole.         *)
Streaming(f) ==
  /\ pc[f] # "writing" => batch[f] = {}
  /\ Live(f) /\ since[f] = 0 => got[f] = {}
  /\ Live(f) /\ since[f] # 0 => since[f] = last[f] /\ sinceMS[f] = 0
  /\ batch[f] \subseteq Select(log, since[f], sinceMS[f])
  /\ F!Gapless(batch[f], log)
  /\ since[f] # 0 /\ batch[f] # {} =>
       /\ since[f] \in log
       /\ \A x \in log, z \in batch[f] : since[f] < x /\ x < z => x \in batch[f]

(* A limited stream counts down what it writes.                            *)
Counted(f) == Live(f) /\ limit[f] # 0 => left[f] # 0 /\ left[f] + sent[f] = limit[f]

(* What a stream has not read is still to wake it, or has.                 *)
Alerted(f) ==
  pc[f] \in {"writing", "waiting"} =>
    \A e \in Select(trail, since[f], sinceMS[f]) :
      e \in unfired \/ e \in batch[f] \/ woken[f]

IInv ==
  /\ TypeOK
  /\ Recorded
  /\ \A f \in Followers : Handed(f) /\ Streaming(f) /\ Counted(f) /\ Alerted(f)

-----------------------------------------------------------------------------
(* A hole needs an event of the history: fewer events make none, and nor   *)
(* does one that is newer than what is held.                               *)
LEMMA GaplessInLess ==
  ASSUME NEW G, NEW L, NEW M \in SUBSET L, F!Gapless(G, L)
  PROVE  F!Gapless(G, M)
  BY DEF F!Gapless

LEMMA GaplessBelow ==
  ASSUME NEW n \in Nat, NEW G \in SUBSET (1..n), NEW L \in SUBSET (1..n),
         F!Gapless(G, L)
  PROVE  F!Gapless(G, L \union {n + 1})
  BY DEF F!Gapless

(* A set that holds all that is newer than any of its members has no hole. *)
LEMMA NewestGapless ==
  ASSUME NEW L, NEW G \in SUBSET L, \A x \in G, y \in L : x < y => y \in G
  PROVE  F!Gapless(G, L)
  BY DEF F!Gapless

(* A start finds a daemon and consumers that hold nothing.                 *)
LEMMA InitHolds == Init => IInv
  <1> SUFFICES ASSUME Init PROVE IInv
    OBVIOUS
  <1>1. TypeOK
    <2>1. 0 \in 0..MaxWritten /\ 0 \in 0..MaxMS /\ 1 \in 0..(MaxMS + 1) /\ 0 \in 0..MaxRestarts
      BY TrailAssumption
    <2>2. woken \in [Followers -> BOOLEAN] /\ stopping \in BOOLEAN
      BY DEF Init
    <2>3. at \in [Events -> 0..MaxMS] /\ now \in 0..(MaxMS + 1)
      BY <2>1 DEF Init
    <2> QED BY <2>1, <2>2, <2>3 DEF Init, TypeOK
  <1>2. Recorded
    BY FS_EmptySet, TrailAssumption DEF Init, Recorded, F!Gapless
  <1>3. ASSUME NEW f \in Followers
        PROVE  Handed(f) /\ Streaming(f) /\ Counted(f) /\ Alerted(f)
    BY DEF Init, Handed, Streaming, Counted, Alerted, Live, Select, F!Gapless
  <1> QED BY <1>1, <1>2, <1>3 DEF IInv

(* A new event is newer than any, and no stream has it yet.                *)
LEMMA EmitHolds ==
  ASSUME IInv, NEW ms \in now..MaxMS, NEW ok \in BOOLEAN, Emit(ms, ok)
  PROVE  IInv'
  <1> DEFINE e == written + 1
             S == trail \union {e}
  <1>1. /\ written \in Nat /\ e \in Events /\ now \in Nat /\ ms \in Nat
        /\ trail \in SUBSET (1..written) /\ log \in SUBSET (1..written)
        /\ saved \in SUBSET (1..written) /\ at \in [Events -> 0..MaxMS]
    BY TrailAssumption DEF IInv, TypeOK, Emit, Events
  <1>2. /\ written' = e /\ now' = ms /\ at' = [at EXCEPT ![e] = ms]
        /\ trail' = Rotate(S) /\ saved' \in {saved, Rotate(S)}
        /\ unfired' = unfired \union {e} /\ log' = log \union {e}
        /\ UNCHANGED <<daemonVars, streamVars, heldVars>>
    BY DEF Emit
  <1>3. S \in SUBSET (1..e)
    BY <1>1
  <1>4. /\ Rotate(S) \subseteq S
        /\ Cardinality(Rotate(S)) <= MaxEvents
        /\ \A x \in Rotate(S), y \in S : x < y => y \in Rotate(S)
    BY <1>1, <1>3, RotateKeepsNewest
  <1> HIDE DEF S
  <1>5. TypeOK'
    <2>1. Rotate(S) \subseteq 1..e
      BY <1>3, <1>4
    <2>2. at' \in [Events -> 0..MaxMS] /\ now' \in 0..(MaxMS + 1) /\ written' \in 0..MaxWritten
      BY <1>1, <1>2, TrailAssumption DEF Events
    <2> QED BY <1>1, <1>2, <2>1, <2>2
            DEF IInv, TypeOK, daemonVars, streamVars, askVars, heldVars
  <1>6. Recorded'
    <2> USE DEF S
    <2>1. trail' \subseteq log' /\ saved' \subseteq log'
      BY <1>2, <1>4 DEF IInv, Recorded
    <2>2. \A x \in trail', y \in log' : x < y => y \in trail'
      <3>1. ASSUME NEW x \in trail', NEW y \in log', x < y PROVE y \in trail'
        <4>1. CASE y = e
          BY <1>2, <1>4, <3>1, <4>1
        <4>2. CASE y \in log
          <5>1. x \in trail
            <6>1. x \in trail \/ x = e
              BY <1>2, <1>4, <3>1
            <6>2. y \in 1..written /\ x < y
              BY <1>1, <3>1, <4>2
            <6> QED BY <1>1, <6>1, <6>2
          <5> QED BY <1>2, <1>4, <3>1, <4>2, <5>1 DEF IInv, Recorded
        <4> QED BY <1>2, <3>1, <4>1, <4>2
      <3> QED BY <3>1
    <2>3. F!Gapless(saved', log')
      <3>1. CASE saved' = saved
        BY <1>1, <1>2, <3>1, GaplessBelow DEF IInv, Recorded
      <3>2. CASE saved' = trail'
        BY <2>1, <2>2, <3>2, NewestGapless
      <3> QED BY <1>2, <3>1, <3>2
    <2>4. Cardinality(trail') <= MaxEvents /\ Cardinality(saved') <= MaxEvents
      BY <1>2, <1>4 DEF IInv, Recorded
    <2>5. \A x \in 1..written' : at'[x] = IF x = e THEN ms ELSE at[x]
      BY <1>1, <1>2 DEF Events
    <2>6. \A x \in 1..written : at[x] <= now /\ at[x] \in Nat
      <3>1. 1..written \subseteq Events
        BY TrailAssumption DEF IInv, TypeOK, Events
      <3> QED BY <1>1, <3>1 DEF IInv, Recorded
    <2>7. /\ \A x \in 1..written' : at'[x] <= now'
          /\ \A x, y \in 1..written' : x < y => at'[x] <= at'[y]
      BY <1>1, <1>2, <2>5, <2>6 DEF IInv, Recorded
    <2>8. F!Gapless(saved, log)'
      BY <2>3 DEF F!Gapless
    <2> QED BY <2>1, <2>2, <2>4, <2>7, <2>8 DEF Recorded
  <1>7. ASSUME NEW f \in Followers
        PROVE  (Handed(f) /\ Streaming(f) /\ Counted(f) /\ Alerted(f))'
    <2>0. /\ got'[f] = got[f] /\ last'[f] = last[f] /\ pc'[f] = pc[f]
          /\ batch'[f] = batch[f] /\ since'[f] = since[f] /\ sinceMS'[f] = sinceMS[f]
          /\ left'[f] = left[f] /\ sent'[f] = sent[f] /\ limit'[f] = limit[f]
          /\ woken'[f] = woken[f]
      BY <1>2 DEF streamVars, askVars, heldVars
    <2>1. got[f] \in SUBSET (1..written) /\ batch[f] \in SUBSET (1..written)
      BY DEF IInv, TypeOK
    <2>2. F!Gapless(got[f], log') /\ F!Gapless(batch[f], log')
      BY <1>1, <1>2, <2>1, GaplessBelow DEF IInv, Handed, Streaming
    <2>3. Handed(f)'
      BY <2>0, <2>2 DEF IInv, Handed, F!Gapless
    <2>4. \A x \in 1..written : at'[x] = at[x]
      BY <1>1, <1>2 DEF Events
    <2>5. Streaming(f)'
      <3>1. batch[f] \subseteq Select(log, since[f], sinceMS[f])'
        BY <1>1, <1>2, <2>0, <2>4 DEF IInv, Streaming, Select
      <3>2. since[f] # 0 /\ batch[f] # {} =>
               /\ since[f] \in log'
               /\ \A x \in log', z \in batch[f] : since[f] < x /\ x < z => x \in batch[f]
        BY <1>1, <1>2, <2>1 DEF IInv, Streaming
      <3>3. F!Gapless(batch[f], log)'
        BY <2>0, <2>2 DEF F!Gapless
      <3> QED BY <2>0, <3>1, <3>2, <3>3 DEF IInv, Streaming, Live
    <2>6. Counted(f)'
      BY <2>0 DEF IInv, Counted, Live
    <2>7. Alerted(f)'
      <3>1. \A x \in Select(trail, since[f], sinceMS[f])' :
              x = e \/ x \in Select(trail, since[f], sinceMS[f])
        BY <1>1, <1>2, <1>4, <2>0, <2>4 DEF Select, S
      <3> QED BY <1>2, <2>0, <3>1 DEF IInv, Alerted
    <2> QED BY <2>3, <2>5, <2>6, <2>7
  <1> QED BY <1>5, <1>6, <1>7 DEF IInv

-----------------------------------------------------------------------------
(* A step of one stream.                                                   *)

(* The variables of a follower are as they were.                           *)
Still(g) ==
  /\ pc'[g] = pc[g] /\ since'[g] = since[g] /\ sinceMS'[g] = sinceMS[g]
  /\ batch'[g] = batch[g] /\ left'[g] = left[g] /\ limit'[g] = limit[g]
  /\ sent'[g] = sent[g] /\ woken'[g] = woken[g]
  /\ last'[g] = last[g] /\ got'[g] = got[g]

(* What is known of a follower that no step touched stays known.           *)
LEMMA StillHolds ==
  ASSUME IInv, NEW g \in Followers, UNCHANGED trailVars, Still(g)
  PROVE  (Handed(g) /\ Streaming(g) /\ Counted(g) /\ Alerted(g))'
  BY DEF IInv, trailVars, Still, Handed, Streaming, Counted, Alerted, Live, Select,
         F!Gapless

(* So a step of one stream has only that stream to answer for.             *)
LEMMA OneStream ==
  ASSUME IInv, NEW f \in Followers, UNCHANGED trailVars, TypeOK',
         \A g \in Followers \ {f} : Still(g),
         (Handed(f) /\ Streaming(f) /\ Counted(f) /\ Alerted(f))'
  PROVE  IInv'
  <1>1. Recorded'
    BY DEF IInv, trailVars, Recorded, F!Gapless
  <1>2. \A g \in Followers : (Handed(g) /\ Streaming(g) /\ Counted(g) /\ Alerted(g))'
    BY StillHolds
  <1> QED BY <1>1, <1>2 DEF IInv

(* A stream that ends leaves nothing behind but what it handed over.       *)
LEMMA EndHolds ==
  ASSUME IInv, NEW f \in Followers, End(f), UNCHANGED <<trailVars, daemonVars>>,
         last' \in [Followers -> 0..written], got' \in [Followers -> SUBSET (1..written)],
         Handed(f)',
         \A g \in Followers \ {f} : last'[g] = last[g] /\ got'[g] = got[g]
  PROVE  IInv'
  <1>1. TypeOK'
    <2>1. woken' \in [Followers -> BOOLEAN]
      BY DEF IInv, TypeOK, End
    <2>2. pc' \in [Followers -> {"off", "reading", "writing", "waiting"}]
      BY DEF IInv, TypeOK, End
    <2>3. batch' \in [Followers -> SUBSET (1..written)]
      BY DEF IInv, TypeOK, End
    <2>4. since' \in [Followers -> 0..written]
      BY DEF IInv, TypeOK, End
    <2>5. /\ sinceMS' \in [Followers -> Nat] /\ left' \in [Followers -> Nat]
          /\ limit' \in [Followers -> Nat] /\ sent' \in [Followers -> Nat]
      BY DEF IInv, TypeOK, End
    <2> QED BY <2>1, <2>2, <2>3, <2>4, <2>5 DEF IInv, TypeOK, trailVars, daemonVars
  <1>2. /\ pc'[f] = "off" /\ since'[f] = 0 /\ batch'[f] = {}
        /\ \A g \in Followers \ {f} : Still(g)
    BY DEF IInv, TypeOK, End, Still
  <1>3. Streaming(f)' /\ Counted(f)' /\ Alerted(f)'
    BY <1>2 DEF Streaming, Counted, Alerted, Live, F!Gapless
  <1> QED BY <1>1, <1>2, <1>3, OneStream

(* A read takes all that the stream is still to hand over.                 *)
LEMMA ReadHolds ==
  ASSUME IInv, NEW f \in Followers, Read(f)
  PROVE  IInv'
  <1>1. CASE Carries(trail, since[f])
    <2>1. /\ pc[f] = "reading" /\ UNCHANGED <<trailVars, daemonVars, heldVars>>
          /\ batch' = [batch EXCEPT ![f] = Select(trail, since[f], sinceMS[f])]
          /\ pc' = [pc EXCEPT ![f] = "writing"]
          /\ UNCHANGED <<since, sinceMS, left, limit, sent, woken>>
      BY <1>1 DEF Read
    <2>2. Select(trail, since[f], sinceMS[f]) \in SUBSET (1..written)
      BY DEF Select, IInv, TypeOK
    <2>3. TypeOK'
      BY <2>1, <2>2 DEF IInv, TypeOK, trailVars, daemonVars, heldVars
    <2>4. \A g \in Followers \ {f} : Still(g)
      BY <2>1 DEF IInv, TypeOK, Still, heldVars
    <2>5. /\ pc'[f] = "writing" /\ batch'[f] = Select(trail, since[f], sinceMS[f])
          /\ since'[f] = since[f] /\ sinceMS'[f] = sinceMS[f]
          /\ left'[f] = left[f] /\ limit'[f] = limit[f] /\ sent'[f] = sent[f]
          /\ last'[f] = last[f] /\ got'[f] = got[f]
      BY <2>1 DEF IInv, TypeOK, heldVars
    <2>6. Handed(f)' /\ Counted(f)'
      BY <2>1, <2>5 DEF IInv, Handed, Counted, Live, trailVars, F!Gapless
    <2>7. Streaming(f)'
      <3>1. Select(trail, since[f], sinceMS[f]) \subseteq Select(log, since[f], sinceMS[f])
        BY DEF Select, IInv, Recorded
      <3>2. F!Gapless(Select(trail, since[f], sinceMS[f]), log)
        <4> SUFFICES ASSUME NEW x \in Select(trail, since[f], sinceMS[f]), NEW y \in log, x < y
                     PROVE  y \in Select(trail, since[f], sinceMS[f])
          BY <3>1, NewestGapless DEF Select
        <4>1. x \in trail /\ x \in 1..written /\ y \in 1..written /\ y \in trail
          BY DEF Select, IInv, TypeOK, Recorded
        <4>2. since[f] \in Nat /\ sinceMS[f] \in Nat /\ at[x] \in Nat /\ at[y] \in Nat
          BY <4>1, TrailAssumption DEF IInv, TypeOK, Events
        <4>3. at[x] <= at[y]
          BY <4>1 DEF IInv, Recorded
        <4>4. since[f] < x /\ (sinceMS[f] = 0 \/ at[x] > sinceMS[f])
          BY DEF Select
        <4> QED BY <4>1, <4>2, <4>3, <4>4 DEF Select
      <3>3. since[f] # 0 => since[f] \in trail /\ sinceMS[f] = 0
        BY <1>1, <2>1 DEF Carries, IInv, Streaming, Live
      <3>4. since[f] # 0 => /\ since[f] \in log
                            /\ \A x \in log : since[f] < x => x \in Select(trail, since[f], sinceMS[f])
        BY <3>3 DEF Select, IInv, Recorded
      <3>5. Streaming(f) /\ Live(f)
        BY <2>1 DEF IInv, Live
      <3>6. F!Gapless(batch[f], log)' /\ Select(log, since[f], sinceMS[f])' = Select(log, since[f], sinceMS[f])
        BY <2>1, <2>5, <3>2 DEF F!Gapless, Select, trailVars
      <3> QED BY <2>1, <2>5, <3>1, <3>4, <3>5, <3>6 DEF Streaming, Live, trailVars
    <2>8. Alerted(f)'
      BY <2>1, <2>5 DEF Alerted, Select, trailVars
    <2> QED BY <2>1, <2>3, <2>4, <2>6, <2>7, <2>8, OneStream
  <1>2. CASE ~Carries(trail, since[f])
    <2>1. End(f) /\ UNCHANGED <<trailVars, daemonVars, heldVars>>
      BY <1>2 DEF Read
    <2>2. Handed(f)'
      BY <2>1 DEF IInv, Handed, trailVars, heldVars, F!Gapless
    <2> QED BY <2>1, <2>2, EndHolds DEF IInv, TypeOK, heldVars
  <1> QED BY <1>1, <1>2

(* What a write hands over: the oldest of what the stream has read, newer  *)
(* than all its consumer holds, next in the history to the newest of them. *)
LEMMA WriteHands ==
  ASSUME IInv, NEW f \in Followers, NEW e \in batch[f], pc[f] = "writing",
         \A x \in batch[f] : e <= x
  PROVE  /\ e \in log
         /\ \A x \in got[f] : x < e
         /\ got[f] = {} \/ (last[f] \in got[f] /\ last[f] \in log)
         /\ F!Gapless(got[f] \union {e}, log)
  <1>1. /\ got[f] \in SUBSET (1..written) /\ batch[f] \in SUBSET (1..written)
        /\ log \in SUBSET (1..written) /\ last[f] \in Nat /\ written \in Nat
        /\ Handed(f) /\ Streaming(f) /\ Live(f)
    BY DEF IInv, TypeOK, Live
  <1>2. e \in log /\ e > since[f]
    BY <1>1 DEF Streaming, Select
  <1>3. CASE got[f] = {}
    BY <1>1, <1>2, <1>3 DEF F!Gapless
  <1>4. CASE got[f] # {}
    <2>1. /\ last[f] \in got[f] /\ \A x \in got[f] : x <= last[f]
          /\ last[f] = since[f] /\ since[f] \in log
          /\ \A x \in log, z \in batch[f] : last[f] < x /\ x < z => x \in batch[f]
      BY <1>1, <1>4 DEF Handed, Streaming
    <2>2. \A x \in got[f] : x < e
      BY <1>1, <1>2, <2>1
    <2>3. ASSUME NEW x \in log, NEW y \in got[f] \union {e}, NEW z \in got[f] \union {e},
                 y < x, x < z
          PROVE  x \in got[f] \union {e}
      <3>1. x \in Nat /\ e \in Nat /\ y \in got[f]
        BY <1>1, <2>2, <2>3
      <3>2. CASE x <= last[f]
        BY <1>1, <2>1, <2>3, <3>1, <3>2 DEF Handed, F!Gapless
      <3>3. CASE last[f] < x
        <4>1. z = e
          BY <1>1, <2>1, <2>3, <3>1, <3>3
        <4>2. x \in batch[f]
          BY <2>1, <2>3, <3>3, <4>1
        <4> QED BY <1>1, <2>3, <3>1, <4>1, <4>2
      <3> QED BY <1>1, <3>1, <3>2, <3>3
    <2> QED BY <1>2, <2>1, <2>2, <2>3 DEF F!Gapless
  <1> QED BY <1>3, <1>4

LEMMA WriteHolds ==
  ASSUME IInv, NEW f \in Followers, Write(f)
  PROVE  IInv'
  <1>1. PICK e \in batch[f] :
          /\ pc[f] = "writing"
          /\ \A x \in batch[f] : e <= x
          /\ last' = [last EXCEPT ![f] = e]
          /\ got' = [got EXCEPT ![f] = @ \union {e}]
          /\ \/ Exhausted(f) /\ End(f)
             \/ /\ ~Exhausted(f)
                /\ since' = [since EXCEPT ![f] = e]
                /\ sinceMS' = [sinceMS EXCEPT ![f] = 0]
                /\ batch' = [batch EXCEPT ![f] = @ \ {e}]
                /\ left' = [left EXCEPT ![f] = IF limit[f] = 0 THEN 0 ELSE @ - 1]
                /\ sent' = [sent EXCEPT ![f] = @ + 1]
                /\ UNCHANGED <<pc, limit, woken>>
          /\ UNCHANGED <<trailVars, daemonVars>>
    BY DEF Write
  <1>2. /\ e \in log /\ e \in 1..written /\ \A x \in got[f] : x < e
        /\ F!Gapless(got[f] \union {e}, log)
    BY <1>1, WriteHands DEF IInv, TypeOK
  <1>3. /\ last' \in [Followers -> 0..written] /\ got' \in [Followers -> SUBSET (1..written)]
        /\ last'[f] = e /\ got'[f] = got[f] \union {e}
        /\ \A g \in Followers \ {f} : last'[g] = last[g] /\ got'[g] = got[g]
    BY <1>1, <1>2 DEF IInv, TypeOK
  <1>4. Handed(f)'
    <2>1. F!Gapless(got[f], log)'
      BY <1>1, <1>2, <1>3 DEF F!Gapless, trailVars
    <2>2. \A x \in got'[f] : x <= e
      BY <1>2, <1>3 DEF IInv, TypeOK
    <2> QED BY <1>3, <2>1, <2>2 DEF Handed
  <1>5. CASE Exhausted(f) /\ End(f)
    BY <1>1, <1>3, <1>4, <1>5, EndHolds
  <1>6. CASE ~Exhausted(f)
    <2>1. /\ since' = [since EXCEPT ![f] = e]
          /\ sinceMS' = [sinceMS EXCEPT ![f] = 0]
          /\ batch' = [batch EXCEPT ![f] = @ \ {e}]
          /\ left' = [left EXCEPT ![f] = IF limit[f] = 0 THEN 0 ELSE @ - 1]
          /\ sent' = [sent EXCEPT ![f] = @ + 1]
          /\ UNCHANGED <<pc, limit, woken>>
      BY <1>1, <1>6
    <2>2. /\ pc[f] = "writing" /\ Live(f) /\ Streaming(f) /\ Counted(f) /\ Alerted(f)
          /\ batch[f] \in SUBSET (1..written) /\ left[f] \in Nat /\ sent[f] \in Nat
          /\ limit[f] \in Nat /\ log \in SUBSET (1..written) /\ e \in Nat
          /\ trail \in SUBSET (1..written) /\ sinceMS[f] \in Nat /\ since[f] \in Nat
      BY <1>1, <1>2 DEF IInv, TypeOK, Live
    <2>3. /\ since'[f] = e /\ sinceMS'[f] = 0 /\ batch'[f] = batch[f] \ {e}
          /\ left'[f] = (IF limit[f] = 0 THEN 0 ELSE left[f] - 1)
          /\ sent'[f] = sent[f] + 1 /\ limit'[f] = limit[f]
          /\ pc'[f] = pc[f] /\ woken'[f] = woken[f]
      BY <2>1 DEF IInv, TypeOK
    <2>4. limit[f] # 0 => left[f] \in Nat \ {0, 1}
      BY <1>6, <2>2 DEF Exhausted, Counted
    <2>5. TypeOK'
      <3>1. left' \in [Followers -> Nat]
        BY <2>1, <2>2, <2>4 DEF IInv, TypeOK
      <3>2. since' \in [Followers -> 0..written] /\ sinceMS' \in [Followers -> Nat]
        BY <1>2, <2>1 DEF IInv, TypeOK
      <3>3. batch' \in [Followers -> SUBSET (1..written)] /\ sent' \in [Followers -> Nat]
        BY <2>1 DEF IInv, TypeOK
      <3> QED BY <1>1, <1>3, <2>1, <3>1, <3>2, <3>3 DEF IInv, TypeOK, trailVars, daemonVars
    <2>6. \A g \in Followers \ {f} : Still(g)
      BY <1>3, <2>1 DEF IInv, TypeOK, Still
    <2>7. Streaming(f)'
      <3>1. batch'[f] \subseteq Select(log, since[f], sinceMS[f])'
        BY <1>1, <2>2, <2>3 DEF Streaming, Select, trailVars
      <3>2. F!Gapless(batch[f] \ {e}, log)
        <4> SUFFICES ASSUME NEW x \in log, NEW y \in batch[f] \ {e}, NEW z \in batch[f] \ {e},
                            y < x, x < z
                     PROVE  x \in batch[f] \ {e}
          BY DEF F!Gapless
        <4>1. x \in batch[f]
          BY <2>2 DEF Streaming, F!Gapless
        <4> QED BY <1>1, <2>2, <4>1
      <3>3. \A x \in log, z \in batch'[f] : e < x /\ x < z => x \in batch'[f]
        <4> SUFFICES ASSUME NEW x \in log, NEW z \in batch[f] \ {e}, e < x, x < z
                     PROVE  x \in batch[f] \ {e}
          BY <2>3
        <4>1. x \in batch[f]
          BY <2>2 DEF Streaming, F!Gapless
        <4> QED BY <2>2, <4>1
      <3>4. F!Gapless(batch[f], log)'
        BY <1>1, <2>3, <3>2 DEF F!Gapless, trailVars
      <3>5. since'[f] # 0 /\ pc'[f] = "writing" /\ log' = log
        BY <1>1, <1>2, <2>2, <2>3 DEF trailVars
      <3>6. since'[f] = last'[f] /\ sinceMS'[f] = 0 /\ since'[f] \in log'
        BY <1>2, <1>3, <2>3, <3>5
      <3>7. \A x \in log', z \in batch'[f] : since'[f] < x /\ x < z => x \in batch'[f]
        BY <2>3, <3>3, <3>5
      <3> QED BY <3>1, <3>4, <3>5, <3>6, <3>7 DEF Streaming
    <2>8. Counted(f)'
      BY <2>2, <2>3, <2>4 DEF Counted, Live
    <2>9. Alerted(f)'
      <3> SUFFICES ASSUME NEW x \in trail, x > e
                   PROVE  x \in unfired \/ x \in batch[f] \/ woken[f]
        <4>1. \A x \in Select(trail, since[f], sinceMS[f])' : x \in trail /\ x > e
          <5>1. Select(trail, since[f], sinceMS[f])' = {x \in trail' : x > e}
            BY <2>3 DEF Select
          <5> QED BY <1>1, <5>1 DEF trailVars
        <4>2. \A x \in trail : x > e => x # e
          BY <2>2
        <4> QED BY <1>1, <2>3, <4>1, <4>2 DEF Alerted, trailVars
      <3>1. x \in 1..written /\ e \in 1..written /\ at[x] \in Nat /\ at[e] \in Nat
        BY <1>2, <2>2, TrailAssumption DEF IInv, TypeOK, Events
      <3>2. at[e] <= at[x]
        BY <3>1 DEF IInv, Recorded
      <3>3. e > since[f] /\ (sinceMS[f] = 0 \/ at[e] > sinceMS[f])
        BY <2>2 DEF Streaming, Select
      <3>4. x \in Select(trail, since[f], sinceMS[f])
        BY <2>2, <3>1, <3>2, <3>3 DEF Select
      <3> QED BY <2>2, <3>4 DEF Alerted
    <2> QED BY <1>1, <1>4, <2>5, <2>6, <2>7, <2>8, <2>9, OneStream
  <1> QED BY <1>1, <1>5, <1>6

(* Waiting, being woken and polling move no event.                         *)
LEMMA WaitHolds ==
  ASSUME IInv, NEW f \in Followers, Drained(f) \/ Wake(f) \/ Poll(f)
  PROVE  IInv'
  <1>1. UNCHANGED <<trailVars, daemonVars, askVars, heldVars>>
    BY DEF Drained, Wake, Poll
  <1>2. \/ /\ pc[f] = "writing" /\ batch[f] = {} /\ UNCHANGED woken
           /\ pc' = [pc EXCEPT ![f] = "waiting"]
        \/ /\ pc[f] = "waiting" /\ woken' \in {woken, [woken EXCEPT ![f] = FALSE]}
           /\ pc' = [pc EXCEPT ![f] = "reading"]
    BY DEF Drained, Wake, Poll
  <1>3. TypeOK'
    <2>1. pc' \in [Followers -> {"off", "reading", "writing", "waiting"}]
      BY <1>2 DEF IInv, TypeOK
    <2>2. woken' \in [Followers -> BOOLEAN]
      BY <1>2 DEF IInv, TypeOK
    <2> QED BY <1>1, <2>1, <2>2 DEF IInv, TypeOK, trailVars, daemonVars, askVars, heldVars
  <1>4. /\ pc'[f] \in {"waiting", "reading"} /\ pc[f] # "off" /\ batch[f] = {}
        /\ pc'[f] = "waiting" => pc[f] = "writing" /\ woken'[f] = woken[f]
        /\ \A g \in Followers \ {f} : pc'[g] = pc[g] /\ woken'[g] = woken[g]
    BY <1>2 DEF IInv, TypeOK, Streaming
  <1>5. \A g \in Followers \ {f} : Still(g)
    BY <1>1, <1>4 DEF Still, askVars, heldVars
  <1>6. Handed(f)' /\ Streaming(f)' /\ Counted(f)'
    BY <1>1, <1>4 DEF IInv, Handed, Streaming, Counted, Live, Select, F!Gapless,
                      trailVars, askVars, heldVars
  <1>7. Alerted(f)'
    BY <1>1, <1>4 DEF IInv, Alerted, Select, trailVars, askVars
  <1> QED BY <1>1, <1>3, <1>5, <1>6, <1>7, OneStream

(* A wake-up goes to every stream that may be waiting for it.              *)
LEMMA FireHolds ==
  ASSUME IInv, NEW e \in Events, Fire(e)
  PROVE  IInv'
  <1>1. /\ unfired' = unfired \ {e}
        /\ woken' = [f \in Followers |-> woken[f] \/ Watched(f)]
        /\ UNCHANGED <<written, at, now, trail, saved, log, daemonVars, pc, askVars,
                       heldVars>>
    BY DEF Fire
  <1>2. TypeOK'
    <2>1. woken' \in [Followers -> BOOLEAN]
      BY <1>1 DEF IInv, TypeOK, Watched, Live
    <2> QED BY <1>1, <2>1 DEF IInv, TypeOK, daemonVars, askVars, heldVars
  <1>3. Recorded'
    BY <1>1 DEF IInv, Recorded, F!Gapless
  <1>4. ASSUME NEW f \in Followers
        PROVE  (Handed(f) /\ Streaming(f) /\ Counted(f) /\ Alerted(f))'
    <2>1. Handed(f)' /\ Streaming(f)' /\ Counted(f)'
      BY <1>1 DEF IInv, Handed, Streaming, Counted, Live, Select, F!Gapless, askVars, heldVars
    <2>2. pc'[f] \in {"writing", "waiting"} => woken'[f]
      BY <1>1 DEF Watched, Live
    <2> QED BY <2>1, <2>2 DEF Alerted
  <1> QED BY <1>2, <1>3, <1>4 DEF IInv

(* A consumer that asks begins anew or from the last event it holds.       *)
LEMMA WatchHolds ==
  ASSUME IInv, NEW f \in Followers, NEW id \in {0, last[f]}, NEW q \in Queries[f],
         Watch(f, id, q[1], q[2])
  PROVE  IInv'
  <1>1. /\ pc[f] = "off" /\ (id = 0 \/ (id = last[f] /\ q[1] = 0))
        /\ pc' = [pc EXCEPT ![f] = "reading"]
        /\ since' = [since EXCEPT ![f] = id]
        /\ sinceMS' = [sinceMS EXCEPT ![f] = q[1]]
        /\ left' = [left EXCEPT ![f] = q[2]] /\ limit' = [limit EXCEPT ![f] = q[2]]
        /\ sent' = [sent EXCEPT ![f] = 0]
        /\ woken' = [woken EXCEPT ![f] = FALSE]
        /\ UNCHANGED <<trailVars, daemonVars, batch>>
    BY DEF Watch, Asks, Live
  <1>2. \/ /\ id = 0 /\ last' = [last EXCEPT ![f] = 0]
           /\ got' = [got EXCEPT ![f] = {}]
        \/ id # 0 /\ UNCHANGED heldVars
    BY DEF Watch, Hold
  <1>3. q[1] \in Nat /\ q[2] \in Nat /\ id \in 0..written
    BY TrailAssumption DEF IInv, TypeOK
  <1>4. last' \in [Followers -> 0..written] /\ got' \in [Followers -> SUBSET (1..written)]
    BY <1>2, <1>3 DEF IInv, TypeOK, heldVars
  <1>5. TypeOK'
    <2>1. woken' \in [Followers -> BOOLEAN]
      BY <1>1 DEF IInv, TypeOK
    <2>2. since' \in [Followers -> 0..written] /\ sinceMS' \in [Followers -> Nat]
      BY <1>1, <1>3 DEF IInv, TypeOK
    <2>3. left' \in [Followers -> Nat] /\ limit' \in [Followers -> Nat]
      BY <1>1, <1>3 DEF IInv, TypeOK
    <2>4. /\ pc' \in [Followers -> {"off", "reading", "writing", "waiting"}]
          /\ sent' \in [Followers -> Nat]
      BY <1>1 DEF IInv, TypeOK
    <2> QED BY <1>1, <1>4, <2>1, <2>2, <2>3, <2>4 DEF IInv, TypeOK, trailVars, daemonVars
  <1>6. \A g \in Followers \ {f} : Still(g)
    BY <1>1, <1>2 DEF IInv, TypeOK, Still, heldVars
  <1>7. /\ pc'[f] = "reading" /\ since'[f] = id /\ sinceMS'[f] = q[1]
        /\ left'[f] = q[2] /\ limit'[f] = q[2] /\ sent'[f] = 0 /\ batch'[f] = {}
        /\ IF id = 0 THEN last'[f] = 0 /\ got'[f] = {}
           ELSE last'[f] = last[f] /\ got'[f] = got[f]
    BY <1>1, <1>2 DEF IInv, TypeOK, Streaming, heldVars
  <1>8. Handed(f)'
    BY <1>1, <1>7 DEF IInv, Handed, F!Gapless, trailVars
  <1>9. Streaming(f)' /\ Counted(f)' /\ Alerted(f)'
    BY <1>1, <1>3, <1>7 DEF Streaming, Counted, Alerted, Live, F!Gapless
  <1> QED BY <1>1, <1>5, <1>6, <1>8, <1>9, OneStream

(* A bounded read keeps what is oldest.                                    *)
LEMMA OldestKeepsOldest ==
  ASSUME NEW k \in Nat, NEW T \in SUBSET (1..k), NEW n \in Nat
  PROVE  /\ Oldest(T, n) \subseteq T
         /\ \A z \in Oldest(T, n), x \in T : x < z => x \in Oldest(T, n)
  <1> DEFINE UpTo(e) == {x \in T : x <= e}
  <1>1. IsFiniteSet(T)
    <2>1. T \in SUBSET Nat /\ \A s \in T : s <= k
      OBVIOUS
    <2> QED BY <2>1, FS_BoundedSetOfNaturals
  <1>2. \A e \in T : IsFiniteSet(UpTo(e)) /\ Cardinality(UpTo(e)) \in Nat
    BY <1>1, FS_Subset, FS_CardinalityType
  <1>3. Oldest(T, n) = {e \in T : n = 0 \/ Cardinality(UpTo(e)) <= n}
    BY DEF Oldest
  <1>4. \A x, z \in T : x <= z => UpTo(x) \in SUBSET UpTo(z)
    <2> TAKE x, z \in T
    <2> HAVE x <= z
    <2>1. \A y \in T : y <= x => y <= z
      BY T \in SUBSET Nat
    <2> QED BY <2>1
  <1> HIDE DEF UpTo
  <1>5. ASSUME NEW z \in Oldest(T, n), NEW x \in T, x < z
        PROVE  x \in Oldest(T, n)
    <2>1. z \in T /\ (n = 0 \/ Cardinality(UpTo(z)) <= n)
      BY <1>3
    <2>2. UpTo(x) \in SUBSET UpTo(z)
      BY <1>4, <1>5, <2>1
    <2>3. Cardinality(UpTo(x)) <= Cardinality(UpTo(z))
      BY <1>2, <2>1, <2>2, FS_Subset
    <2> QED BY <1>2, <1>3, <2>1, <2>3
  <1>6. Oldest(T, n) \subseteq T
    BY <1>3
  <1> QED BY <1>5, <1>6

(* What a bounded read hands over: from where it was asked, without a hole.*)
LEMMA ReadOnceHands ==
  ASSUME IInv, NEW f \in Followers, NEW id \in {0, last[f]}, NEW ms \in Nat, NEW n \in Nat,
         Asks(f, id, ms), Carries(trail, id)
  PROVE  LET S == Oldest(Select(trail, id, ms), n) IN
         /\ S \subseteq log
         /\ \A x \in S : id < x
         /\ F!Gapless(S, log)
         /\ id # 0 => /\ id = last[f] /\ id \in got[f] /\ id \in log
                      /\ \A x \in got[f] : x <= id
                      /\ F!Gapless(got[f] \union S, log)
  <1> DEFINE T == Select(trail, id, ms)
             S == Oldest(T, n)
  <1>1. /\ trail \in SUBSET (1..written) /\ log \in SUBSET (1..written) /\ written \in Nat
        /\ got[f] \in SUBSET (1..written) /\ trail \subseteq log /\ id \in Nat
    BY DEF IInv, TypeOK, Recorded
  <1>2. T \in SUBSET (1..written) /\ T \subseteq trail /\ \A x \in T : id < x
    BY <1>1 DEF Select
  <1>3. S \subseteq T /\ \A z \in S, x \in T : x < z => x \in S
    <2> HIDE DEF T
    <2> QED BY <1>1, <1>2, OldestKeepsOldest
  <1>4. ASSUME NEW x \in T, NEW y \in log, x < y PROVE y \in T
    <2>1. x \in trail /\ x \in 1..written /\ y \in 1..written /\ y \in trail
      BY <1>1, <1>2, <1>4 DEF IInv, Recorded
    <2>2. at[x] \in Nat /\ at[y] \in Nat /\ at[x] <= at[y]
      <3>1. x \in Events /\ y \in Events
        BY <2>1, TrailAssumption DEF IInv, TypeOK, Events
      <3> QED BY <1>4, <2>1, <3>1 DEF IInv, TypeOK, Recorded
    <2> QED BY <1>1, <1>4, <2>1, <2>2 DEF Select
  <1>5. id # 0 => id = last[f] /\ ms = 0 /\ id \in trail
    BY DEF Asks, Carries
  <1>6. id # 0 => \A y \in log : id < y => y \in T
    BY <1>5 DEF IInv, Recorded, Select
  <1> HIDE DEF T, S
  <1>7. F!Gapless(S, log)
    BY <1>3, <1>4 DEF F!Gapless
  <1>8. ASSUME id # 0
        PROVE  /\ id = last[f] /\ id \in got[f] /\ id \in log
               /\ \A x \in got[f] : x <= id
               /\ F!Gapless(got[f] \union S, log)
    <2>1. id = last[f] /\ id \in got[f] /\ id \in log /\ \A x \in got[f] : x <= id
      BY <1>1, <1>5, <1>8 DEF IInv, Handed
    <2>2. ASSUME NEW x \in log, NEW y \in got[f] \union S, NEW z \in got[f] \union S, y < x, x < z
          PROVE  x \in got[f] \union S
      <3>1. x \in 1..written /\ z \in 1..written /\ y \in 1..written
        BY <1>1, <1>2, <1>3
      <3>2. CASE x <= id
        <4>1. y \in got[f]
          BY <1>2, <1>3, <2>2, <3>1, <3>2, <1>1
        <4> QED BY <1>1, <2>1, <2>2, <3>1, <3>2, <4>1 DEF IInv, Handed, F!Gapless
      <3>3. CASE id < x
        <4>1. x \in T
          BY <1>6, <1>8, <3>3
        <4>2. z \in S
          BY <1>1, <2>1, <2>2, <3>1, <3>3
        <4> QED BY <1>3, <2>2, <4>1, <4>2
      <3> QED BY <1>1, <3>1, <3>2, <3>3
    <2> QED BY <2>1, <2>2 DEF F!Gapless
  <1>9. S \subseteq log /\ \A x \in S : id < x
    BY <1>1, <1>2, <1>3
  <1> QED BY <1>7, <1>8, <1>9 DEF S, T

LEMMA ReadOnceHolds ==
  ASSUME IInv, NEW f \in Followers, NEW id \in {0, last[f]}, NEW q \in Queries[f],
         ReadOnce(f, id, q[1], q[2])
  PROVE  IInv'
  <1> DEFINE S == Oldest(Select(trail, id, q[1]), q[2])
  <1>0. q[1] \in Nat /\ q[2] \in Nat
    BY TrailAssumption
  <1>1. pc[f] = "off" /\ Asks(f, id, q[1]) /\ UNCHANGED <<trailVars, daemonVars, streamVars>>
    BY DEF ReadOnce, Live
  <1>2. CASE UNCHANGED heldVars
    <2>1. TypeOK'
      BY <1>1, <1>2 DEF IInv, TypeOK, trailVars, daemonVars, streamVars, askVars, heldVars
    <2>2. \A g \in Followers : Still(g)
      BY <1>1, <1>2 DEF Still, streamVars, askVars, heldVars
    <2>3. (Handed(f) /\ Streaming(f) /\ Counted(f) /\ Alerted(f))'
      BY <1>1, <2>2, StillHolds
    <2> QED BY <1>1, <2>1, <2>2, <2>3, OneStream
  <1>3. CASE Carries(trail, id) /\ ~UNCHANGED heldVars
    <2>1. /\ got' = [got EXCEPT ![f] = IF id = 0 THEN S ELSE @ \union S]
          /\ \/ S = {} /\ last' = [last EXCEPT ![f] = id]
             \/ \E e \in S : (\A x \in S : x <= e) /\ last' = [last EXCEPT ![f] = e]
      BY <1>3 DEF ReadOnce
    <2>2. /\ S \subseteq log
          /\ \A x \in S : id < x
          /\ F!Gapless(S, log)
          /\ id # 0 => /\ id = last[f] /\ id \in got[f]
                       /\ \A x \in got[f] : x <= id
                       /\ F!Gapless(got[f] \union S, log)
      BY <1>0, <1>1, <1>3, ReadOnceHands
    <2> HIDE DEF S
    <2>3. /\ log \in SUBSET (1..written) /\ id \in 0..written /\ written \in Nat
          /\ S \in SUBSET (1..written) /\ got[f] \in SUBSET (1..written)
      BY <2>2 DEF IInv, TypeOK
    <2>4. /\ last' \in [Followers -> 0..written] /\ got' \in [Followers -> SUBSET (1..written)]
          /\ \A g \in Followers \ {f} : last'[g] = last[g] /\ got'[g] = got[g]
          /\ got'[f] = IF id = 0 THEN S ELSE got[f] \union S
          /\ \/ S = {} /\ last'[f] = id
             \/ last'[f] \in S /\ \A x \in S : x <= last'[f]
      BY <2>1, <2>3 DEF IInv, TypeOK
    <2>5. Handed(f)'
      <3>1. F!Gapless(got[f], log)'
        <4>1. F!Gapless(got'[f], log)
          BY <2>2, <2>4
        <4> QED BY <1>1, <4>1 DEF F!Gapless, trailVars
      <3>2. \/ last'[f] = 0 /\ got'[f] = {}
            \/ last'[f] \in got'[f] /\ \A x \in got'[f] : x <= last'[f]
        <4>1. CASE id = 0
          BY <2>4, <4>1
        <4>2. CASE id # 0 /\ S = {}
          BY <2>2, <2>4, <4>2
        <4>3. CASE id # 0 /\ S # {}
          <5>1. last'[f] \in S /\ (\A x \in S : x <= last'[f]) /\ got'[f] = got[f] \union S
            BY <2>4, <4>3
          <5>2. \A x \in got[f] : x <= last'[f]
            <6>1. /\ last'[f] \in 1..written /\ id < last'[f]
                  /\ \A x \in got[f] : x \in 1..written /\ x <= id
              BY <2>2, <2>3, <4>3, <5>1
            <6> QED BY <2>3, <6>1
          <5> QED BY <5>1, <5>2
        <4> QED BY <4>1, <4>2, <4>3
      <3> QED BY <3>1, <3>2 DEF Handed
    <2>6. TypeOK'
      BY <1>1, <2>4 DEF IInv, TypeOK, trailVars, daemonVars, streamVars, askVars
    <2>7. \A g \in Followers \ {f} : Still(g)
      BY <1>1, <2>4 DEF Still, streamVars, askVars
    <2>8. Streaming(f)' /\ Counted(f)' /\ Alerted(f)'
      BY <1>1 DEF IInv, Streaming, Counted, Alerted, Live, Select, F!Gapless,
                  trailVars, streamVars, askVars
    <2> QED BY <1>1, <2>5, <2>6, <2>7, <2>8, OneStream
  <1> QED BY <1>2, <1>3 DEF ReadOnce

(* A start loads a run of the history without a hole.                      *)
LEMMA RestartHolds ==
  ASSUME IInv, Restart
  PROVE  IInv'
  <1>1. /\ trail' = saved /\ log' = {x \in log : \E y \in saved : x <= y}
        /\ saved' = saved /\ written' = written /\ at' = at /\ now' = now
        /\ last' = last /\ got' = got
        /\ pc' = [f \in Followers |-> "off"]
        /\ batch' = [f \in Followers |-> {}]
    BY DEF Restart, heldVars
  <1>2. log \in SUBSET (1..written) /\ saved \in SUBSET (1..written) /\ saved \subseteq log
    BY DEF IInv, TypeOK, Recorded
  <1>3. TypeOK'
    <2>1. log' \subseteq 1..written'
      BY <1>1, <1>2
    <2>2. restarts' \in 0..MaxRestarts
      BY TrailAssumption DEF IInv, TypeOK, Restart
    <2>3. /\ pc' \in [Followers -> {"off", "reading", "writing", "waiting"}]
          /\ woken' \in [Followers -> BOOLEAN]
      BY DEF Restart
    <2>4. /\ since' \in [Followers -> 0..written] /\ sinceMS' \in [Followers -> Nat]
          /\ batch' \in [Followers -> SUBSET (1..written)]
          /\ left' \in [Followers -> Nat] /\ limit' \in [Followers -> Nat]
          /\ sent' \in [Followers -> Nat]
      BY DEF Restart, IInv, TypeOK
    <2>5. unfired' = {} /\ stopping' = FALSE
      BY DEF Restart
    <2> QED BY <1>1, <1>2, <2>1, <2>2, <2>3, <2>4, <2>5 DEF IInv, TypeOK
  <1>4. Recorded'
    <2>1. saved' \subseteq log' /\ trail' \subseteq log'
      BY <1>1, <1>2
    <2>2. ASSUME NEW x \in saved, NEW y \in log', x < y PROVE y \in saved
      <3>1. PICK z \in saved : y <= z
        BY <1>1
      <3>2. CASE y = z
        BY <3>1, <3>2
      <3>3. CASE y < z
        BY <1>1, <2>2, <3>3 DEF IInv, Recorded, F!Gapless
      <3> QED BY <1>1, <1>2, <3>1, <3>2, <3>3
    <2>3. F!Gapless(saved, log)'
      BY <1>1 DEF IInv, Recorded, F!Gapless
    <2> QED BY <1>1, <2>1, <2>2, <2>3 DEF IInv, Recorded
  <1>5. ASSUME NEW f \in Followers
        PROVE  (Handed(f) /\ Streaming(f) /\ Counted(f) /\ Alerted(f))'
    <2>1. pc'[f] = "off" /\ batch'[f] = {}
      BY <1>1
    <2>2. Handed(f)'
      BY <1>1 DEF IInv, Handed, F!Gapless
    <2> QED BY <2>1, <2>2 DEF Streaming, Counted, Alerted, Live, F!Gapless
  <1> QED BY <1>3, <1>4, <1>5 DEF IInv

(* A consumer that leaves, a daemon that ends and one that is told to.     *)
LEMMA LeaveHolds ==
  ASSUME IInv, NEW f \in Followers, Leave(f) \/ Dismiss(f)
  PROVE  IInv'
  <1>1. End(f) /\ UNCHANGED <<trailVars, daemonVars, heldVars>>
    BY DEF Leave, Dismiss
  <1>2. Handed(f)'
    BY <1>1 DEF IInv, Handed, trailVars, heldVars, F!Gapless
  <1> QED BY <1>1, <1>2, EndHolds DEF IInv, TypeOK, heldVars

LEMMA StopHolds ==
  ASSUME IInv, Stop \/ UNCHANGED vars
  PROVE  IInv'
  <1>1. UNCHANGED <<trailVars, restarts, streamVars, heldVars>> /\ stopping' \in BOOLEAN
    BY DEF Stop, vars, daemonVars, IInv, TypeOK
  <1>2. TypeOK'
    BY <1>1 DEF IInv, TypeOK, trailVars, streamVars, askVars, heldVars
  <1>3. Recorded'
    BY <1>1 DEF IInv, Recorded, trailVars, F!Gapless
  <1>4. \A g \in Followers : (Handed(g) /\ Streaming(g) /\ Counted(g) /\ Alerted(g))'
    BY <1>1, StillHolds DEF Still, streamVars, askVars, heldVars
  <1> QED BY <1>2, <1>3, <1>4 DEF IInv

LEMMA StepHolds == IInv /\ [Next]_vars => IInv'
  <1> SUFFICES ASSUME IInv, [Next]_vars PROVE IInv'
    OBVIOUS
  <1>1. ASSUME NEW ms \in now..MaxMS, NEW ok \in BOOLEAN, Emit(ms, ok) PROVE IInv'
    BY <1>1, EmitHolds
  <1>2. ASSUME NEW e \in Events, Fire(e) PROVE IInv'
    BY <1>2, FireHolds
  <1>3. ASSUME NEW f \in Followers, Streams(f) PROVE IInv'
    BY <1>3, ReadHolds, WriteHolds, WaitHolds, LeaveHolds DEF Streams
  <1>4. ASSUME NEW f \in Followers, Consumer(f) PROVE IInv'
    <2>1. CASE Leave(f)
      BY <2>1, LeaveHolds
    <2>2. ASSUME NEW id \in {0, last[f]}, NEW q \in Queries[f],
                 Watch(f, id, q[1], q[2]) \/ ReadOnce(f, id, q[1], q[2])
          PROVE  IInv'
      BY <2>2, WatchHolds, ReadOnceHolds
    <2> QED BY <1>4, <2>1, <2>2 DEF Consumer
  <1>5. CASE Stop \/ UNCHANGED vars
    BY <1>5, StopHolds
  <1>6. CASE Restart
    BY <1>6, RestartHolds
  <1> QED BY <1>1, <1>2, <1>3, <1>4, <1>5, <1>6 DEF Next

THEOREM TrailInvariant == Spec => []IInv
  BY InitHolds, StepHolds, PTL DEF Spec

-----------------------------------------------------------------------------
(* Every variable keeps its type, and no event has a number not yet given, *)
(* for any number of events, followers, queries and restarts.              *)
THEOREM TrailTypeCorrect == Spec => []TypeOK
  <1>1. IInv => TypeOK
    BY DEF IInv
  <1> QED BY <1>1, TrailInvariant, PTL

(* Rotation and restarts never leave a hole: memory holds the newest of    *)
(* the history, within MaxEvents, and the document a run of it             *)
(* (store.Rotate, emitLockedAs).                                           *)
THEOREM TrailStaysNewest == Spec => []TrailIsNewest
  <1>1. IInv => TrailIsNewest
    BY DEF IInv, Recorded, TrailIsNewest
  <1> QED BY <1>1, TrailInvariant, PTL

(* A stream that waits over an event it has not read holds its wake-up,    *)
(* however many are dropped (watchers.wake, stream).                       *)
THEOREM WakeUpsAreKept == Spec => []NoLostWakeUp
  <1>1. IInv => NoLostWakeUp
    BY DEF IInv, Streaming, Alerted, NoLostWakeUp
  <1> QED BY <1>1, TrailInvariant, PTL

(* A limited stream hands over no more than it was asked for, over however *)
(* many reads, and ends with the last of them (daemon.stream).             *)
THEOREM LimitHolds == Spec => LimitBoundsTheStream
  <1>1. ASSUME IInv, Next, NEW f \in Followers, last'[f] # last[f], Live(f)
        PROVE  /\ limit[f] # 0 => sent[f] < limit[f]
               /\ pc'[f] = "off" => limit[f] = sent[f] + 1
    <2>1. Write(f)
      <3>1. ASSUME NEW g \in Followers, Write(g) PROVE g = f
        BY <1>1, <3>1 DEF Write, IInv, TypeOK
      <3>2. ASSUME NEW g \in Followers, Consumer(g) PROVE FALSE
        <4>1. CASE g = f
          BY <1>1, <3>2, <4>1 DEF Consumer, Leave, Watch, ReadOnce, heldVars
        <4>2. CASE g # f
          BY <1>1, <3>2, <4>2 DEF Consumer, Leave, Watch, Hold, ReadOnce, heldVars, IInv, TypeOK
        <4> QED BY <4>1, <4>2
      <3>3. ASSUME NEW g \in Followers, Streams(g) PROVE g = f /\ Write(f)
        BY <1>1, <3>1, <3>3 DEF Streams, Read, Drained, Wake, Poll, Dismiss, heldVars
      <3>4. ~Restart /\ ~Stop
        BY <1>1 DEF Restart, Stop, heldVars
      <3>5. \A ms, ok : ~Emit(ms, ok)
        BY <1>1 DEF Emit, heldVars
      <3>6. \A e : ~Fire(e)
        BY <1>1 DEF Fire, heldVars
      <3> QED BY <1>1, <3>2, <3>3, <3>4, <3>5, <3>6 DEF Next
    <2>2. /\ left[f] \in Nat /\ sent[f] \in Nat /\ limit[f] \in Nat
          /\ limit[f] # 0 => left[f] # 0 /\ left[f] + sent[f] = limit[f]
      BY <1>1 DEF IInv, TypeOK, Counted
    <2>3. pc'[f] = "off" => limit[f] # 0 /\ left[f] = 1
      BY <1>1, <2>1 DEF Write, Exhausted, Live
    <2> QED BY <2>2, <2>3
  <1>2. IInv /\ [Next]_vars => 
          [\A f \in Followers :
             last'[f] # last[f] /\ Live(f) =>
               /\ limit[f] # 0 => sent[f] < limit[f]
               /\ pc'[f] = "off" => limit[f] = sent[f] + 1]_vars
    BY <1>1
  <1> QED BY <1>2, TrailInvariant, PTL DEF Spec, LimitBoundsTheStream

-----------------------------------------------------------------------------
(* Each step is one of the feed's, or is not seen by a consumer.           *)

LEMMA EmitPublishes ==
  ASSUME IInv, NEW ms \in now..MaxMS, NEW ok \in BOOLEAN, Emit(ms, ok)
  PROVE  \E e \in Events : F!Publish(e)
  <1>1. written \in Nat /\ written + 1 \in Events /\ log \in SUBSET (1..written)
    BY TrailAssumption DEF IInv, TypeOK, Emit, Events
  <1>2. \A f \in Followers : got[f] \in SUBSET (1..written)
    BY DEF IInv, TypeOK
  <1>3. log' = log \union {written + 1} /\ got' = got
    BY DEF Emit, heldVars
  <1>4. \A x \in 1..written : x < written + 1
    BY <1>1
  <1>5. F!Publish(written + 1)
    BY <1>1, <1>2, <1>3, <1>4 DEF F!Publish
  <1> QED BY <1>1, <1>5

LEMMA RestartLoses ==
  ASSUME IInv, Restart
  PROVE  UNCHANGED F!feedVars \/ \E n \in Events : F!Lose(n)
  <1>1. log' = {x \in log : \E y \in saved : x <= y} /\ got' = got
    BY DEF Restart, heldVars
  <1>2. /\ written \in Nat /\ written <= MaxWritten /\ MaxWritten \in Nat
        /\ saved \in SUBSET (1..written)
        /\ \A x \in log : x \in Nat /\ 1 <= x /\ x <= written
    BY TrailAssumption DEF IInv, TypeOK
  <1>3. CASE saved = {} /\ log = {}
    BY <1>1, <1>3 DEF F!feedVars
  <1>4. CASE saved = {} /\ log # {}
    <2>1. 1 \in Events
      <3>1. PICK x \in log : TRUE
        BY <1>4
      <3> QED BY <1>2, <3>1 DEF Events
    <2>2. {x \in log : x < 1} = {} /\ log' = {}
      BY <1>1, <1>2, <1>4
    <2> QED BY <1>1, <2>1, <2>2 DEF F!Lose
  <1>5. CASE saved # {}
    <2>1. PICK m \in saved : \A x \in saved : x <= m
      BY <1>2, <1>5, Greatest
    <2>2. m \in Nat /\ 1 <= m /\ m <= MaxWritten
      BY <1>2
    <2>3. ASSUME NEW x \in log PROVE (\E y \in saved : x <= y) <=> x <= m
      <3>1. \A y \in saved : y \in Nat /\ y <= m
        BY <1>2, <2>1
      <3> QED BY <1>2, <2>2, <3>1
    <2>4. CASE m < MaxWritten
      <3>1. \A x \in log : x <= m <=> x < m + 1
        BY <1>2, <2>2
      <3>2. log' = {x \in log : x < m + 1}
        BY <1>1, <2>3, <3>1
      <3>3. m + 1 \in Events
        BY <1>2, <2>2, <2>4 DEF Events
      <3> QED BY <1>1, <3>2, <3>3 DEF F!Lose
    <2>5. CASE m = MaxWritten
      <3>1. \A x \in log : x <= m
        BY <1>2, <2>2, <2>5
      <3>2. log' = log
        BY <1>1, <2>3, <3>1
      <3> QED BY <1>1, <3>2 DEF F!feedVars
    <2> QED BY <1>2, <2>2, <2>4, <2>5
  <1> QED BY <1>3, <1>4, <1>5

LEMMA WriteIsHand ==
  ASSUME IInv, NEW f \in Followers, Write(f)
  PROVE  \E S \in SUBSET log : F!Hand(f, S)
  <1>1. PICK e \in batch[f] :
          /\ pc[f] = "writing" /\ \A x \in batch[f] : e <= x
          /\ got' = [got EXCEPT ![f] = @ \union {e}] /\ log' = log
    BY DEF Write, trailVars
  <1>2. /\ e \in log
        /\ \A x \in got[f] : x < e
        /\ got[f] = {} \/ (last[f] \in got[f] /\ last[f] \in log)
        /\ F!Gapless(got[f] \union {e}, log)
    BY <1>1, WriteHands
  <1>3. F!Resumable(f)
    BY <1>2 DEF F!Resumable, IInv, Handed
  <1>4. F!Hand(f, {e})
    BY <1>1, <1>2, <1>3 DEF F!Hand
  <1> QED BY <1>2, <1>4

LEMMA AskIsBeginOrHand ==
  ASSUME IInv, NEW f \in Followers, NEW id \in {0, last[f]}, NEW q \in Queries[f],
         Watch(f, id, q[1], q[2]) \/ ReadOnce(f, id, q[1], q[2])
  PROVE  \/ UNCHANGED F!feedVars
         \/ \E S \in SUBSET log : F!Begin(f, S) \/ F!Hand(f, S)
  <1>1. log' = log /\ Asks(f, id, q[1]) /\ q[1] \in Nat /\ q[2] \in Nat
    BY TrailAssumption DEF Watch, ReadOnce, trailVars
  <1>2. CASE Watch(f, id, q[1], q[2])
    <2>1. CASE id = 0
      <3>1. F!Begin(f, {})
        BY <1>1, <1>2, <2>1 DEF Watch, Hold, F!Begin, F!Gapless
      <3> QED BY <3>1
    <2>2. CASE id # 0
      BY <1>1, <1>2, <2>2 DEF Watch, Hold, heldVars, F!feedVars
    <2> QED BY <2>1, <2>2
  <1>3. CASE ReadOnce(f, id, q[1], q[2]) /\ Carries(trail, id)
    <2> DEFINE S == Oldest(Select(trail, id, q[1]), q[2])
    <2>1. got' = [got EXCEPT ![f] = IF id = 0 THEN S ELSE @ \union S]
      BY <1>3 DEF ReadOnce
    <2>2. /\ S \subseteq log
          /\ \A x \in S : id < x
          /\ F!Gapless(S, log)
          /\ id # 0 => /\ id = last[f] /\ id \in got[f] /\ id \in log
                       /\ \A x \in got[f] : x <= id
                       /\ F!Gapless(got[f] \union S, log)
      BY <1>1, <1>3, ReadOnceHands
    <2> HIDE DEF S
    <2>3. CASE id = 0
      <3>1. F!Begin(f, S)
        BY <1>1, <2>1, <2>2, <2>3 DEF F!Begin
      <3> QED BY <2>2, <3>1
    <2>4. CASE id # 0
      <3>1. F!Resumable(f)
        BY <2>2, <2>4 DEF F!Resumable
      <3>2. \A x \in got[f], e \in S : x < e
        <4>1. got[f] \in SUBSET (1..written) /\ S \in SUBSET (1..written) /\ id \in 0..written
          BY <2>2 DEF IInv, TypeOK
        <4>2. \A x \in got[f], e \in S : x <= id /\ id < e
          BY <2>2, <2>4
        <4> QED BY <4>1, <4>2
      <3>3. F!Hand(f, S)
        BY <1>1, <2>1, <2>2, <2>4, <3>1, <3>2 DEF F!Hand
      <3> QED BY <2>2, <3>3
    <2> QED BY <2>3, <2>4
  <1>4. CASE ReadOnce(f, id, q[1], q[2]) /\ ~Carries(trail, id)
    BY <1>1, <1>4 DEF ReadOnce, heldVars, F!feedVars
  <1> QED BY <1>2, <1>3, <1>4

LEMMA StepIsFeedStep == IInv /\ [Next]_vars => [F!Next]_(F!feedVars)
  <1> SUFFICES ASSUME IInv, [Next]_vars PROVE [F!Next]_(F!feedVars)
    OBVIOUS
  <1>1. ASSUME NEW ms \in now..MaxMS, NEW ok \in BOOLEAN, Emit(ms, ok)
        PROVE  F!Next
    BY <1>1, EmitPublishes DEF F!Next
  <1>2. ASSUME NEW e \in Events, Fire(e) PROVE UNCHANGED F!feedVars
    BY <1>2 DEF Fire, heldVars, F!feedVars
  <1>3. ASSUME NEW f \in Followers, Streams(f) PROVE [F!Next]_(F!feedVars)
    <2>1. CASE Write(f)
      BY <2>1, WriteIsHand DEF F!Next
    <2>2. CASE Read(f) \/ Drained(f) \/ Wake(f) \/ Poll(f) \/ Dismiss(f)
      BY <2>2 DEF Read, Drained, Wake, Poll, Dismiss, trailVars, heldVars, F!feedVars
    <2> QED BY <1>3, <2>1, <2>2 DEF Streams
  <1>4. ASSUME NEW f \in Followers, Consumer(f) PROVE [F!Next]_(F!feedVars)
    <2>1. CASE Leave(f)
      BY <2>1 DEF Leave, trailVars, heldVars, F!feedVars
    <2>2. ASSUME NEW id \in {0, last[f]}, NEW q \in Queries[f],
                 Watch(f, id, q[1], q[2]) \/ ReadOnce(f, id, q[1], q[2])
          PROVE  [F!Next]_(F!feedVars)
      BY <2>2, AskIsBeginOrHand DEF F!Next
    <2> QED BY <1>4, <2>1, <2>2 DEF Consumer
  <1>5. CASE Stop \/ UNCHANGED vars
    BY <1>5 DEF Stop, vars, trailVars, heldVars, F!feedVars
  <1>6. CASE Restart
    BY <1>6, RestartLoses DEF F!Next
  <1> QED BY <1>1, <1>2, <1>3, <1>4, <1>5, <1>6 DEF Next

(* The daemon and its followers implement the feed: whatever is rotated,   *)
(* dropped, lost in a crash or resumed, no consumer misses an event        *)
(* between two it was handed, nor is handed one twice.                     *)
THEOREM FeedIsKept == Spec => Promise
  <1>1. Init => F!Init
    BY DEF Init, F!Init
  <1>2. Spec => F!Spec
    BY <1>1, TrailInvariant, StepIsFeedStep, PTL DEF Spec, F!Spec
  <1> QED BY <1>2 DEF Promise
=============================================================================
