--------------------------- MODULE AgentLoopProofs ---------------------------
(***************************************************************************)
(* Proofs about the agent loop: NodeSession, the turns of a session, and   *)
(* RequestRetry, one request of a turn.                                    *)
(*                                                                         *)
(* NodeSession, for every set of rejections and every limit: its variables *)
(* keep their domains, repairs cannot buy turns forever, forced requests   *)
(* are bounded, and the override of max_tokens only grows; and of the      *)
(* stall rules, a session that makes progress is not condemned and one     *)
(* that is stuck is stopped.  Both count the places of the window, which   *)
(* forgets its oldest call with each new one.                              *)
(*                                                                         *)
(* RequestRetry, for every limit, every set of exceptions and every pair   *)
(* of clocks: in which two cases a request that may have been served is    *)
(* sent again, a retry starts inside its limits and after the pause it was *)
(* asked for, and once the run must stop nothing more goes out than what   *)
(* was already decided on.  Its invariant ties the attempts of the request *)
(* to where the loop is: an attempt that is to be followed by another one  *)
(* was read as rejected, has been waited for, and is among the retries     *)
(* still allowed.                                                          *)
(***************************************************************************)
EXTENDS NodeSession, RequestRetry, SequenceTheorems, FiniteSetTheorems, TLAPS

Slots == [sig : Signatures \cup {Success}, repair : BOOLEAN]
Counts == Nat \cup {NoCount}

(* TypeOK, one part for each group of variables. *)
TypeCounters ==
  /\ turns \in 0..MaxTurns /\ calls \in 0..MaxCalls /\ batch \in 0..MaxBatch
  /\ truncated \in 0..turns /\ forced \in 0..turns

TypeLoop ==
  /\ status \in {"running", "committed", "stalled", "truncation stall",
                 "loop limit"}
  /\ answering \in BOOLEAN /\ correction \in BOOLEAN
  /\ stall \in {"no", "repeat", "window"} /\ culprit \in Signatures \cup {Success}

TypeDetector ==
  /\ window \in Seq(Slots) /\ Len(window) <= Window
  /\ best \in [Keys -> Counts] /\ first \in [Keys -> Counts]
  /\ repairs \in [Keys -> Nat]
  /\ corrected \subseteq Signatures /\ met \subseteq Keys
  /\ saturated \in BOOLEAN /\ productive \in BOOLEAN /\ idle \in BOOLEAN

TypeRecovery ==
  /\ force \in BOOLEAN /\ refused \in BOOLEAN
  /\ limit \in Nat \cup {NoLimit}

(* A repair lowers `best`, which started at `first`. *)
RepairsLowerBest ==
  \A k \in Keys :
    /\ best[k] = NoCount <=> first[k] = NoCount
    /\ IF best[k] = NoCount THEN repairs[k] = 0
                            ELSE repairs[k] + best[k] <= first[k]

(* Each forced request answers a truncation that did not end the session. *)
ForcesAnswerTruncations ==
  /\ LET owed == IF force THEN forced + 1 ELSE forced
     IN owed <= truncated /\ owed < MaxTruncated
  /\ refused => ~force

IInv == TypeCounters /\ TypeLoop /\ TypeDetector /\ TypeRecovery /\ RepairsLowerBest
          /\ ForcesAnswerTruncations

-----------------------------------------------------------------------------
(* Facts about the helpers *)

\* SessionAssumption, one fact for each constant.
LEMMA LimitTypes ==
  /\ MaxTurns \in Nat /\ MaxTurns > 0 /\ MaxCalls \in Nat /\ MaxBatch \in Nat
  /\ MaxTruncated \in Nat /\ MaxTruncated > 0 /\ Window \in Nat
  /\ NoLimit \notin Nat /\ NoCount \notin Nat
  /\ KeyOf \in [Signatures -> Keys]
  /\ CountOf \in [Signatures -> Nat \cup {NoCount}]
  BY SessionAssumption DEF SessionAssumption

\* The window stays a sequence of at most Window slots.
LEMMA PushType ==
  ASSUME TypeDetector, NEW sig \in Signatures \cup {Success},
         NEW repair \in BOOLEAN
  PROVE  /\ Push(sig, repair) \in Seq(Slots)
         /\ Len(Push(sig, repair)) <= Window
<1> DEFINE slot == [sig |-> sig, repair |-> repair]
<1> DEFINE longer == Append(window, slot)
<1>1. slot \in Slots
  BY DEF Slots
<1>2. longer \in Seq(Slots) /\ Len(longer) = Len(window) + 1
  BY <1>1 DEF TypeDetector
<1>3. CASE Len(longer) > Window
  <2>1. longer # << >>
    BY <1>2 DEF TypeDetector
  <2>2. Tail(longer) \in Seq(Slots) /\ Len(Tail(longer)) = Len(window)
    BY <1>2, <2>1
  <2>3. Push(sig, repair) = Tail(longer)
    BY <1>3 DEF Push
  <2> QED
    BY <2>2, <2>3 DEF TypeDetector
<1>4. CASE ~(Len(longer) > Window)
  <2>1. Push(sig, repair) = longer
    BY <1>4 DEF Push
  <2> QED
    BY <1>2, <1>4, <2>1, SessionAssumption DEF TypeDetector, SessionAssumption
<1> QED
  BY <1>3, <1>4

\* Backing off raises the limit, to at most the ceiling, or leaves it alone.
LEMMA BackoffRaises ==
  ASSUME limit \in Nat \cup {NoLimit}, NEW length \in Lengths, Backoff(length)
  PROVE  \/ limit' = limit
         \/ /\ limit' \in Nat /\ limit' <= Ceiling
            /\ limit # NoLimit => limit' > limit
<1> DEFINE current == IF limit # NoLimit THEN limit ELSE length
<1>1. CASE Ceiling # NoLimit /\ current # NoLimit /\ Raised(current) > current
  <2>1. limit' = Raised(current)
    BY <1>1 DEF Backoff
  <2>2. current \in Nat /\ Ceiling \in Nat
    BY <1>1, SessionAssumption DEF SessionAssumption
  <2>3. Raised(current) \in Nat /\ Raised(current) <= Ceiling
    BY <2>2 DEF Raised
  <2> QED
    BY <1>1, <2>1, <2>3
<1>2. CASE ~(Ceiling # NoLimit /\ current # NoLimit /\ Raised(current) > current)
  BY <1>2 DEF Backoff
<1> QED
  BY <1>1, <1>2

\* One turn more, and the force it consumed is counted.
LEMMA RequestEffect ==
  ASSUME IInv, Request
  PROVE  /\ turns' \in 1..MaxTurns /\ turns' = turns + 1
         /\ forced' = (IF force THEN forced + 1 ELSE forced)
         /\ forced' \in 0..turns' /\ forced' <= truncated
         /\ forced' < MaxTruncated
         /\ refused' \in BOOLEAN
<1>1. TypeCounters /\ TypeRecovery /\ ForcesAnswerTruncations
  BY DEF IInv
<1>2. turns' = turns + 1 /\ turns < MaxTurns
  BY DEF Request
<1>3. forced' = (IF force THEN forced + 1 ELSE forced)
  BY DEF Request
<1>4. turns' \in 1..MaxTurns
  BY <1>1, <1>2, LimitTypes DEF TypeCounters
<1>5. forced' \in 0..turns' /\ forced' <= truncated /\ forced' < MaxTruncated
  BY <1>1, <1>2, <1>3, LimitTypes
     DEF TypeCounters, TypeRecovery, ForcesAnswerTruncations
<1>6. refused' \in BOOLEAN
  BY <1>1 DEF TypeRecovery, Request
<1> QED
  BY <1>2, <1>3, <1>4, <1>5, <1>6

-----------------------------------------------------------------------------
(* The invariant *)

LEMMA InitInvariant == Init => IInv
<1> SUFFICES ASSUME Init PROVE IInv
  OBVIOUS
<1>0. TypeCounters
  BY LimitTypes DEF Init, TypeCounters
<1>1. TypeLoop
  BY DEF Init, TypeLoop
<1>2. TypeDetector
  <2>1. window \in Seq(Slots) /\ Len(window) <= Window
    BY LimitTypes DEF Init
  <2> QED
    BY <2>1 DEF Init, TypeDetector, Counts
<1>3. TypeRecovery
  BY DEF Init, TypeRecovery
<1>4. RepairsLowerBest
  BY DEF Init, RepairsLowerBest
<1>5. ForcesAnswerTruncations
  BY LimitTypes DEF Init, ForcesAnswerTruncations
<1> QED
  BY <1>0, <1>1, <1>2, <1>3, <1>4, <1>5 DEF IInv

\* A step that leaves the detector alone keeps its part of the invariant.
LEMMA DetectorAlone ==
  ASSUME TypeDetector, RepairsLowerBest, UNCHANGED detector
  PROVE  TypeDetector' /\ RepairsLowerBest'
  BY DEF TypeDetector, RepairsLowerBest, detector

\* A step that leaves the recovery alone keeps its part of the invariant.
LEMMA RecoveryAlone ==
  ASSUME TypeRecovery, ForcesAnswerTruncations, UNCHANGED recovery
  PROVE  TypeRecovery' /\ ForcesAnswerTruncations'
  BY DEF TypeRecovery, ForcesAnswerTruncations, recovery

LEMMA NextInvariant == IInv /\ [Next]_vars => IInv'
<1> SUFFICES ASSUME IInv, [Next]_vars PROVE IInv'
  OBVIOUS
<1> USE LimitTypes
<1>0. TypeCounters /\ TypeLoop /\ TypeDetector /\ TypeRecovery /\ RepairsLowerBest
        /\ ForcesAnswerTruncations
  BY DEF IInv
<1>1. CASE TurnsExhausted
  <2>0. TypeCounters'
    BY <1>0, <1>1 DEF TurnsExhausted, recovery, TypeCounters
  <2>1. TypeLoop'
    BY <1>0, <1>1 DEF TurnsExhausted, TypeLoop
  <2> QED
    BY <1>0, <2>0, <1>1, <2>1, DetectorAlone, RecoveryAlone DEF TurnsExhausted, IInv
<1>2. CASE ReplyWithCalls
  <2>0. TypeCounters'
    BY <1>0, <1>2, RequestEffect DEF ReplyWithCalls, IInv, TypeCounters
  <2>1. Request
    BY <1>2 DEF ReplyWithCalls
  <2>2. TypeLoop'
    BY <1>0, <1>2, <2>1, RequestEffect DEF ReplyWithCalls, TypeLoop
  <2>3. TypeRecovery'
    BY <1>0, <1>2, <2>1, RequestEffect DEF ReplyWithCalls, TypeRecovery
  <2>4. ForcesAnswerTruncations'
    BY <1>0, <1>2, <2>1, RequestEffect
       DEF ReplyWithCalls, ForcesAnswerTruncations, TypeCounters
  <2> QED
    BY <1>0, <2>0, <1>2, <2>2, <2>3, <2>4, DetectorAlone DEF ReplyWithCalls, IInv
<1>3. CASE ReplyWithoutCalls
  <2>0. TypeCounters'
    BY <1>0, <1>3, RequestEffect DEF ReplyWithoutCalls, IInv, TypeCounters
  <2>1. Request
    BY <1>3 DEF ReplyWithoutCalls
  <2>2. TypeLoop'
    BY <1>0, <1>3, <2>1, RequestEffect DEF ReplyWithoutCalls, TypeLoop
  <2>3. TypeRecovery'
    BY <1>0, <1>3, <2>1, RequestEffect DEF ReplyWithoutCalls, TypeRecovery
  <2>4. ForcesAnswerTruncations'
    BY <1>0, <1>3, <2>1, RequestEffect
       DEF ReplyWithoutCalls, ForcesAnswerTruncations
  <2> QED
    BY <1>0, <2>0, <1>3, <2>2, <2>3, <2>4, DetectorAlone DEF ReplyWithoutCalls, IInv
<1>4. CASE TruncatedWithoutCalls
  <2>1. Request
    BY <1>4 DEF TruncatedWithoutCalls
  <2>2. truncated' = truncated + 1 /\ UNCHANGED <<calls, batch>>
    BY <1>4 DEF TruncatedWithoutCalls
  <2>3. TypeCounters'
    BY <1>0, <2>1, <2>2, RequestEffect DEF TypeCounters
  <2>4. status' \in {status, "truncation stall"}
    BY <1>4 DEF TruncatedWithoutCalls
  <2>5. TypeLoop'
    BY <1>0, <1>4, <2>1, <2>4, RequestEffect DEF TruncatedWithoutCalls, TypeLoop
  <2>6. limit' \in Nat \cup {NoLimit}
    BY <1>0, <1>4, BackoffRaises DEF TruncatedWithoutCalls, TypeRecovery
  <2>7. force' \in BOOLEAN
    BY <1>4 DEF TruncatedWithoutCalls, MayForce
  <2>8. TypeRecovery'
    BY <1>0, <1>4, <2>1, <2>6, <2>7, RequestEffect
       DEF TruncatedWithoutCalls, TypeRecovery
  <2>9. force' => truncated' < MaxTruncated /\ ~refused'
    <3>1. CASE truncated' >= MaxTruncated
      BY <1>4, <3>1 DEF TruncatedWithoutCalls
    <3>2. CASE ~(truncated' >= MaxTruncated)
      <4>1. force' = MayForce
        BY <1>4, <3>2 DEF TruncatedWithoutCalls
      <4>2. truncated' < MaxTruncated
        BY <2>3, <3>2 DEF TypeCounters
      <4> QED
        BY <4>1, <4>2 DEF MayForce
    <3> QED
      BY <3>1, <3>2
  <2>10. ForcesAnswerTruncations'
    BY <1>0, <2>1, <2>7, <2>9, <2>2, RequestEffect
       DEF ForcesAnswerTruncations, TypeCounters
  <2> QED
    BY <1>0, <2>3, <1>4, <2>5, <2>8, <2>10, DetectorAlone
       DEF TruncatedWithoutCalls, IInv
<1>5. CASE CallsExhausted
  <2>0. TypeCounters'
    BY <1>0, <1>5 DEF CallsExhausted, recovery, TypeCounters
  <2>1. TypeLoop'
    BY <1>0, <1>5 DEF CallsExhausted, TypeLoop
  <2> QED
    BY <1>0, <2>0, <1>5, <2>1, DetectorAlone, RecoveryAlone DEF CallsExhausted, IInv
<1>6. CASE Accepted
  <2>0. TypeCounters'
    BY <1>0, <1>6 DEF Accepted, recovery, NextCall, Answering, TypeCounters
  <2>1. TypeLoop'
    BY <1>0, <1>6 DEF Accepted, TypeLoop
  <2>2. TypeDetector'
    BY <1>0, <1>6, PushType DEF Accepted, TypeDetector
  <2>3. RepairsLowerBest'
    BY <1>0, <1>6 DEF Accepted, RepairsLowerBest
  <2> QED
    BY <1>0, <2>0, <1>6, <2>1, <2>2, <2>3, RecoveryAlone DEF Accepted, IInv
<1>7. CASE Commit
  <2>0. TypeCounters'
    BY <1>0, <1>7 DEF Commit, recovery, NextCall, Answering, TypeCounters
  <2>1. TypeLoop'
    BY <1>0, <1>7 DEF Commit, TypeLoop
  <2> QED
    BY <1>0, <2>0, <1>7, <2>1, DetectorAlone, RecoveryAlone DEF Commit, IInv
<1>8. CASE Rejected
  <2>0. TypeCounters'
    BY <1>0, <1>8 DEF Rejected, recovery, NextCall, Answering, TypeCounters
  <2> PICK sig \in Signatures :
        LET key == KeyOf[sig]
            count == CountOf[sig]
            repair == IsRepair(key, count)
        IN /\ window' = Push(sig, repair)
           /\ best' = NewBest(key, count)
           /\ first' = IF first[key] = NoCount
                         THEN [first EXCEPT ![key] = count] ELSE first
           /\ repairs' = IF repair THEN [repairs EXCEPT ![key] = @ + 1]
                                   ELSE repairs
           /\ productive' = (productive \/ repair \/ sig \notin Protocol)
           /\ met' = met \cup {key}
           /\ idle' = (idle \/ (key \in met /\ ~repair))
           /\ Intervene(sig)
    BY <1>8 DEF Rejected
  <2> DEFINE key == KeyOf[sig]
             count == CountOf[sig]
             repair == IsRepair(key, count)
  <2>1. key \in Keys /\ count \in Counts
    BY DEF Counts
  <2>2. repair \in BOOLEAN
    BY DEF IsRepair
  <2>3. NextCall /\ UNCHANGED <<status, turns, answering, recovery>>
    BY <1>8 DEF Rejected
  <2>4. /\ correction' \in {correction, TRUE}
        /\ stall' \in {stall, "repeat", "window"} /\ culprit' \in {culprit, sig}
        /\ corrected' \in {corrected, corrected \cup {sig}}
        /\ saturated' \in {saturated, TRUE}
    BY DEF Intervene, Correct, Condemn
  <2>5. TypeLoop'
    BY <1>0, <2>3, <2>4 DEF TypeLoop
  <2>6. window' \in Seq(Slots) /\ Len(window') <= Window
    BY <1>0, <2>2, PushType
  <2>7. best' \in [Keys -> Counts]
    BY <1>0, <2>1 DEF NewBest, TypeDetector
  <2>8. first' \in [Keys -> Counts] /\ repairs' \in [Keys -> Nat]
    BY <1>0, <2>1 DEF TypeDetector
  <2>9. /\ corrected' \subseteq Signatures /\ met' \subseteq Keys
        /\ saturated' \in BOOLEAN
    BY <1>0, <2>1, <2>4 DEF TypeDetector
  <2>10. productive' \in BOOLEAN /\ idle' \in BOOLEAN
    BY <1>0 DEF TypeDetector
  <2>11. TypeDetector'
    BY <2>6, <2>7, <2>8, <2>9, <2>10 DEF TypeDetector
  <2>12. RepairsLowerBest'
    <3> SUFFICES ASSUME NEW k \in Keys
                 PROVE  /\ best'[k] = NoCount <=> first'[k] = NoCount
                        /\ IF best'[k] = NoCount
                             THEN repairs'[k] = 0
                             ELSE repairs'[k] + best'[k] <= first'[k]
      BY DEF RepairsLowerBest
    <3>1. /\ best[k] = NoCount <=> first[k] = NoCount
          /\ IF best[k] = NoCount THEN repairs[k] = 0
                                  ELSE repairs[k] + best[k] <= first[k]
      BY <1>0 DEF RepairsLowerBest
    <3>2. best[k] \in Counts /\ first[k] \in Counts /\ repairs[k] \in Nat
      BY <1>0 DEF TypeDetector
    <3>3. CASE k # key
      <4>1. best'[k] = best[k] /\ first'[k] = first[k] /\ repairs'[k] = repairs[k]
        BY <1>0, <2>1, <3>3 DEF TypeDetector, NewBest
      <4> QED
        BY <3>1, <4>1
    <3>4. CASE k = key
      <4>1. CASE count = NoCount
        <5>1. best' = best /\ repairs' = repairs /\ first'[k] = first[k]
          BY <1>0, <2>1, <3>4, <4>1 DEF NewBest, IsRepair, TypeDetector
        <5> QED
          BY <3>1, <5>1
      <4>2. CASE count # NoCount /\ best[k] = NoCount
        <5>1. /\ best'[k] = count /\ first'[k] = count /\ repairs' = repairs
          BY <1>0, <2>1, <3>1, <3>4, <4>2 DEF NewBest, IsRepair, TypeDetector
        <5> QED
          BY <2>1, <3>1, <4>2, <5>1 DEF Counts
      <4>3. CASE count # NoCount /\ best[k] # NoCount /\ repair
        <5>1. /\ best'[k] = count /\ first'[k] = first[k]
              /\ repairs'[k] = repairs[k] + 1 /\ count < best[k]
          BY <1>0, <2>1, <3>1, <3>4, <4>3 DEF NewBest, IsRepair, TypeDetector
        <5> QED
          BY <2>1, <3>1, <3>2, <4>3, <5>1 DEF Counts
      <4>4. CASE count # NoCount /\ best[k] # NoCount /\ ~repair
        <5>1. best' = best /\ first'[k] = first[k] /\ repairs' = repairs
          BY <1>0, <2>1, <3>1, <3>4, <4>4 DEF NewBest, IsRepair, TypeDetector
        <5> QED
          BY <3>1, <5>1
      <4> QED
        BY <4>1, <4>2, <4>3, <4>4
    <3> QED
      BY <3>3, <3>4
  <2> QED
    BY <1>0, <2>0, <2>3, <2>5, <2>11, <2>12, RecoveryAlone DEF IInv
<1>9. CASE BatchAnswered
  <2>0. TypeCounters'
    BY <1>0, <1>9 DEF BatchAnswered, recovery, TypeCounters
  <2>1. TypeLoop'
    BY <1>0, <1>9 DEF BatchAnswered, TypeLoop
  <2> QED
    BY <1>0, <2>0, <1>9, <2>1, DetectorAlone, RecoveryAlone DEF BatchAnswered, IInv
<1>10. CASE UNCHANGED vars
  <2>0. TypeCounters'
    BY <1>0, <1>10 DEF vars, recovery, TypeCounters
  <2>1. TypeLoop'
    BY <1>0, <1>10 DEF vars, TypeLoop
  <2> QED
    BY <1>0, <2>0, <1>10, <2>1, DetectorAlone, RecoveryAlone DEF vars, IInv
<1> QED
  BY <1>1, <1>2, <1>3, <1>4, <1>5, <1>6, <1>7, <1>8, <1>9, <1>10 DEF Next

THEOREM Invariance == Spec => []IInv
<1> QED
  BY InitInvariant, NextInvariant, PTL DEF Spec

-----------------------------------------------------------------------------
(* What follows from it *)

\* Every variable of a session stays in its domain, whatever the model calls.
THEOREM TypeCorrect == Spec => []TypeOK
<1>1. IInv => TypeOK
  <2> SUFFICES ASSUME IInv PROVE TypeOK
    OBVIOUS
  <2>1. TypeCounters /\ TypeLoop /\ TypeDetector /\ TypeRecovery
    BY DEF IInv
  <2>2. truncated \in 0..MaxTurns /\ forced \in 0..MaxTurns
    BY <2>1, LimitTypes DEF TypeCounters
  <2>3. turns \in 0..MaxTurns /\ calls \in 0..MaxCalls /\ batch \in 0..MaxBatch
    BY <2>1 DEF TypeCounters
  <2>4. {answering, saturated, correction, force, refused, productive, idle}
          \subseteq BOOLEAN
    BY <2>1 DEF TypeLoop, TypeDetector, TypeRecovery
  <2>5. {best, first} \subseteq [Keys -> Nat \cup {NoCount}]
    BY <2>1 DEF TypeDetector, Counts
  <2>6. window \in Seq([sig : Signatures \cup {Success}, repair : BOOLEAN])
    BY <2>1 DEF TypeDetector, Slots
  <2>7. /\ Len(window) <= Window /\ repairs \in [Keys -> Nat]
        /\ corrected \subseteq Signatures /\ met \subseteq Keys
    BY <2>1 DEF TypeDetector
  <2>8. /\ status \in {"running", "committed", "stalled", "truncation stall",
                       "loop limit"}
        /\ stall \in {"no", "repeat", "window"}
        /\ culprit \in Signatures \cup {Success}
    BY <2>1 DEF TypeLoop
  <2>9. limit \in Nat \cup {NoLimit}
    BY <2>1 DEF TypeRecovery
  <2> QED
    BY <2>2, <2>3, <2>4, <2>5, <2>6, <2>7, <2>8, <2>9 DEF TypeOK
<1> QED
  BY Invariance, <1>1, PTL

\* A session has at most as many repairs of a check as its first rejection had
\* offenders: however the model varies its calls, repairs run out.
THEOREM RepairsRunOut == Spec => []RepairsBounded
<1>1. IInv => RepairsBounded
  <2> SUFFICES ASSUME IInv, NEW k \in Keys
               PROVE  repairs[k] = 0 \/ repairs[k] <= first[k]
    BY DEF RepairsBounded
  <2>1. TypeDetector /\ RepairsLowerBest
    BY DEF IInv
  <2>2. CASE best[k] = NoCount
    BY <2>1, <2>2 DEF RepairsLowerBest
  <2>3. CASE best[k] # NoCount
    <3>1. first[k] # NoCount /\ repairs[k] + best[k] <= first[k]
      BY <2>1, <2>3 DEF RepairsLowerBest
    <3>2. best[k] \in Nat /\ first[k] \in Nat /\ repairs[k] \in Nat
      BY <2>1, <2>3, <3>1 DEF TypeDetector, Counts
    <3> QED
      BY <3>1, <3>2
  <2> QED
    BY <2>2, <2>3
<1> QED
  BY Invariance, <1>1, PTL

\* A session sends fewer than max_truncated_responses forced requests, and
\* none after the provider refused one.
THEOREM ForcedRequestsBounded == Spec => []ForcedBounded
<1>1. IInv => ForcedBounded
  <2> SUFFICES ASSUME IInv PROVE ForcedBounded
    OBVIOUS
  <2>1. forced \in Nat
    BY LimitTypes DEF IInv, TypeCounters
  <2>2. forced < MaxTruncated
    BY <2>1, LimitTypes DEF IInv, ForcesAnswerTruncations
  <2> QED
    BY <2>2 DEF IInv, ForcesAnswerTruncations, ForcedBounded
<1> QED
  BY Invariance, <1>1, PTL

\* However the model answers, both exemptions from the stall rules run out: the
\* repairs of a check and the forced requests after a truncation.
THEOREM ExemptionsRunOut == Spec => []ExemptionsBounded
<1>1. RepairsBounded /\ ForcedBounded => ExemptionsBounded
  BY DEF ExemptionsBounded
<1> QED
  BY <1>1, RepairsRunOut, ForcedRequestsBounded, PTL

\* The output limit a session asks for never shrinks, and stays below the
\* ceiling the operator set.
THEOREM LimitOnlyGrows == Spec => LimitGrows
<1> DEFINE Grows == limit' # limit =>
                      limit' <= Ceiling /\ (limit # NoLimit => limit' > limit)
<1>1. IInv /\ [Next]_vars => [Grows]_vars
  <2> SUFFICES ASSUME IInv, Next, limit' # limit PROVE Grows
    BY DEF vars, recovery
  <2>1. TruncatedWithoutCalls
    BY DEF Next, TurnsExhausted, ReplyWithCalls, ReplyWithoutCalls,
           CallsExhausted, Accepted, Commit, Rejected, BatchAnswered, recovery
  <2>2. PICK length \in Lengths : Backoff(length)
    BY <2>1 DEF TruncatedWithoutCalls
  <2>3. limit \in Nat \cup {NoLimit}
    BY DEF IInv, TypeRecovery
  <2> QED
    BY <2>2, <2>3, BackoffRaises
<1> QED
  BY Invariance, <1>1, PTL DEF Spec, LimitGrows

-----------------------------------------------------------------------------
(* The stall rules: what the window holds of a session that makes progress,  *)
(* and of one that makes none.                                               *)

\* Two rejections differ, and the later one of a check was a repair.
Distinct(w) ==
  \A i, j \in DOMAIN w :
    i < j /\ w[i].sig \in Signatures /\ w[j].sig \in Signatures =>
      /\ w[i].sig # w[j].sig
      /\ w[j].repair \/ KeyOf[w[i].sig] # KeyOf[w[j].sig]

\* The check of a rejection was met, and its lowest count is no higher.
Shown(sig) ==
  /\ KeyOf[sig] \in met
  /\ CountOf[sig] # NoCount =>
       best[KeyOf[sig]] # NoCount /\ best[KeyOf[sig]] <= CountOf[sig]

ProtocolKeys == {KeyOf[sig] : sig \in Protocol}
Spared == Cardinality(ProtocolKeys) < Saturation /\ MaxRepeated > 1

ProgressInv ==
  ~idle =>
    /\ \A i \in DOMAIN window : window[i].sig \in Signatures => Shown(window[i].sig)
    /\ Distinct(window)
    /\ Spared => stall = "no"

\* Every call of a session without progress fills the window; once that is
\* saturated, each call uses up a correction or condemns the session.
StuckInv ==
  /\ IsFiniteSet(corrected)
  /\ status = "running" /\ ~answering => stall = "no"
  /\ status = "running" /\ ~productive =>
       /\ \A i \in DOMAIN window : window[i].sig \in Protocol /\ ~window[i].repair
       /\ Len(window) = IF calls <= Window THEN calls ELSE Window
       /\ stall = "no" =>
            calls <= Saturation - 1 + Cardinality(corrected) + (IF saturated THEN 1 ELSE 0)

\* A pushed window is the old one, without its first slot when it was full,
\* and the new slot.
LEMMA PushSlots ==
  ASSUME TypeDetector, NEW sig \in Signatures \cup {Success}, NEW repair \in BOOLEAN
  PROVE  LET w == Push(sig, repair)
         IN  /\ w \in Seq(Slots)
             /\ Len(w) = IF Len(window) + 1 > Window THEN Len(window) ELSE Len(window) + 1
             /\ w[Len(w)] = [sig |-> sig, repair |-> repair] /\ Len(w) >= 1
             /\ \E d \in {0, 1} : \A i \in DOMAIN w :
                  i # Len(w) => i < Len(w) /\ i + d \in DOMAIN window /\ w[i] = window[i + d]
<1> DEFINE slot == [sig |-> sig, repair |-> repair]
           longer == Append(window, slot)
<1>1. slot \in Slots
  BY DEF Slots
<1>2. window \in Seq(Slots) /\ Len(window) \in Nat /\ Window \in Nat /\ Window >= 1
  BY SessionAssumption DEF TypeDetector
<1>3. /\ longer \in Seq(Slots) /\ Len(longer) = Len(window) + 1
      /\ \A i \in 1..Len(window) : longer[i] = window[i]
      /\ longer[Len(window) + 1] = slot
  BY <1>1, <1>2
<1>4. CASE Len(longer) > Window
  <2> DEFINE w == Tail(longer)
  <2>1. Push(sig, repair) = w
    BY <1>4 DEF Push
  <2>2. Len(window) >= 1
    BY <1>2, <1>3, <1>4
  <2>3. /\ w \in Seq(Slots) /\ Len(w) = Len(window)
        /\ \A i \in 1..Len(w) : w[i] = longer[i + 1]
    BY <1>3, <2>2
  <2>4. \A i \in DOMAIN w : i # Len(w) =>
          i < Len(w) /\ i + 1 \in DOMAIN window /\ w[i] = window[i + 1]
    BY <1>2, <1>3, <2>3
  <2>5. w[Len(w)] = slot
    BY <1>2, <1>3, <2>2, <2>3
  <2> HIDE DEF w
  <2> QED BY <1>2, <1>3, <1>4, <2>1, <2>2, <2>3, <2>4, <2>5
<1>5. CASE ~(Len(longer) > Window)
  <2>1. Push(sig, repair) = longer
    BY <1>5 DEF Push
  <2>2. \A i \in DOMAIN longer : i # Len(longer) =>
          i < Len(longer) /\ i + 0 \in DOMAIN window /\ longer[i] = window[i + 0]
    BY <1>2, <1>3
  <2> HIDE DEF longer
  <2> QED BY <1>2, <1>3, <1>5, <2>1, <2>2
<1> QED BY <1>4, <1>5

\* Each slot of it is the pushed one or one of the old ones.
LEMMA PushOldOrNew ==
  ASSUME TypeDetector, NEW sig \in Signatures \cup {Success}, NEW repair \in BOOLEAN,
         NEW w, w = Push(sig, repair), NEW i \in DOMAIN w
  PROVE  w[i] = [sig |-> sig, repair |-> repair] \/ \E j \in DOMAIN window : w[i] = window[j]
<1>1. /\ w[Len(w)] = [sig |-> sig, repair |-> repair]
      /\ \E d \in {0, 1} : \A j \in DOMAIN w :
           j # Len(w) => j < Len(w) /\ j + d \in DOMAIN window /\ w[j] = window[j + d]
  BY PushSlots
<1>2. PICK d \in {0, 1} : i # Len(w) => i + d \in DOMAIN window /\ w[i] = window[i + d]
  BY <1>1
<1> QED BY <1>1, <1>2

\* Positions that meet a condition are finitely many.
LEMMA Positions ==
  ASSUME NEW w \in Seq(Slots), NEW S \in SUBSET DOMAIN w
  PROVE  /\ IsFiniteSet(S) /\ Cardinality(S) \in Nat /\ Cardinality(S) <= Len(w)
         /\ S = DOMAIN w => Cardinality(S) = Len(w)
<1>1. DOMAIN w = 1..Len(w) /\ Len(w) \in Nat
  OBVIOUS
<1>2. \A n \in Nat : IsFiniteSet(1..n) /\ Cardinality(1..n) = n
  <2> TAKE n \in Nat
  <2>1. 1 \in Int /\ n \in Int
    OBVIOUS
  <2>2. IsFiniteSet(1..n) /\ Cardinality(1..n) = (IF 1 > n THEN 0 ELSE n - 1 + 1)
    BY <2>1, FS_Interval
  <2> QED BY <2>2
<1>3. IsFiniteSet(1..Len(w)) /\ Cardinality(1..Len(w)) = Len(w)
  BY <1>1, <1>2
<1>4. S \subseteq 1..Len(w)
  BY <1>1
<1>5. IsFiniteSet(S) /\ Cardinality(S) <= Len(w)
  BY <1>3, <1>4, FS_Subset
<1> QED BY <1>1, <1>3, <1>5, FS_CardinalityType

\* In a window of distinct rejections no mistake is repeated ...
LEMMA OneOccurrence ==
  ASSUME NEW w \in Seq(Slots), Distinct(w), NEW sig \in Signatures
  PROVE  Occurrences(sig, w) <= 1
<1> DEFINE S == {i \in DOMAIN w : w[i].sig = sig}
<1>0. Occurrences(sig, w) = Cardinality(S)
  BY DEF Occurrences
<1>1. \A i, j \in S : i = j
  <2>1. \A i, j \in S : i \in Nat /\ j \in Nat /\ ~(i < j)
    BY DEF Distinct
  <2> QED BY <2>1
<1> HIDE DEF S
<1>2. CASE S = {}
  BY <1>0, <1>2, FS_EmptySet
<1>3. CASE S # {}
  <2>1. PICK i \in S : TRUE
    BY <1>3
  <2>2. S = {i}
    BY <1>1, <2>1
  <2>3. Cardinality({i}) = 1
    BY FS_Singleton
  <2> QED BY <1>0, <2>2, <2>3
<1> QED BY <1>2, <1>3

\* ... and there are no more unrepaired ones than checks that draw them.
LEMMA UnrepairedAreChecks ==
  ASSUME NEW w \in Seq(Slots), Distinct(w)
  PROVE  Unrepaired(w) <= Cardinality(ProtocolKeys)
<1> DEFINE S == {i \in DOMAIN w : w[i].sig \in Protocol /\ ~w[i].repair}
           f == [i \in S |-> KeyOf[w[i].sig]]
<1>1. IsFiniteSet(ProtocolKeys)
  <2>1. ProtocolKeys \subseteq Keys
    BY SessionAssumption DEF ProtocolKeys
  <2> QED BY <2>1, SessionAssumption, FS_Subset
<1>2. f \in [S -> ProtocolKeys]
  BY DEF ProtocolKeys
<1>3. ASSUME NEW i \in S, NEW j \in S, f[i] = f[j]
      PROVE  i = j
  <2>1. i \in Nat /\ j \in Nat
    OBVIOUS
  <2>2. KeyOf[w[i].sig] = KeyOf[w[j].sig]
    BY <1>3
  <2>3. w[i].sig \in Signatures /\ w[j].sig \in Signatures
    BY SessionAssumption DEF SessionAssumption
  <2>4. ~(i < j) /\ ~(j < i)
    BY <2>2, <2>3 DEF Distinct
  <2> QED BY <2>1, <2>4
<1>4. f \in Injection(S, ProtocolKeys)
  BY <1>2, <1>3 DEF Injection, IsInjective
<1> HIDE DEF f
<1> QED BY <1>1, <1>4, FS_Injection DEF Unrepaired
\* A push of an accepted call, or of a rejection unlike those before it.
LEMMA PushDistinct ==
  ASSUME TypeDetector, Distinct(window),
         NEW sig \in Signatures \cup {Success}, NEW repair \in BOOLEAN,
         sig \in Signatures => \A i \in DOMAIN window : window[i].sig \in Signatures =>
           window[i].sig # sig /\ (repair \/ KeyOf[window[i].sig] # KeyOf[sig])
  PROVE  Distinct(Push(sig, repair))
<1> DEFINE w == Push(sig, repair)
<1>1. /\ w \in Seq(Slots) /\ w[Len(w)] = [sig |-> sig, repair |-> repair]
      /\ \E d \in {0, 1} : \A i \in DOMAIN w :
           i # Len(w) => i < Len(w) /\ i + d \in DOMAIN window /\ w[i] = window[i + d]
  BY PushSlots
<1> HIDE DEF w
<1>2. PICK d \in {0, 1} : \A i \in DOMAIN w :
        i # Len(w) => i < Len(w) /\ i + d \in DOMAIN window /\ w[i] = window[i + d]
  BY <1>1
<1>3. ASSUME NEW i \in DOMAIN w, NEW j \in DOMAIN w, i < j,
             w[i].sig \in Signatures, w[j].sig \in Signatures
      PROVE  w[i].sig # w[j].sig /\ (w[j].repair \/ KeyOf[w[i].sig] # KeyOf[w[j].sig])
  <2>1. i \in 1..Len(w) /\ j \in 1..Len(w) /\ Len(w) \in Nat
    BY <1>1
  <2>2. i # Len(w)
    BY <1>3, <2>1
  <2>3. i + d \in DOMAIN window /\ w[i] = window[i + d]
    BY <1>2, <2>2
  <2>4. CASE j = Len(w)
    <3>1. w[j].sig = sig /\ w[j].repair = repair
      BY <1>1, <2>4
    <3> QED BY <1>3, <2>3, <3>1
  <2>5. CASE j # Len(w)
    <3>1. j + d \in DOMAIN window /\ w[j] = window[j + d]
      BY <1>2, <2>5
    <3>2. i + d < j + d
      BY <1>3, <2>1
    <3> QED BY <1>3, <2>3, <3>1, <3>2 DEF Distinct
  <2> QED BY <2>4, <2>5
<1>4. Distinct(w)
  BY <1>3 DEF Distinct
<1> QED BY <1>4 DEF w

\* Only an accepted or a rejected call changes the detector or decides a stall.
LEMMA DetectorSteps ==
  ASSUME [Next]_vars
  PROVE  UNCHANGED <<detector, stall>> \/ Accepted \/ Rejected
  BY DEF Next, vars, TurnsExhausted, ReplyWithCalls, ReplyWithoutCalls,
         TruncatedWithoutCalls, CallsExhausted, Commit, BatchAnswered

\* What a rejection does, given its signature.
RejectedAs(sig) ==
  LET key == KeyOf[sig]
      count == CountOf[sig]
      repair == IsRepair(key, count)
  IN /\ window' = Push(sig, repair) /\ best' = NewBest(key, count)
     /\ met' = met \cup {key} /\ idle' = (idle \/ (key \in met /\ ~repair))
     /\ productive' = (productive \/ repair \/ sig \notin Protocol)
     /\ Intervene(sig)

LEMMA RejectedCases == Rejected => \E sig \in Signatures : RejectedAs(sig)
  BY DEF Rejected, RejectedAs

\* The lowest count of a check never rises, and a rejection shows its own.
LEMMA NewBestLowers ==
  ASSUME TypeDetector, NEW sig \in Signatures, best' = NewBest(KeyOf[sig], CountOf[sig])
  PROVE  /\ CountOf[sig] # NoCount =>
              best'[KeyOf[sig]] # NoCount /\ best'[KeyOf[sig]] <= CountOf[sig]
         /\ \A k \in Keys : best[k] # NoCount =>
              best'[k] # NoCount /\ best'[k] <= best[k]
<1> DEFINE key == KeyOf[sig]
           count == CountOf[sig]
<1>1. key \in Keys /\ count \in Counts /\ best \in [Keys -> Counts] /\ NoCount \notin Nat
  BY LimitTypes DEF TypeDetector, Counts
<1>2. \A k \in Keys : best[k] # NoCount => best[k] \in Nat
  BY <1>1 DEF Counts
<1>3. CASE count # NoCount /\ (best[key] = NoCount \/ IsRepair(key, count))
  <2>1. best' = [best EXCEPT ![key] = count] /\ count \in Nat
    BY <1>1, <1>3 DEF NewBest, Counts
  <2> HIDE DEF key, count
  <2>2. best'[key] = count /\ \A k \in Keys : k # key => best'[k] = best[k]
    BY <1>1, <2>1
  <2>3. best[key] # NoCount => count <= best[key]
    BY <1>1, <1>2, <1>3, <2>1 DEF IsRepair
  <2> QED BY <1>1, <1>2, <2>1, <2>2, <2>3 DEF key, count
<1>4. CASE ~(count # NoCount /\ (best[key] = NoCount \/ IsRepair(key, count)))
  <2>1. best' = best
    BY <1>4 DEF NewBest
  <2>2. count # NoCount => best[key] # NoCount /\ count \in Nat /\ ~(count < best[key])
    BY <1>1, <1>4 DEF IsRepair, Counts
  <2> HIDE DEF key, count
  <2> QED BY <1>1, <1>2, <2>1, <2>2 DEF key, count
<1> QED BY <1>3, <1>4

LEMMA ProgressStep == IInv /\ ProgressInv /\ [Next]_vars => ProgressInv'
<1> SUFFICES ASSUME IInv, ProgressInv, [Next]_vars, ~idle' PROVE
      /\ \A i \in DOMAIN window' : \A s \in Signatures :
           window'[i].sig = s => Shown(s)'
      /\ Distinct(window')
      /\ Spared => stall' = "no"
  BY DEF ProgressInv, Spared, ProtocolKeys, Distinct, Shown
<1>0. TypeDetector
  BY DEF IInv
<1>1. CASE UNCHANGED <<detector, stall>>
  BY <1>1 DEF ProgressInv, Shown, detector
<1>2. CASE Accepted
  <2>1. window' = Push(Success, FALSE) /\ UNCHANGED <<best, met, idle, stall>>
    BY <1>2 DEF Accepted
  <2>2. Success \notin Signatures
    BY SessionAssumption DEF SessionAssumption
  <2>3. Distinct(window) /\ (Spared => stall = "no")
        /\ \A i \in DOMAIN window : window[i].sig \in Signatures => Shown(window[i].sig)
    BY <2>1 DEF ProgressInv
  <2>4. Distinct(window')
    BY <1>0, <2>1, <2>2, <2>3, PushDistinct
  <2>5. ASSUME NEW i \in DOMAIN window', NEW s \in Signatures, window'[i].sig = s
        PROVE  Shown(s)'
    <3>1. \/ window'[i] = [sig |-> Success, repair |-> FALSE]
          \/ \E j \in DOMAIN window : window'[i] = window[j]
      <4> DEFINE none == FALSE
      <4>1. none \in BOOLEAN /\ window' = Push(Success, none) /\ none = FALSE
        BY <2>1
      <4> HIDE DEF none
      <4>2. \/ window'[i] = [sig |-> Success, repair |-> none]
            \/ \E j \in DOMAIN window : window'[i] = window[j]
        BY <1>0, <4>1, PushOldOrNew
      <4> QED BY <4>1, <4>2
    <3>2. PICK j \in DOMAIN window : window'[i] = window[j]
      BY <2>2, <2>5, <3>1
    <3>3. Shown(s)
      BY <2>3, <2>5, <3>2
    <3> QED BY <2>1, <3>3 DEF Shown
  <2> QED BY <2>1, <2>3, <2>4, <2>5
<1>3. CASE Rejected
  <2> PICK sig \in Signatures : RejectedAs(sig)
    BY <1>3, RejectedCases
  <2> DEFINE key == KeyOf[sig]
             count == CountOf[sig]
             repair == IsRepair(key, count)
  <2>1. /\ window' = Push(sig, repair) /\ best' = NewBest(key, count)
        /\ met' = met \cup {key} /\ Intervene(sig)
        /\ ~idle /\ (key \notin met \/ repair)
    BY DEF RejectedAs
  <2>2. Distinct(window) /\ (Spared => stall = "no")
        /\ \A i \in DOMAIN window : window[i].sig \in Signatures => Shown(window[i].sig)
    BY <2>1 DEF ProgressInv
  <2>3. /\ key \in Keys /\ count \in Counts /\ repair \in BOOLEAN
        /\ \A s \in Signatures : KeyOf[s] \in Keys /\ CountOf[s] \in Counts
        /\ best \in [Keys -> Counts] /\ NoCount \notin Nat
    BY <1>0, LimitTypes DEF IsRepair, Counts, TypeDetector
  <2>4. ASSUME NEW i \in DOMAIN window, window[i].sig \in Signatures
        PROVE  window[i].sig # sig /\ (repair \/ KeyOf[window[i].sig] # key)
    <3>1. Shown(window[i].sig)
      BY <2>2, <2>4
    <3>2. CASE key \notin met
      BY <3>1, <3>2 DEF Shown
    <3>3. CASE repair
      <4>1. count \in Nat /\ best[key] \in Nat /\ count < best[key]
        BY <2>3, <3>3 DEF IsRepair, Counts
      <4>2. window[i].sig # sig
        BY <2>3, <3>1, <4>1 DEF Shown
      <4> QED BY <3>3, <4>2
    <3> QED BY <2>1, <3>2, <3>3
  <2>5. Distinct(window')
    <3> HIDE DEF repair
    <3> QED BY <1>0, <2>1, <2>2, <2>3, <2>4, PushDistinct
  <2>6. ASSUME NEW s \in Signatures, s = sig \/ Shown(s)
        PROVE  Shown(s)'
    <3>1. /\ CountOf[sig] # NoCount =>
              best'[KeyOf[sig]] # NoCount /\ best'[KeyOf[sig]] <= CountOf[sig]
          /\ \A k \in Keys : best[k] # NoCount =>
              best'[k] # NoCount /\ best'[k] <= best[k]
      BY <1>0, <2>1, NewBestLowers
    <3>2. best' \in [Keys -> Counts]
      BY <2>1, <2>3 DEF NewBest
    <3>3. CASE s = sig
      BY <2>1, <3>1, <3>3 DEF Shown
    <3>4. CASE Shown(s)
      <4>1. KeyOf[s] \in met'
        BY <2>1, <3>4 DEF Shown
      <4>2. ASSUME CountOf[s] # NoCount
            PROVE  best'[KeyOf[s]] # NoCount /\ best'[KeyOf[s]] <= CountOf[s]
        <5>1. best[KeyOf[s]] # NoCount /\ best[KeyOf[s]] <= CountOf[s]
          BY <3>4, <4>2 DEF Shown
        <5>2. best'[KeyOf[s]] # NoCount /\ best'[KeyOf[s]] <= best[KeyOf[s]]
          BY <2>3, <3>1, <5>1
        <5>3. CountOf[s] \in Nat /\ best[KeyOf[s]] \in Nat /\ best'[KeyOf[s]] \in Nat
          BY <2>3, <3>2, <4>2, <5>1, <5>2 DEF Counts
        <5> QED BY <5>1, <5>2, <5>3
      <4> QED BY <4>1, <4>2 DEF Shown
    <3> QED BY <2>6, <3>3, <3>4
  <2>7. ASSUME NEW i \in DOMAIN window', NEW s \in Signatures, window'[i].sig = s
        PROVE  Shown(s)'
    <3>1. \/ window'[i] = [sig |-> sig, repair |-> repair]
          \/ \E j \in DOMAIN window : window'[i] = window[j]
      <4> HIDE DEF repair
      <4> QED BY <1>0, <2>1, <2>3, PushOldOrNew
    <3>2. s = sig \/ \E j \in DOMAIN window : window'[i] = window[j]
      BY <2>7, <3>1
    <3>3. s = sig \/ Shown(s)
      BY <2>2, <2>7, <3>2
    <3> QED BY <2>6, <3>3
  <2>8. ASSUME Spared PROVE stall' = "no"
    <3>1. window' \in Seq(Slots)
      BY <1>0, <2>1, <2>3, PushSlots
    <3>2. /\ Occurrences(sig, window') \in Nat /\ Occurrences(sig, window') <= 1
          /\ Unrepaired(window') \in Nat /\ Cardinality(ProtocolKeys) \in Nat
          /\ Unrepaired(window') <= Cardinality(ProtocolKeys)
      <4>1. Occurrences(sig, window') <= 1
        BY <2>5, <3>1, OneOccurrence
      <4>2. Unrepaired(window') <= Cardinality(ProtocolKeys)
        BY <2>5, <3>1, UnrepairedAreChecks
      <4>3. Occurrences(sig, window') \in Nat
        BY <3>1, Positions DEF Occurrences
      <4>4. Unrepaired(window') \in Nat
        BY <3>1, Positions DEF Unrepaired
      <4>5. ProtocolKeys \subseteq Keys
        BY SessionAssumption DEF ProtocolKeys, SessionAssumption
      <4>6. Cardinality(ProtocolKeys) \in Nat
        BY <4>5, SessionAssumption, FS_Subset, FS_CardinalityType DEF SessionAssumption
      <4> QED BY <4>1, <4>2, <4>3, <4>4, <4>6
    <3>3. MaxRepeated \in Nat /\ Saturation \in Nat
      BY SessionAssumption DEF SessionAssumption
    <3>4. ~RepeatedTooOften(sig, window') /\ Unrepaired(window') < Saturation
      BY <2>8, <3>2, <3>3 DEF RepeatedTooOften, Spared
    <3>5. stall' = stall
      BY <2>1, <3>4 DEF Intervene
    <3> QED BY <2>2, <2>8, <3>5
  <2> QED BY <2>5, <2>7, <2>8
<1> QED BY <1>1, <1>2, <1>3, DetectorSteps

LEMMA ProgressInit == Init => ProgressInv
  BY DEF Init, ProgressInv, Distinct

\* A session that keeps making progress is not condemned, whatever the limits,
\* as long as the checks alone cannot fill the window.
THEOREM ProgressNeverCondemned == Spec => []ProgressIsSpared
<1>1. ProgressInv => ProgressIsSpared
  BY DEF ProgressInv, ProgressIsSpared, Spared, ProtocolKeys
<1> QED
  BY <1>1, Invariance, ProgressInit, ProgressStep, PTL DEF Spec
\* A window of unrepaired protocol rejections counts them all.
LEMMA AllUnrepaired ==
  ASSUME NEW w \in Seq(Slots),
         \A i \in DOMAIN w : w[i].sig \in Protocol /\ ~w[i].repair
  PROVE  Unrepaired(w) = Len(w)
<1>1. {i \in DOMAIN w : w[i].sig \in Protocol /\ ~w[i].repair} = DOMAIN w
  OBVIOUS
<1>2. Unrepaired(w) = Cardinality(DOMAIN w)
  BY <1>1 DEF Unrepaired
<1> QED BY <1>2, Positions

\* What a rejection that shows no progress does to a stuck session.
LEMMA StuckCall ==
  ASSUME IInv, StuckInv, NEW sig \in Protocol, RejectedAs(sig), NextCall,
         ~productive, ~IsRepair(KeyOf[sig], CountOf[sig])
  PROVE  /\ \A i \in DOMAIN window' : window'[i].sig \in Protocol /\ ~window'[i].repair
         /\ Len(window') = IF calls' <= Window THEN calls' ELSE Window
         /\ stall' = "no" =>
              calls' <= Saturation - 1 + Cardinality(corrected')
                          + (IF saturated' THEN 1 ELSE 0)
<1> DEFINE repair == IsRepair(KeyOf[sig], CountOf[sig])
<1>1. /\ sig \in Signatures \cup {Success} /\ sig \in Signatures
      /\ repair \in BOOLEAN /\ repair = FALSE
      /\ Window \in Nat /\ Saturation \in 1..Window
      /\ calls \in Nat /\ calls' = calls + 1 /\ saturated \in BOOLEAN
      /\ TypeDetector /\ status = "running"
  BY LimitTypes, SessionAssumption
     DEF SessionAssumption, IsRepair, IInv, TypeCounters, TypeDetector, NextCall,
         Answering
<1>2. window' = Push(sig, repair) /\ Intervene(sig)
  BY DEF RejectedAs
<1> HIDE DEF repair
<1>3. /\ \A i \in DOMAIN window : window[i].sig \in Protocol /\ ~window[i].repair
      /\ Len(window) = IF calls <= Window THEN calls ELSE Window
      /\ IsFiniteSet(corrected)
      /\ stall = "no" =>
           calls <= Saturation - 1 + Cardinality(corrected) + (IF saturated THEN 1 ELSE 0)
  BY <1>1 DEF StuckInv
<1>4. /\ window' \in Seq(Slots)
      /\ Len(window') = IF Len(window) + 1 > Window THEN Len(window) ELSE Len(window) + 1
  BY <1>1, <1>2, PushSlots
<1>5. ASSUME NEW i \in DOMAIN window'
      PROVE  window'[i].sig \in Protocol /\ ~window'[i].repair
  <2>1. \/ window'[i] = [sig |-> sig, repair |-> repair]
        \/ \E j \in DOMAIN window : window'[i] = window[j]
    BY <1>1, <1>2, PushOldOrNew
  <2> QED BY <1>1, <1>3, <2>1
<1>6. Len(window') = IF calls' <= Window THEN calls' ELSE Window
  BY <1>1, <1>3, <1>4
<1>7. Unrepaired(window') = Len(window')
  BY <1>4, <1>5, AllUnrepaired
<1>8. Cardinality(corrected) \in Nat
  BY <1>3, FS_CardinalityType
<1>9. ASSUME stall' = "no"
      PROVE  calls' <= Saturation - 1 + Cardinality(corrected')
                         + (IF saturated' THEN 1 ELSE 0)
  <2>1. CASE corrected' = corrected \cup {sig} /\ sig \notin corrected
               /\ saturated' = saturated /\ stall' = stall
    <3>1. Cardinality(corrected') = Cardinality(corrected) + 1
      BY <1>3, <2>1, FS_AddElement
    <3> QED BY <1>1, <1>3, <1>8, <1>9, <2>1, <3>1
  <2>2. CASE Unrepaired(window') < Saturation
               /\ UNCHANGED <<stall, corrected, saturated>>
    <3>1. calls' < Saturation
      BY <1>1, <1>6, <1>7, <2>2
    <3> QED BY <1>1, <1>8, <2>2, <3>1
  <2>3. CASE ~saturated /\ saturated' = TRUE /\ UNCHANGED <<stall, corrected>>
    BY <1>1, <1>3, <1>8, <1>9, <2>3
  <2> QED BY <1>2, <1>9, <2>1, <2>2, <2>3 DEF Intervene, Correct, Condemn
<1> QED BY <1>5, <1>6, <1>9

LEMMA StuckStep == IInv /\ StuckInv /\ [Next]_vars => StuckInv'
<1> SUFFICES ASSUME IInv, StuckInv, [Next]_vars PROVE StuckInv'
  OBVIOUS
<1>0. IsFiniteSet(corrected)
  BY DEF StuckInv
<1>1. CASE Rejected
  <2> PICK sig \in Signatures : RejectedAs(sig)
    BY <1>1, RejectedCases
  <2>1. NextCall /\ UNCHANGED <<status, answering>> /\ answering = TRUE
    BY <1>1 DEF Rejected, NextCall, Answering, IInv, TypeLoop
  <2>2. corrected' = corrected \/ corrected' = corrected \cup {sig}
    BY DEF RejectedAs, Intervene, Correct, Condemn
  <2>3. IsFiniteSet(corrected')
    BY <1>0, <2>2, FS_AddElement
  <2>4. ASSUME ~productive'
        PROVE  /\ \A i \in DOMAIN window' : window'[i].sig \in Protocol /\ ~window'[i].repair
               /\ Len(window') = IF calls' <= Window THEN calls' ELSE Window
               /\ stall' = "no" =>
                    calls' <= Saturation - 1 + Cardinality(corrected')
                                + (IF saturated' THEN 1 ELSE 0)
    <3>1. sig \in Protocol /\ ~productive /\ ~IsRepair(KeyOf[sig], CountOf[sig])
      BY <2>4 DEF RejectedAs
    <3> QED BY <2>1, <3>1, StuckCall
  <2> QED BY <2>1, <2>3, <2>4 DEF StuckInv
<1>2. CASE Accepted
  <2>1. /\ productive' = TRUE /\ UNCHANGED <<corrected, status, answering>>
        /\ answering = TRUE
    BY <1>2 DEF Accepted, NextCall, Answering, IInv, TypeLoop
  <2> QED BY <1>0, <2>1 DEF StuckInv
<1>3. CASE Commit
  <2>1. status' = "committed" /\ corrected' = corrected
    BY <1>3 DEF Commit, detector
  <2> QED BY <1>0, <2>1 DEF StuckInv
<1>4. CASE /\ UNCHANGED <<detector, stall, calls>>
           /\ status' = "running" => status = "running"
           /\ status' = "running" /\ ~answering' => ~answering \/ stall = "no"
  BY <1>4 DEF StuckInv, detector
<1>5. ASSUME ~Rejected, ~Accepted, ~Commit
      PROVE  /\ UNCHANGED <<detector, stall, calls>>
             /\ status' = "running" => status = "running"
             /\ status' = "running" /\ ~answering' => ~answering \/ stall = "no"
  <2>1. CASE TurnsExhausted \/ CallsExhausted
    BY <2>1 DEF TurnsExhausted, CallsExhausted
  <2>2. CASE ReplyWithCalls \/ ReplyWithoutCalls
    BY <2>2 DEF ReplyWithCalls, ReplyWithoutCalls, Request, Asking
  <2>3. CASE TruncatedWithoutCalls
    BY <2>3 DEF TruncatedWithoutCalls, Request, Asking
  <2>4. CASE BatchAnswered
    BY <2>4 DEF BatchAnswered
  <2>5. CASE UNCHANGED vars
    BY <2>5 DEF vars
  <2> QED BY <1>5, <2>1, <2>2, <2>3, <2>4, <2>5 DEF Next
<1> QED BY <1>1, <1>2, <1>3, <1>4, <1>5

LEMMA StuckInit == Init => StuckInv
<1> SUFFICES ASSUME Init PROVE StuckInv
  OBVIOUS
<1>1. IsFiniteSet(corrected) /\ Cardinality(corrected) = 0
  BY FS_EmptySet DEF Init
<1>2. Saturation \in 1..Window /\ Window \in Nat
  BY SessionAssumption DEF SessionAssumption
<1>3. window = << >> /\ calls = 0 /\ stall = "no" /\ saturated = FALSE
  BY DEF Init
<1> QED BY <1>1, <1>2, <1>3 DEF StuckInv

\* A model whose every call is an unrepaired protocol rejection is ended within
\* Saturation calls and one for each correction it was owed, whatever the limits.
THEOREM StuckSessionsStop == Spec => []StuckIsStopped
<1>1. StuckInv /\ IInv => StuckIsStopped
  <2> SUFFICES ASSUME StuckInv, IInv, Asking, ~productive
               PROVE  calls <= Saturation + Cardinality(corrected)
    BY DEF StuckIsStopped
  <2>1. status = "running" /\ ~answering
    BY DEF Asking
  <2>2. calls <= Saturation - 1 + Cardinality(corrected) + (IF saturated THEN 1 ELSE 0)
    BY <2>1 DEF StuckInv
  <2>3. calls \in Nat /\ Saturation \in Nat /\ Cardinality(corrected) \in Nat
    BY LimitTypes, SessionAssumption, FS_CardinalityType
       DEF SessionAssumption, IInv, TypeCounters, StuckInv
  <2> QED BY <2>2, <2>3
<1> QED
  BY <1>1, Invariance, StuckInit, StuckStep, PTL DEF Spec

-----------------------------------------------------------------------------
(* One request: what its attempts were, and what may follow them.           *)

Endings ==
  {"none", "answer", "unreadable", "interrupted", "timeout", "connection", "server"}
Attempt == [at : Nat, ended : Nat, end : Endings, status : Nat, pause : Nat]

\* The attempt was not served, or is a lost connection that reads as refused.
Excused(attempt) ==
  MayBeServed(attempt) =>
    attempt.end = "connection" /\ attempt.status \in RetriedStatuses

\* How many attempts there are for the retry index.
CountInv ==
  /\ attempts \in Seq(Attempt)
  /\ index <= MaxRetries /\ Len(attempts) <= MaxRetries + 1
  /\ phase \in {"check", "ready"} => Len(attempts) = index
  /\ phase \in {"sent", "waiting"} => Len(attempts) = index + 1
  /\ phase = "waiting" => index < MaxRetries

\* Attempt i was followed by another one as it should be.
WellFollowed(i) ==
  /\ Excused(attempts[i])
  /\ attempts[i + 1].at < began + MaxRetryTime
  /\ MaxRunTime # NoCap => attempts[i + 1].at < MaxRunTime
  /\ attempts[i + 1].at >= attempts[i].ended + attempts[i].pause

\* The last attempt so far is one that another may follow.
LastRejected ==
  LET last == attempts[Len(attempts)]
  IN  Len(attempts) > 0 =>
        /\ Excused(last) /\ error.retryable
        /\ phase \in {"check", "ready"} => now >= last.ended + last.pause
        /\ phase = "waiting" => now + left >= last.ended + last.pause

FollowInv ==
  /\ \A i \in 1..(Len(attempts) - 1) : WellFollowed(i)
  /\ phase \in {"check", "ready", "waiting"} => LastRejected

\* What was found just before an attempt still holds when it is sent.
ReadyInv ==
  phase = "ready" =>
    /\ MaxRunTime # NoCap => now < MaxRunTime
    /\ Len(attempts) > 0 => now < began + MaxRetryTime

\* After an attempt of a cancelled run none is made ready.
LateInv == late = 0 \/ (late = 1 /\ cancelled /\ phase # "ready")

CostInv ==
  phase \in {"ready", "sent"} /\ cap # NoCap => unpriced = 0 /\ cost < cap

RequestInv == RequestTypeOK /\ CountInv /\ FollowInv /\ ReadyInv /\ LateInv /\ CostInv

-----------------------------------------------------------------------------
\* An error that is one to retry comes from the server, or is a lost connection
\* with the status of one; the pause asked for is kept.
LEMMA ClassifyFacts ==
  ASSUME NEW e \in Errors
  PROVE  /\ Classify(e) \in [retryable : BOOLEAN, after : Nat,
                             state : {"none", "rejected", "unknown"}]
         /\ Classify(e).retryable =>
              /\ \/ e.ended = "server"
                 \/ e.ended = "connection" /\ e.status \in RetriedStatuses
              /\ Classify(e).after = e.after
<1>1. e \in Error /\ e.after \in Nat /\ e.ended \in {"timeout", "connection", "server"}
  BY RetryAssumption DEF Error
<1>2. CASE e.ended = "timeout"
  BY <1>1, <1>2 DEF Classify
<1>3. CASE e.ended = "connection"
  <2>1. e.code = "none" /\ e.status \in Nat
    BY <1>1, <1>3, RetryAssumption DEF Error
  <2>2. /\ Kind(e) # "rate limit"
        /\ Kind(e) = "capacity" => e.status \in {500, 502, 503, 504}
    BY <2>1 DEF Kind
  <2> DEFINE r == \/ Kind(e) \in {"rate limit", "capacity"}
                  \/ Kind(e) = "unknown" /\ e.status \in {408, 409, 425, 429}
             known == IF e.status # 0 \/ e.code # "none" THEN "rejected" ELSE "unknown"
  <2>3. Classify(e) = [retryable |-> r, state |-> known, after |-> e.after]
    BY <1>3 DEF Classify
  <2>4. r \in BOOLEAN /\ known \in {"none", "rejected", "unknown"}
    OBVIOUS
  <2>5. r => e.status \in RetriedStatuses
    <3> SUFFICES ASSUME r PROVE e.status \in RetriedStatuses
      OBVIOUS
    <3>1. CASE Kind(e) = "capacity"
      BY <2>2, <3>1 DEF RetriedStatuses
    <3>2. CASE Kind(e) # "capacity"
      <4>1. e.status \in {408, 409, 425, 429}
        BY <2>2, <3>2
      <4> HIDE DEF r, known
      <4> QED BY <4>1 DEF RetriedStatuses
    <3> QED BY <3>1, <3>2
  <2> HIDE DEF r, known
  <2>6. /\ Classify(e) \in [retryable : BOOLEAN, after : Nat,
                            state : {"none", "rejected", "unknown"}]
        /\ Classify(e).retryable = r /\ Classify(e).after = e.after
    BY <1>1, <2>3, <2>4
  <2> QED BY <1>3, <2>5, <2>6
<1>4. CASE e.ended = "server"
  BY <1>1, <1>4 DEF Classify
<1> QED BY <1>1, <1>2, <1>3, <1>4

\* A pause is a number, and at least as long as the server asked for.
LEMMA DelayFacts ==
  ASSUME index \in 0..MaxRetries, NEW j \in Jitters, NEW a \in Nat
  PROVE  Delay(j, a) \in Nat /\ Delay(j, a) >= a
<1> DEFINE p == 2^index
<1>1. p \in Nat /\ j \in Nat /\ RetryBackoff \in Nat /\ MaxDelay \in Nat
  BY RetryAssumption, PowerAssumption
<1>2. RetryBackoff * p \in Nat
  BY <1>1
<1>3. Delay(j, a) = Most(Least(MaxDelay, Least(MaxDelay, RetryBackoff * p) + j), a)
  BY DEF Delay
<1> HIDE DEF p
<1> DEFINE b == Least(MaxDelay, RetryBackoff * p)
           d == Least(MaxDelay, b + j)
<1>4. b \in Nat
  BY <1>1, <1>2 DEF Least
<1>5. d \in Nat
  BY <1>1, <1>4 DEF Least
<1> HIDE DEF b, d
<1>6. Most(d, a) \in Nat /\ Most(d, a) >= a
  BY <1>5 DEF Most
<1> QED BY <1>3, <1>6 DEF b, d

\* The limits are numbers, or there is none.
LEMMA LimitFacts ==
  /\ MaxRetries \in Nat /\ MaxRetryTime \in Nat
  /\ MaxRunTime \in Nat \cup {NoCap} /\ CostCaps \subseteq Nat \cup {NoCap}
  /\ Durations \subseteq Nat /\ Oversleeps \subseteq Nat
BY RetryAssumption

LEMMA TypeStep == RequestTypeOK /\ CountInv /\ [RequestNext]_requestVars => RequestTypeOK'
<1> SUFFICES ASSUME RequestTypeOK, CountInv, [RequestNext]_requestVars PROVE RequestTypeOK'
  OBVIOUS
<1> USE LimitFacts DEF RequestTypeOK, clock, totals, Stop
<1>1. CASE UNCHANGED requestVars
  BY <1>1 DEF requestVars
<1>2. CASE Check
  BY <1>2 DEF Check
<1>3. CASE Send
  BY <1>3 DEF Send
<1>4. CASE Retry
  BY <1>4 DEF Retry
<1>5. ASSUME NEW d \in Durations, NEW priced \in BOOLEAN, Respond(d, priced)
      PROVE  RequestTypeOK'
  <2>1. {now', cost', unpriced'} \subseteq Nat
    BY <1>5 DEF Respond
  <2>2. {began', index', left', requests', late'} \subseteq Nat
    BY <1>5 DEF Respond
  <2>3. phase' \in {"idle", "stopped"} /\ reason' \in {reason, "budget"}
    BY <1>5 DEF Respond
  <2>4. UNCHANGED <<error, choice, declined, cancelled, again, cap>>
    BY <1>5 DEF Respond
  <2> QED BY <2>1, <2>2, <2>3, <2>4
<1>6. ASSUME NEW d \in Durations, NEW e \in Errors, NEW j \in Jitters, Fail(d, e, j)
      PROVE  RequestTypeOK'
  <2>1. Classify(e) \in [retryable : BOOLEAN, after : Nat,
                         state : {"none", "rejected", "unknown"}]
    BY ClassifyFacts
  <2>2. Delay(j, Classify(e).after) \in Nat
    BY <2>1, DelayFacts DEF CountInv
  <2>3. StopReason(Classify(e), Delay(j, Classify(e).after), now + d) \in
          {"none", "not_retryable", "attempt_limit", "pause", "retry_elapsed_limit"}
    BY DEF StopReason
  <2>4. /\ d \in Nat /\ now' = now + d /\ unpriced' \in {unpriced, unpriced + 1}
        /\ left' \in {0, Delay(j, Classify(e).after)}
        /\ UNCHANGED <<began, index, cost, requests, late>>
    BY <1>6 DEF Fail
  <2>5. {now, began, index, left, cost, unpriced, requests, late}' \subseteq Nat
    BY <2>2, <2>4
  <2>6. phase' \in {"waiting", "stopped"}
    BY <1>6 DEF Fail
  <2>7. reason' \in {reason, "not_retryable", "attempt_limit", "pause",
                     "retry_elapsed_limit"}
    BY <1>6, <2>3 DEF Fail
  <2>8. error' = Classify(e) /\ UNCHANGED <<choice, declined, cancelled, again, cap>>
    BY <1>6 DEF Fail
  <2> QED BY <2>1, <2>5, <2>6, <2>7, <2>8
<1>7. ASSUME NEW d \in Durations, NEW i \in BOOLEAN, Abandon(d, i)
      PROVE  RequestTypeOK'
  <2>1. /\ d \in Nat /\ now' = now + d /\ unpriced' = unpriced + 1
        /\ began' \in {began, now + d} /\ index' \in {index, 0}
        /\ UNCHANGED <<left, cost, requests, late>>
    BY <1>7 DEF Abandon
  <2>2. {now, began, index, left, cost, unpriced, requests, late}' \subseteq Nat
    BY <2>1
  <2>3. /\ phase' \in {"check", "stopped"}
        /\ reason' \in {reason, "interrupted", "unreadable"}
        /\ choice' \in {choice, "auto"} /\ declined' \in {declined, TRUE}
        /\ again' \in {again, TRUE}
    BY <1>7 DEF Abandon
  <2>4. error' \in {error, NoError} /\ UNCHANGED <<cancelled, cap>>
    BY <1>7 DEF Abandon
  <2>5. NoError \in [retryable : BOOLEAN, after : Nat,
                     state : {"none", "rejected", "unknown"}]
    BY DEF NoError
  <2>6. choice' \in {"auto", "required"} /\ {declined', cancelled', again'} \subseteq BOOLEAN
    BY <2>3, <2>4
  <2> QED BY <2>2, <2>3, <2>4, <2>5, <2>6
<1>8. ASSUME NEW o \in Oversleeps, Poll(o) PROVE RequestTypeOK'
  BY <1>8 DEF Poll
<1>9. CASE Cancel
  BY <1>9 DEF Cancel
<1>10. ASSUME NEW c \in {"auto", "required"}, Begin(c) PROVE RequestTypeOK'
  <2>1. {now, began, index, left, cost, unpriced, requests, late}' \subseteq Nat
    BY <1>10 DEF Begin
  <2>2. {declined', cancelled', again'} \subseteq BOOLEAN /\ cap' \in CostCaps
    BY <1>10 DEF Begin
  <2>3. phase' = "check" /\ reason' = reason /\ choice' = c /\ error' = NoError
    BY <1>10 DEF Begin
  <2> QED BY <2>1, <2>2, <2>3 DEF NoError
<1> QED BY <1>1, <1>2, <1>3, <1>4, <1>5, <1>6, <1>7, <1>8, <1>9, <1>10 DEF RequestNext, Step

-----------------------------------------------------------------------------
\* The end of the attempt under way touches nothing the earlier ones showed.
LEMMA EndedFacts ==
  ASSUME RequestInv, phase = "sent", began' = began,
         NEW d \in Nat, NEW end \in Endings, NEW http \in Nat, NEW pause \in Nat,
         Ended(d, end, http, pause)
  PROVE  /\ attempts' \in Seq(Attempt) /\ Len(attempts') = Len(attempts)
         /\ Len(attempts) \in Nat \ {0}
         /\ attempts'[Len(attempts)].end = end /\ attempts'[Len(attempts)].status = http
         /\ attempts'[Len(attempts)].ended = now + d
         /\ attempts'[Len(attempts)].pause = pause
         /\ \A i \in 1..(Len(attempts') - 1) : WellFollowed(i)'
<1> DEFINE n == Len(attempts)
           new == [attempts[n] EXCEPT !.ended = now + d, !.end = end,
                                      !.status = http, !.pause = pause]
<1>1. attempts \in Seq(Attempt) /\ n \in Nat /\ n = index + 1 /\ index \in Nat
      /\ now \in Nat
  BY DEF RequestInv, CountInv, RequestTypeOK
<1>2. n \in 1..n
  BY <1>1
<1>3. attempts[n] \in Attempt
  BY <1>1, <1>2
<1>4. /\ new \in Attempt /\ new.at = attempts[n].at /\ new.ended = now + d
      /\ new.end = end /\ new.status = http /\ new.pause = pause
  <2>1. now + d \in Nat
    BY <1>1
  <2>2. PICK a \in Attempt : a = attempts[n]
    BY <1>3
  <2>3. PICK x \in Nat : x = now + d
    BY <2>1
  <2>4. new = [a EXCEPT !.ended = x, !.end = end, !.status = http, !.pause = pause]
    BY <2>2, <2>3
  <2>5. new \in Attempt
    BY <2>4 DEF Attempt
  <2>6. /\ new.at = a.at /\ new.ended = x /\ new.end = end
        /\ new.status = http /\ new.pause = pause
    BY <2>4 DEF Attempt
  <2> QED BY <2>2, <2>3, <2>5, <2>6
<1>5. attempts' = [attempts EXCEPT ![n] = new]
  BY DEF Ended
<1> HIDE DEF new
<1>6. /\ attempts' \in Seq(Attempt) /\ Len(attempts') = n /\ attempts'[n] = new
      /\ \A i \in 1..n : i # n => attempts'[i] = attempts[i]
  BY <1>1, <1>2, <1>4, <1>5
<1>7. \A i \in 1..n : attempts'[i].at = attempts[i].at
  BY <1>4, <1>6
<1>8. ASSUME NEW i \in 1..(n - 1) PROVE WellFollowed(i)'
  <2>1. WellFollowed(i)
    BY DEF RequestInv, FollowInv
  <2>2. i \in 1..n /\ i + 1 \in 1..n /\ i # n
    BY <1>1
  <2>3. attempts'[i] = attempts[i] /\ attempts'[i + 1].at = attempts[i + 1].at
    BY <1>6, <1>7, <2>2
  <2> QED BY <2>1, <2>3 DEF WellFollowed
<1> QED BY <1>1, <1>4, <1>6, <1>8

\* A request that is over: only what its attempts were is claimed.
LEMMA AtRest ==
  ASSUME RequestTypeOK', phase' \in {"idle", "stopped"}, LateInv',
         attempts' \in Seq(Attempt), index' <= MaxRetries,
         Len(attempts') <= MaxRetries + 1,
         \A i \in 1..(Len(attempts') - 1) : WellFollowed(i)'
  PROVE  RequestInv'
BY DEF RequestInv, CountInv, FollowInv, ReadyInv, CostInv

\* A step that leaves the attempts alone and ends the request.
LEMMA Stopped ==
  ASSUME RequestInv, RequestTypeOK', phase' = "stopped",
         UNCHANGED <<attempts, index, began, late, cancelled>>
  PROVE  RequestInv'
<1>1. /\ attempts' \in Seq(Attempt) /\ index' <= MaxRetries
      /\ Len(attempts') <= MaxRetries + 1
  BY DEF RequestInv, CountInv
<1>2. \A i \in 1..(Len(attempts') - 1) : WellFollowed(i)'
  BY DEF RequestInv, FollowInv, WellFollowed
<1>3. LateInv'
  BY DEF RequestInv, LateInv
<1> QED BY <1>1, <1>2, <1>3, AtRest

\* A new request has no attempts yet.
LEMMA Fresh ==
  ASSUME RequestTypeOK', phase' = "check", index' = 0, attempts' = <<>>, LateInv'
  PROVE  RequestInv'
<1>1. attempts' \in Seq(Attempt) /\ Len(attempts') = 0
  OBVIOUS
<1> QED BY <1>1, LimitFacts DEF RequestInv, CountInv, FollowInv, LastRejected, ReadyInv,
                                CostInv

LEMMA CheckStep == RequestInv /\ RequestTypeOK' /\ Check => RequestInv'
<1> SUFFICES ASSUME RequestInv, RequestTypeOK', Check PROVE RequestInv'
  OBVIOUS
<1>1. phase = "check"
      /\ UNCHANGED <<now, began, index, error, left, cancelled, cap, cost, unpriced,
                     attempts, late>>
  BY DEF Check, clock, totals
<1>2. CASE phase' = "stopped"
  BY <1>1, <1>2, Stopped
<1>3. CASE phase' # "stopped"
  <2>1. /\ phase' = "ready" /\ ~OverBudget(now, cost, unpriced)
        /\ error = NoError \/ now - began < MaxRetryTime
    BY <1>3 DEF Check, Stop
  <2>2. ~cancelled /\ (MaxRunTime # NoCap => now < MaxRunTime)
        /\ (cap # NoCap => unpriced = 0 /\ cost < cap)
    BY <2>1, LimitFacts DEF OverBudget, RequestInv, RequestTypeOK
  <2>3. Len(attempts) > 0 => error.retryable
    BY <1>1 DEF RequestInv, FollowInv, LastRejected
  <2>4. Len(attempts) > 0 => now < began + MaxRetryTime
    <3> SUFFICES ASSUME Len(attempts) > 0 PROVE now < began + MaxRetryTime
      OBVIOUS
    <3>1. error # NoError
      BY <2>3 DEF NoError
    <3>2. now \in Nat /\ began \in Nat
      BY DEF RequestInv, RequestTypeOK
    <3> QED BY <2>1, <3>1, <3>2, LimitFacts
  <2>5. CountInv' /\ FollowInv'
    BY <1>1, <2>1 DEF RequestInv, CountInv, FollowInv, WellFollowed, LastRejected
  <2>6. ReadyInv' /\ LateInv' /\ CostInv'
    BY <1>1, <2>1, <2>2, <2>4 DEF RequestInv, ReadyInv, LateInv, CostInv
  <2> QED BY <2>5, <2>6 DEF RequestInv
<1> QED BY <1>2, <1>3

LEMMA SendStep == RequestInv /\ RequestTypeOK' /\ Send => RequestInv'
<1> SUFFICES ASSUME RequestInv, RequestTypeOK', Send PROVE RequestInv'
  OBVIOUS
<1> DEFINE t == [at |-> now, ended |-> now, end |-> "none", status |-> 0, pause |-> 0]
           n == Len(attempts)
<1>1. /\ phase = "ready" /\ phase' = "sent" /\ attempts' = Append(attempts, t)
      /\ late' = late + (IF cancelled THEN 1 ELSE 0)
      /\ UNCHANGED <<now, began, index, error, left, cancelled, cap, cost, unpriced>>
  BY DEF Send, clock, totals
<1>2. attempts \in Seq(Attempt) /\ n = index /\ index \in Nat /\ index <= MaxRetries
  BY <1>1 DEF RequestInv, CountInv, RequestTypeOK
<1>3. t \in Attempt /\ t.at = now
  BY DEF RequestInv, RequestTypeOK, Attempt, Endings
<1> HIDE DEF t
<1>4. /\ attempts' \in Seq(Attempt) /\ Len(attempts') = n + 1 /\ attempts'[n + 1] = t
      /\ \A i \in 1..n : attempts'[i] = attempts[i]
  BY <1>1, <1>2, <1>3
<1>5. CountInv'
  BY <1>1, <1>2, <1>4, LimitFacts DEF CountInv
<1>6. ASSUME NEW i \in 1..n PROVE WellFollowed(i)'
  <2>1. CASE i = n
    <3>1. n > 0 /\ LastRejected /\ ReadyInv /\ n \in 1..n
      BY <1>1, <1>2, <2>1 DEF RequestInv, FollowInv
    <3>2. attempts'[i] = attempts[n] /\ attempts'[i + 1].at = now
      BY <1>3, <1>4, <2>1, <3>1
    <3> QED BY <1>1, <3>1, <3>2 DEF LastRejected, ReadyInv, WellFollowed
  <2>2. CASE i # n
    <3>1. i \in 1..(n - 1) /\ i + 1 \in 1..n
      BY <1>2, <2>2
    <3>2. WellFollowed(i)
      BY <3>1 DEF RequestInv, FollowInv
    <3>3. attempts'[i] = attempts[i] /\ attempts'[i + 1] = attempts[i + 1]
      BY <1>4, <3>1
    <3> QED BY <1>1, <3>2, <3>3 DEF WellFollowed
  <2> QED BY <2>1, <2>2
<1>7. FollowInv'
  BY <1>1, <1>2, <1>4, <1>6 DEF FollowInv
<1>8. LateInv'
  BY <1>1 DEF RequestInv, LateInv, RequestTypeOK
<1>9. ReadyInv' /\ CostInv'
  BY <1>1 DEF RequestInv, ReadyInv, CostInv
<1> QED BY <1>5, <1>7, <1>8, <1>9 DEF RequestInv

LEMMA RespondStep ==
  ASSUME RequestInv, RequestTypeOK', NEW d \in Durations, NEW priced \in BOOLEAN,
         Respond(d, priced)
  PROVE  RequestInv'
<1>1. /\ phase = "sent" /\ phase' \in {"idle", "stopped"} /\ d \in Nat
      /\ UNCHANGED <<began, index, cancelled, late>> /\ Ended(d, "answer", 0, 0)
  BY LimitFacts DEF Respond, Stop
<1>2. /\ attempts' \in Seq(Attempt) /\ Len(attempts') = Len(attempts)
      /\ \A i \in 1..(Len(attempts') - 1) : WellFollowed(i)'
  BY <1>1, EndedFacts DEF Endings
<1>3. index' <= MaxRetries /\ Len(attempts') <= MaxRetries + 1 /\ LateInv'
  BY <1>1, <1>2 DEF RequestInv, CountInv, LateInv
<1> QED BY <1>1, <1>2, <1>3, AtRest

LEMMA FailStep ==
  ASSUME RequestInv, RequestTypeOK', NEW d \in Durations, NEW e \in Errors, NEW j \in Jitters,
         Fail(d, e, j)
  PROVE  RequestInv'
<1> DEFINE m == Classify(e)
           delay == Delay(j, m.after)
           why == StopReason(m, delay, now + d)
           n == Len(attempts)
<1>1. /\ phase = "sent" /\ d \in Nat /\ now' = now + d /\ error' = m
      /\ UNCHANGED <<began, index, cancelled, cost, late>>
      /\ Ended(d, e.ended, e.status, e.after)
      /\ \/ phase' = "stopped"
         \/ why = "none" /\ phase' = "waiting" /\ left' = delay
  BY LimitFacts DEF Fail, Stop
<1>2. e.after \in Nat /\ e.status \in Nat /\ e.ended \in Endings
  BY RetryAssumption DEF Error, Endings
<1>3. /\ attempts' \in Seq(Attempt) /\ Len(attempts') = n /\ n \in Nat \ {0}
      /\ attempts'[n].end = e.ended /\ attempts'[n].status = e.status
      /\ attempts'[n].ended = now + d
      /\ attempts'[n].pause = e.after
      /\ \A i \in 1..(Len(attempts') - 1) : WellFollowed(i)'
  BY <1>1, <1>2, EndedFacts
<1>4. index' <= MaxRetries /\ Len(attempts') <= MaxRetries + 1 /\ LateInv'
  BY <1>1, <1>3 DEF RequestInv, CountInv, LateInv
<1>5. CASE phase' = "stopped"
  BY <1>3, <1>4, <1>5, AtRest
<1>6. CASE phase' # "stopped"
  <2>1. why = "none" /\ phase' = "waiting" /\ left' = delay
    BY <1>1, <1>6
  <2>2. m.retryable /\ ~(index >= MaxRetries) /\ m.after \in Nat
    BY <2>1, ClassifyFacts DEF StopReason
  <2>3. Excused(attempts'[n]) /\ m.after = e.after
    BY <1>3, <2>2, ClassifyFacts DEF Excused, MayBeServed
  <2>4. delay \in Nat /\ delay >= e.after
    <3>1. index \in 0..MaxRetries
      BY LimitFacts DEF RequestInv, CountInv, RequestTypeOK
    <3>2. delay \in Nat /\ delay >= m.after
      BY <2>2, <3>1, DelayFacts
    <3> QED BY <2>3, <3>2
  <2>5. CountInv'
    BY <1>1, <1>3, <1>4, <2>1, <2>2, LimitFacts DEF RequestInv, CountInv, RequestTypeOK
  <2>6. now' + left' >= attempts'[n].ended + attempts'[n].pause
    <3>1. now \in Nat
      BY DEF RequestInv, RequestTypeOK
    <3> HIDE DEF delay, m
    <3> QED BY <1>1, <1>2, <1>3, <2>1, <2>4, <3>1
  <2>7. FollowInv'
    BY <1>1, <1>3, <2>1, <2>2, <2>3, <2>6 DEF FollowInv, LastRejected
  <2>8. ReadyInv' /\ CostInv'
    BY <2>1 DEF ReadyInv, CostInv
  <2> QED BY <1>4, <2>5, <2>7, <2>8 DEF RequestInv
<1> QED BY <1>5, <1>6

LEMMA AbandonStep ==
  ASSUME RequestInv, RequestTypeOK', NEW d \in Durations, NEW i \in BOOLEAN, Abandon(d, i)
  PROVE  RequestInv'
<1>1. /\ phase = "sent" /\ d \in Nat /\ UNCHANGED <<cancelled, late>>
      /\ \/ /\ phase' = "stopped" /\ UNCHANGED <<began, index>>
            /\ Ended(d, "interrupted", 0, 0) \/ Ended(d, "unreadable", 0, 0)
         \/ phase' = "check" /\ index' = 0 /\ attempts' = <<>>
  BY LimitFacts DEF Abandon, Stop
<1>2. LateInv'
  BY <1>1 DEF RequestInv, LateInv
<1>3. CASE phase' = "stopped"
  <2>1. /\ attempts' \in Seq(Attempt) /\ Len(attempts') = Len(attempts)
        /\ \A k \in 1..(Len(attempts') - 1) : WellFollowed(k)'
    BY <1>1, <1>3, EndedFacts DEF Endings
  <2>2. index' <= MaxRetries /\ Len(attempts') <= MaxRetries + 1
    BY <1>1, <1>3, <2>1 DEF RequestInv, CountInv
  <2> QED BY <1>2, <1>3, <2>1, <2>2, AtRest
<1>4. CASE phase' # "stopped"
  BY <1>1, <1>2, <1>4, Fresh
<1> QED BY <1>3, <1>4

LEMMA PollStep ==
  ASSUME RequestInv, RequestTypeOK', NEW o \in Oversleeps, Poll(o)
  PROVE  RequestInv'
<1>1. phase = "waiting" /\ left > 0
      /\ UNCHANGED <<began, index, error, cancelled, cap, cost, unpriced, attempts, late>>
  BY DEF Poll, totals
<1>2. CASE phase' = "stopped"
  BY <1>1, <1>2, Stopped
<1>3. CASE phase' # "stopped"
  <2>1. phase' = "waiting" /\ now' = now + 1 + o /\ left' = left - 1 /\ o \in Nat
    BY <1>1, <1>3, LimitFacts DEF Poll, Stop
  <2>2. Len(attempts) = index + 1 /\ attempts \in Seq(Attempt) /\ index \in Nat
    BY <1>1 DEF RequestInv, CountInv, RequestTypeOK
  <2>3. attempts[Len(attempts)] \in Attempt
    BY <2>2
  <2>4. LastRejected'
    <3>1. /\ now \in Nat /\ left \in Nat
          /\ attempts[Len(attempts)].ended \in Nat /\ attempts[Len(attempts)].pause \in Nat
      BY <2>3 DEF RequestInv, RequestTypeOK, Attempt
    <3>2. LastRejected
      BY <1>1 DEF RequestInv, FollowInv
    <3>3. Len(attempts) > 0
      BY <2>2
    <3>4. now + left >= attempts[Len(attempts)].ended + attempts[Len(attempts)].pause
      BY <1>1, <3>2, <3>3 DEF LastRejected
    <3>5. now' + left' >= attempts[Len(attempts)].ended + attempts[Len(attempts)].pause
      BY <2>1, <3>1, <3>4
    <3> QED BY <1>1, <2>1, <3>2, <3>5 DEF LastRejected
  <2>5. CountInv' /\ FollowInv'
    BY <1>1, <2>1, <2>4 DEF RequestInv, CountInv, FollowInv, WellFollowed
  <2> QED BY <1>1, <2>1, <2>5 DEF RequestInv, ReadyInv, LateInv, CostInv
<1> QED BY <1>2, <1>3

LEMMA RetryStep == RequestInv /\ RequestTypeOK' /\ Retry => RequestInv'
<1> SUFFICES ASSUME RequestInv, RequestTypeOK', Retry PROVE RequestInv'
  OBVIOUS
<1>1. phase = "waiting" /\ left = 0
      /\ UNCHANGED <<now, began, error, left, cancelled, cap, cost, unpriced, attempts, late>>
  BY DEF Retry, clock, totals
<1>2. CASE phase' = "stopped"
  BY <1>1, <1>2, Stopped DEF Retry, Stop
<1>3. CASE phase' # "stopped"
  <2>1. phase' = "check" /\ index' = index + 1
    BY <1>3 DEF Retry, Stop
  <2>2. CountInv'
    BY <1>1, <2>1, LimitFacts DEF RequestInv, CountInv, RequestTypeOK
  <2>3. now \in Nat /\ left = 0
    BY <1>1 DEF RequestInv, RequestTypeOK
  <2>4. LastRejected'
    BY <1>1, <2>1, <2>3 DEF RequestInv, FollowInv, LastRejected
  <2>5. FollowInv'
    BY <1>1, <2>1, <2>4 DEF RequestInv, FollowInv, WellFollowed
  <2> QED BY <1>1, <2>1, <2>2, <2>5 DEF RequestInv, ReadyInv, LateInv, CostInv
<1> QED BY <1>2, <1>3

LEMMA NextStep == RequestInv /\ [RequestNext]_requestVars => RequestInv'
<1> SUFFICES ASSUME RequestInv, [RequestNext]_requestVars PROVE RequestInv'
  OBVIOUS
<1>0. RequestTypeOK'
  BY TypeStep DEF RequestInv
<1>1. CASE UNCHANGED requestVars
  BY <1>0, <1>1 DEF requestVars, RequestInv, CountInv, FollowInv, WellFollowed,
                    LastRejected, ReadyInv, LateInv, CostInv
<1>2. CASE Check \/ Send \/ Retry
  BY <1>0, <1>2, CheckStep, SendStep, RetryStep
<1>3. CASE \E d \in Durations, priced \in BOOLEAN : Respond(d, priced)
  BY <1>0, <1>3, RespondStep
<1>4. CASE \E d \in Durations, e \in Errors, j \in Jitters : Fail(d, e, j)
  BY <1>0, <1>4, FailStep
<1>5. CASE \E d \in Durations, i \in BOOLEAN : Abandon(d, i)
  BY <1>0, <1>5, AbandonStep
<1>6. CASE \E o \in Oversleeps : Poll(o)
  BY <1>0, <1>6, PollStep
<1>7. CASE Cancel
  <2>1. cancelled' /\ UNCHANGED <<phase, now, began, index, error, left, cap, cost, unpriced,
                                  attempts, late>>
    BY <1>7 DEF Cancel, clock, totals
  <2> QED BY <1>0, <2>1 DEF RequestInv, CountInv, FollowInv, WellFollowed, LastRejected,
                            ReadyInv, LateInv, CostInv
<1>8. CASE \E c \in {"auto", "required"} : Begin(c)
  <2>1. phase' = "check" /\ index' = 0 /\ attempts' = <<>> /\ UNCHANGED <<late, cancelled>>
    BY <1>8 DEF Begin
  <2>2. LateInv'
    BY <2>1 DEF RequestInv, LateInv
  <2> QED BY <1>0, <2>1, <2>2, Fresh
<1> QED BY <1>1, <1>2, <1>3, <1>4, <1>5, <1>6, <1>7, <1>8 DEF RequestNext, Step

\* The invariant holds throughout.
THEOREM RequestInvariance == RequestSpec => []RequestInv
<1>1. RequestInit => RequestInv
  <2> SUFFICES ASSUME RequestInit PROVE RequestInv
    OBVIOUS
  <2>1. RequestTypeOK
    <3>1. NoError \in [retryable : BOOLEAN, after : Nat,
                       state : {"none", "rejected", "unknown"}]
      BY DEF NoError
    <3>2. {now, began, index, left, cost, unpriced, requests, late} \subseteq Nat
      BY DEF RequestInit
    <3> QED BY <3>1, <3>2 DEF RequestInit, RequestTypeOK
  <2>2. attempts \in Seq(Attempt) /\ Len(attempts) = 0
    BY DEF RequestInit
  <2>3. CountInv
    BY <2>2, LimitFacts DEF RequestInit, CountInv
  <2>4. FollowInv
    BY <2>2 DEF RequestInit, FollowInv
  <2>5. ReadyInv /\ LateInv /\ CostInv
    BY DEF RequestInit, ReadyInv, LateInv, CostInv
  <2> QED BY <2>1, <2>3, <2>4, <2>5 DEF RequestInv
<1> QED BY <1>1, NextStep, PTL DEF RequestSpec

-----------------------------------------------------------------------------
\* A request that is asked instead of one whose answer was unreadable leaves
\* the choice to the model, and the unknown cost stops a run that caps it.
AgainInv ==
  again => /\ choice = "auto" /\ unpriced > 0
           /\ Len(attempts) > 0 => cap = NoCap

LEMMA AgainStep == RequestInv /\ AgainInv /\ [RequestNext]_requestVars => AgainInv'
<1> SUFFICES ASSUME RequestInv, AgainInv, [RequestNext]_requestVars PROVE AgainInv'
  OBVIOUS
<1>0. unpriced \in Nat /\ attempts \in Seq(Attempt)
  BY DEF RequestInv, RequestTypeOK, CountInv
\* Most steps leave what the invariant is about alone, but for the cost.
<1>1. ASSUME UNCHANGED <<again, choice, cap>>, unpriced' \in {unpriced, unpriced + 1},
             Len(attempts') = Len(attempts)
      PROVE  AgainInv'
  BY <1>0, <1>1 DEF AgainInv
<1>2. CASE UNCHANGED requestVars
  BY <1>1, <1>2 DEF requestVars
<1>3. CASE Check \/ Retry \/ Cancel
  BY <1>1, <1>3 DEF Check, Retry, Cancel, totals
<1>4. CASE Send
  <2>1. /\ phase = "ready" /\ UNCHANGED <<again, choice, cap, unpriced>>
    BY <1>4 DEF Send, totals
  <2>2. again => cap = NoCap
    BY <1>0, <2>1 DEF AgainInv, RequestInv, CostInv
  <2> QED BY <2>1, <2>2 DEF AgainInv
<1>5. ASSUME NEW d \in Durations, NEW priced \in BOOLEAN, Respond(d, priced) PROVE AgainInv'
  <2>1. /\ phase = "sent" /\ UNCHANGED <<began, again, choice, cap>> /\ d \in Nat
        /\ unpriced' \in {unpriced, unpriced + 1} /\ Ended(d, "answer", 0, 0)
    BY <1>0, <1>5, LimitFacts DEF Respond
  <2>2. Len(attempts') = Len(attempts)
    BY <2>1, EndedFacts DEF Endings
  <2> QED BY <1>1, <2>1, <2>2
<1>6. ASSUME NEW d \in Durations, NEW e \in Errors, NEW j \in Jitters, Fail(d, e, j)
      PROVE  AgainInv'
  <2>1. /\ phase = "sent" /\ UNCHANGED <<began, again, choice, cap>> /\ d \in Nat
        /\ unpriced' \in {unpriced, unpriced + 1} /\ Ended(d, e.ended, e.status, e.after)
    BY <1>0, <1>6, LimitFacts DEF Fail
  <2>2. e.ended \in Endings /\ e.status \in Nat /\ e.after \in Nat
    BY RetryAssumption DEF Error, Endings
  <2>3. Len(attempts') = Len(attempts)
    BY <2>1, <2>2, EndedFacts
  <2> QED BY <1>1, <2>1, <2>3
<1>7. ASSUME NEW d \in Durations, NEW i \in BOOLEAN, Abandon(d, i) PROVE AgainInv'
  <2>1. phase = "sent" /\ d \in Nat /\ unpriced' = unpriced + 1 /\ cap' = cap
    BY <1>7, LimitFacts DEF Abandon
  <2>2. CASE phase' = "stopped"
    <3>1. /\ UNCHANGED <<began, again, choice>>
          /\ Ended(d, "interrupted", 0, 0) \/ Ended(d, "unreadable", 0, 0)
      BY <1>7, <2>2 DEF Abandon, Stop
    <3>2. Len(attempts') = Len(attempts)
      BY <2>1, <3>1, EndedFacts DEF Endings
    <3> QED BY <1>1, <2>1, <3>1, <3>2
  <2>3. CASE phase' # "stopped"
    <3>1. choice' = "auto" /\ attempts' = <<>>
      BY <1>7, <2>3 DEF Abandon, Stop
    <3> QED BY <1>0, <2>1, <3>1 DEF AgainInv
  <2> QED BY <2>2, <2>3
<1>8. ASSUME NEW o \in Oversleeps, Poll(o) PROVE AgainInv'
  BY <1>1, <1>8 DEF Poll, totals
<1>9. ASSUME NEW c \in {"auto", "required"}, Begin(c) PROVE AgainInv'
  BY <1>9 DEF Begin, AgainInv
<1> QED BY <1>2, <1>3, <1>4, <1>5, <1>6, <1>7, <1>8, <1>9 DEF RequestNext, Step

\* A turn is sent again after an attempt that may have been served only if a
\* lost connection reads as the refusal of a server, or once after an answer
\* that could not be read, in a run that caps no cost: no timeout, no lost
\* connection without a status, no answer is ever followed by another attempt
\* (providers/errors.py, classify_provider_error; _complete_with_retry).
THEOREM OnlyKnownReplays == RequestSpec => []ReplaysKnown
<1>1. RequestInit => AgainInv
  BY DEF RequestInit, AgainInv
<1>2. RequestInv /\ AgainInv => ReplaysKnown
  <2> SUFFICES ASSUME RequestInv, AgainInv PROVE ReplaysKnown
    OBVIOUS
  <2>1. attempts \in Seq(Attempt)
    BY DEF RequestInv, CountInv
  <2>2. ASSUME NEW attempt \in Followed PROVE Excused(attempt)
    <3>1. PICK i \in 1..(Len(attempts) - 1) : attempt = attempts[i]
      BY DEF Followed
    <3> QED BY <3>1 DEF RequestInv, FollowInv, WellFollowed
  <2>3. attempts # <<>> => Len(attempts) > 0
    BY <2>1
  <2> QED BY <2>2, <2>3 DEF ReplaysKnown, Excused, AgainInv
<1> QED BY <1>1, <1>2, AgainStep, RequestInvariance, PTL DEF RequestSpec

\* Retries are bounded in number and in both times, and wait for what the
\* server asked; a run that must stop sends at most the attempt already
\* decided on (agent/orchestrator.py, _complete_with_retry).
THEOREM RequestsStayBounded == RequestSpec => []RequestsBounded
<1>1. RequestInv => RetriesBounded
  <2> SUFFICES ASSUME RequestInv PROVE RetriesBounded
    OBVIOUS
  <2>1. Len(attempts) <= MaxRetries + 1 /\ Len(attempts) \in Nat
    BY DEF RequestInv, CountInv
  <2>2. ASSUME NEW i \in Retries
        PROVE  /\ attempts[i].at < began + MaxRetryTime
               /\ MaxRunTime # NoCap => attempts[i].at < MaxRunTime
               /\ attempts[i].at >= attempts[i - 1].ended + attempts[i - 1].pause
    <3>1. i - 1 \in 1..(Len(attempts) - 1) /\ (i - 1) + 1 = i
      BY <2>1 DEF Retries
    <3>2. WellFollowed(i - 1)
      BY <3>1 DEF RequestInv, FollowInv
    <3> QED BY <3>1, <3>2 DEF WellFollowed
  <2> QED BY <2>1, <2>2 DEF RetriesBounded
<1>2. RequestInv => NothingSentOnceStopped
  BY DEF RequestInv, LateInv, CostInv, NothingSentOnceStopped, RequestTypeOK
<1> QED BY <1>1, <1>2, RequestInvariance, PTL DEF RequestsBounded
=============================================================================
