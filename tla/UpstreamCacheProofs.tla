------------------------- MODULE UpstreamCacheProofs -------------------------
(***************************************************************************)
(* What UpstreamCache guarantees for any number of reads, any TTLs and any *)
(* ceilings.  Assumed: ConstantsOK, nothing else.                          *)
(*                                                                         *)
(* The compare-and-delete argument is Owned: a winner that is inside its   *)
(* lock's TTL still finds its own token in Redis, with as much left of the *)
(* TTL as it has itself.                                                   *)
(***************************************************************************)
EXTENDS UpstreamCache, TLAPS

Binding  == {0} \cup UNION {1 .. n : n \in NegativeTtls}
Values   == {NoValue} \cup [age : 0 .. StaleMax, valid : 0 .. TooOld]
Locks    == {NoLock} \cup [owner : Readers \cup {"nobody"}, left : 1 .. LockTtl]
Carried  == {NoOutcome} \cup Ok \cup Failed

\* A suppressed look is still looking, or over with what it had.
Heeds(r) == suppressed[r] => /\ read[r].at \in {"idle", "negative"}
                             /\ At(r, "idle") /\ read[r].had => read[r].answer # "empty"

\* A read that polls has attempts left: the count never passes zero.
PollsOK == \A r \in Readers : read[r].at \in {"sleep", "polling"} => read[r].polls > 0

\* A winner inside its TTL has the lock, with what it has left itself.
Owned == \A r \in Readers : Timely(r) => lock = [owner |-> r, left |-> read[r].held]

-----------------------------------------------------------------------------
(* The lock and the numbers.                                               *)

\* What the operators of the model return.
LEMMA Shapes ==
  /\ NoRead \in Reads
  /\ Outcomes \subseteq {Thrown} \cup Ok \cup Failed
  /\ \A o \in Carried \cup Outcomes : Aged(o) \in Carried \cup Outcomes
  /\ \A o \in Carried : Aged(o) \in Carried
  /\ \A n \in Binding : Less(n) \in Binding
  /\ \A n \in NegativeTtls : n \in Binding
  /\ \A n \in 0 .. LockTtl : Less(n) \in 0 .. LockTtl
<1> USE ConstantsOK DEF ConstantsOK
<1>1. NoRead \in Reads
  BY DEF NoRead, Reads, Places, NoOutcome
<1>2. Outcomes \subseteq {Thrown} \cup Ok \cup Failed
  BY DEF Outcomes
<1>3. TooOld \in Nat
  BY DEF TooOld
<1>4. \A n \in 0 .. TooOld : Older(n) \in 0 .. TooOld
  BY <1>3 DEF Older
<1>5. \A o \in Ok : Aged(o) \in Ok
  BY <1>4 DEF Aged, Ok
<1>6. \A o \in {NoOutcome, Thrown} \cup Failed : Aged(o) = o
  BY DEF Aged, Failed, NoOutcome, Thrown
<1>7. ASSUME NEW n \in Binding PROVE Less(n) \in Binding
  <2>1. CASE n = 0
    BY <2>1 DEF Less, Binding
  <2>2. CASE n # 0
    <3>1. PICK t \in NegativeTtls : n \in 1 .. t
      BY <2>2 DEF Binding
    <3>2. Less(n) = 0 \/ Less(n) \in 1 .. t
      BY <3>1 DEF Less
    <3> QED
      BY <3>2 DEF Binding
  <2> QED
    BY <2>1, <2>2
<1>8. ASSUME NEW n \in NegativeTtls PROVE n \in Binding
  <2>1. n \in 1 .. n
    OBVIOUS
  <2> QED
    BY <2>1 DEF Binding
<1>9. \A n \in 0 .. LockTtl : Less(n) \in 0 .. LockTtl
  BY DEF Less
<1>10. /\ \A o \in Carried \cup Outcomes : Aged(o) \in Carried \cup Outcomes
       /\ \A o \in Carried : Aged(o) \in Carried
  BY <1>2, <1>5, <1>6, Zenon DEF Carried, Outcomes
<1> QED
  BY <1>1, <1>2, <1>7, <1>8, <1>9, <1>10, Zenon

\* Where a read may go.
LEMMA PlacesOK ==
  /\ "idle" \in Places /\ "negative" \in Places /\ "asking" \in Places /\ "kept" \in Places
  /\ "lock" \in Places /\ "loading" \in Places /\ "release" \in Places /\ "store" \in Places
  /\ "sleep" \in Places /\ "polling" \in Places
BY DEF Places

\* Only the read that moves changes.
LEMMA MovesOne ==
  ASSUME NEW r \in Readers, NEW local \in Reads, read \in [Readers -> Reads], Moves(r, local)
  PROVE  /\ read' \in [Readers -> Reads]
         /\ read'[r] = local
         /\ \A q \in Readers \ {r} : read'[q] = read[q]
BY DEF Moves

\* A read that is over has no token, and keeps what it had in hand.
LEMMA EndsOne ==
  ASSUME NEW r \in Readers, NEW what \in {"none", "value", "breach", "empty", "error"},
         read \in [Readers -> Reads], Ends(r, what)
  PROVE  /\ read' \in [Readers -> Reads]
         /\ ~read'[r].token
         /\ read'[r].at = "idle"
         /\ read'[r].had = read[r].had
         /\ read'[r].answer = IF Answered(r) THEN read[r].answer ELSE what
         /\ \A q \in Readers \ {r} : read'[q] = read[q]
<1> DEFINE local == [read[r] EXCEPT !.at = "idle", !.sweep = FALSE, !.kept = NoOutcome,
                           !.outcome = NoOutcome, !.token = FALSE, !.held = 0, !.polls = 0,
                           !.answer = IF Answered(r) THEN @ ELSE what]
<1>1. /\ local \in Reads
      /\ ~local.token /\ local.at = "idle" /\ local.had = read[r].had
      /\ local.answer = IF Answered(r) THEN read[r].answer ELSE what
  <2>1. 0 \in 0 .. LockTtl /\ 0 \in 0 .. PollAttempts
    BY ConstantsOK DEF ConstantsOK
  <2> QED
    BY <2>1, PlacesOK, ZenonT(40) DEF Reads, Answered
<1>2. Moves(r, local)
  BY Zenon DEF Ends
<1> QED
  BY <1>1, <1>2, MovesOne, Zenon

-----------------------------------------------------------------------------
(* Types.                                                                  *)

ReadsOK == read \in [Readers -> Reads]

\* Every step of a read leaves its locals in their ranges.
LEMMA ReadsStep == ReadsOK /\ PollsOK /\ [Next]_vars => ReadsOK'
<1> SUFFICES ASSUME ReadsOK, PollsOK, [Next]_vars PROVE ReadsOK'
  OBVIOUS
<1> USE DEF ReadsOK
<1>0. /\ NoRead \in Reads
      /\ PollAttempts > 0
      /\ 0 \in 0 .. LockTtl /\ 0 \in 0 .. PollAttempts
      /\ LockTtl \in 0 .. LockTtl /\ PollAttempts \in 0 .. PollAttempts
  BY Shapes, ConstantsOK DEF ConstantsOK
<1>1. ASSUME NEW r \in Readers, NEW local, Moves(r, local), local \in Reads
      PROVE  ReadsOK'
  BY <1>1, MovesOne, Zenon
<1>2. ASSUME NEW r \in Readers, NEW what \in {"none", "value", "breach", "empty", "error"},
             Ends(r, what)
      PROVE  ReadsOK'
  BY <1>2, EndsOne, Zenon
<1>3. ASSUME NEW r \in Readers, NEW sweep \in BOOLEAN, NEW kept \in Carried,
             Looks(r, sweep, kept)
      PROVE  ReadsOK'
  <2>1. PICK seen \in ValueSeen :
          LET begun == [NoRead EXCEPT !.sweep = sweep, !.kept = kept, !.had = Usable(seen)]
          IN Moves(r, IF IsFresh(seen) THEN [begun EXCEPT !.answer = "value", !.sweep = FALSE,
                                                          !.kept = NoOutcome]
                      ELSE [begun EXCEPT !.at = "negative"])
    BY <1>3, Zenon DEF Looks
  <2>2. Usable(seen) \in BOOLEAN
    BY DEF Usable
  <2> QED
    BY <1>0, <1>1, <2>1, <2>2, PlacesOK, Zenon DEF Reads, Carried
<1>4. ASSUME NEW r \in Readers, BeginRead(r) \/ BeginSweep(r) \/ SweepReads(r)
      PROVE  ReadsOK'
  BY <1>3, <1>4, Zenon DEF BeginRead, BeginSweep, SweepReads, Reads, Carried
<1>5. ASSUME NEW r \in Readers, LooksForNegative(r) PROVE ReadsOK'
  BY <1>1, <1>2, <1>5, PlacesOK, ZenonT(40) DEF LooksForNegative, Reads
<1>6. ASSUME NEW r \in Readers, NEW outcome \in Outcomes, SweepAsks(r, outcome)
      PROVE  ReadsOK'
  <2>1. outcome = Thrown \/ outcome \in Carried
    BY Shapes, Zenon DEF Carried
  <2> QED
    BY <1>1, <1>2, <1>6, <2>1, PlacesOK, ZenonT(40) DEF SweepAsks, Reads, Carried
<1>7. ASSUME NEW r \in Readers, Acquires(r) PROVE ReadsOK'
  BY <1>0, <1>1, <1>7, PlacesOK, Zenon DEF Acquires, Reads
<1>8. ASSUME NEW r \in Readers, Loses(r) PROVE ReadsOK'
  BY <1>0, <1>1, <1>2, <1>8, PlacesOK, Zenon DEF Loses, Reads, Carried
<1>9. ASSUME NEW r \in Readers, LockFails(r) PROVE ReadsOK'
  BY <1>1, <1>9, PlacesOK, Zenon DEF LockFails, Goto, Reads
<1>10. ASSUME NEW r \in Readers, NEW outcome \in Outcomes, Loads(r, outcome)
       PROVE  ReadsOK'
  BY <1>1, <1>2, <1>10, PlacesOK, ZenonT(40) DEF Loads, Reads
<1>11. ASSUME NEW r \in Readers, Releases(r) PROVE ReadsOK'
  BY <1>0, <1>1, <1>2, <1>11, PlacesOK, Zenon DEF Releases, Reads
<1>12. ASSUME NEW r \in Readers, StoresValue(r) \/ StoresFailure(r) \/ StoreFails(r)
       PROVE  ReadsOK'
  <2>1. Published(read[r].outcome) \in {"none", "value", "breach", "empty", "error"}
    BY DEF Published
  <2> QED
    BY <1>2, <1>12, <2>1, Zenon DEF StoresValue, StoresFailure, StoreFails
<1>13. ASSUME NEW r \in Readers, PollsValue(r) PROVE ReadsOK'
  BY <1>1, <1>2, <1>13, PlacesOK, ZenonT(40) DEF PollsValue, Goto, Reads
<1>14. ASSUME NEW r \in Readers, PollsNegative(r) PROVE ReadsOK'
  <2>1. PICK seen \in NegativeSeen :
          IF seen > 0 \/ PollsLeft(r) = 0 THEN Ends(r, "empty")
          ELSE Moves(r, [read[r] EXCEPT !.at = "sleep", !.polls = PollsLeft(r)])
    BY <1>14, Zenon DEF PollsNegative
  <2>2. read[r] \in Reads /\ read[r].at = "polling"
    BY <1>14, Zenon DEF PollsNegative, At
  <2>3. read[r].polls \in 0 .. PollAttempts /\ read[r].polls > 0
    BY <2>2, Zenon DEF PollsOK, Reads
  <2>4. PollsLeft(r) \in 0 .. PollAttempts /\ (PollsLeft(r) # 0 => PollsLeft(r) > 0)
    BY <2>3, ConstantsOK DEF PollsLeft, ConstantsOK
  <2> QED
    BY <1>1, <1>2, <2>1, <2>2, <2>4, PlacesOK, Zenon DEF Reads
<1>15. ASSUME NEW r \in Readers, Dies(r) PROVE ReadsOK'
  BY <1>0, <1>1, <1>15, Zenon DEF Dies
<1>16. CASE Tick
  <2>1. read' = [r \in Readers |-> [read[r] EXCEPT !.held = Less(@), !.kept = Aged(@),
                                                    !.outcome = Aged(@)]]
    BY <1>16, Zenon DEF Tick
  <2>2. ASSUME NEW r \in Readers
        PROVE  [read[r] EXCEPT !.held = Less(@), !.kept = Aged(@), !.outcome = Aged(@)] \in Reads
    <3>1. /\ Less(read[r].held) \in 0 .. LockTtl
          /\ Aged(read[r].kept) \in Carried
      BY Shapes, Zenon DEF Reads, Carried
    <3>2. Aged(read[r].outcome) \in {NoOutcome} \cup Outcomes
      BY Shapes, Zenon DEF Reads, Carried, Outcomes
    <3> QED
      BY <3>1, <3>2, Zenon DEF Reads, Carried
  <2> QED
    BY <2>1, <2>2, Zenon
<1>17. CASE UNCHANGED vars
  BY <1>17, Zenon DEF vars
<1> QED
  BY <1>4, <1>5, <1>6, <1>7, <1>8, <1>9, <1>10, <1>11, <1>12, <1>13, <1>14, <1>15, <1>16, <1>17,
     Zenon DEF Next, Begins, GoesOn

-----------------------------------------------------------------------------
(* What a read knows of itself.                                            *)

Acts(r) == Begins(r) \/ GoesOn(r) \/ Dies(r)

\* A read moves itself only, and a marker of another read is only taken away.
LEMMA OthersStay ==
  ASSUME NEW r \in Readers, NEW q \in Readers \ {r}, ReadsOK, suppressed \in [Readers -> BOOLEAN],
         Acts(r)
  PROVE  read'[q] = read[q] /\ (suppressed'[q] => suppressed[q])
<1> USE DEF ReadsOK
<1>1. ASSUME NEW local, Moves(r, local) PROVE read'[q] = read[q]
  BY <1>1, Zenon DEF Moves
<1>2. ASSUME NEW what, Ends(r, what) PROVE read'[q] = read[q]
  BY <1>1, <1>2, Zenon DEF Ends
<1>3. ASSUME NEW where, Goto(r, where) PROVE read'[q] = read[q]
  BY <1>1, <1>3, Zenon DEF Goto
<1>4. read'[q] = read[q]
  BY <1>1, <1>2, <1>3, Zenon
     DEF Acts, Begins, GoesOn, Dies, BeginRead, BeginSweep, SweepReads, Looks, LooksForNegative,
         SweepAsks, Acquires, Loses, LockFails, Loads, Releases, StoresValue, StoresFailure,
         StoreFails, PollsValue, PollsNegative
<1>5. suppressed'[q] => suppressed[q]
  BY Zenon
     DEF Acts, Begins, GoesOn, Dies, BeginRead, BeginSweep, SweepReads, Looks, LooksForNegative,
         Overlooks, SweepAsks, Acquires, Loses, LockFails, Loads, Releases, StoresValue,
         StoresFailure, StoreFails, PollsValue, PollsNegative
<1> QED
  BY <1>4, <1>5

Knows(r) ==
  /\ read[r].at \in {"sleep", "polling"} => read[r].polls > 0
  /\ At(r, "negative") => read[r].answer = "none"
  /\ Heeds(r)

\* What a read knows of itself stays true as it moves.
LEMMA KnowsStep ==
  ASSUME NEW r \in Readers, ReadsOK, suppressed \in [Readers -> BOOLEAN], Knows(r), Acts(r)
  PROVE  Knows(r)'
<1> USE DEF ReadsOK
<1>0. /\ read[r] \in Reads
      /\ PollAttempts > 0
      /\ PollsLeft(r) # 0 /\ read[r].polls > 0 => PollsLeft(r) > 0
  BY ConstantsOK DEF ConstantsOK, PollsLeft, Reads
\* Where a read goes when it does not look for a negative entry next.
<1>1. ASSUME NEW local \in Reads, Moves(r, local), ~suppressed'[r], local.at # "negative",
             local.at \in {"sleep", "polling"} => local.polls > 0
      PROVE  Knows(r)'
  BY <1>1, MovesOne, Zenon DEF Knows, Heeds, At
<1>2. ASSUME NEW what \in {"none", "value", "breach", "empty", "error"}, Ends(r, what),
             ~suppressed'[r]
      PROVE  Knows(r)'
  BY <1>2, EndsOne, Zenon DEF Knows, Heeds, At
<1>3. ASSUME NEW sweep \in BOOLEAN, NEW kept \in Carried, Looks(r, sweep, kept)
      PROVE  Knows(r)'
  <2>1. PICK seen \in ValueSeen :
          LET begun == [NoRead EXCEPT !.sweep = sweep, !.kept = kept, !.had = Usable(seen)]
          IN Moves(r, IF IsFresh(seen) THEN [begun EXCEPT !.answer = "value", !.sweep = FALSE,
                                                          !.kept = NoOutcome]
                      ELSE [begun EXCEPT !.at = "negative"])
    BY <1>3, Zenon DEF Looks
  <2>2. \/ read'[r].at = "idle" /\ read'[r].answer = "value"
        \/ read'[r].at = "negative" /\ read'[r].answer = "none"
    BY <2>1 DEF Moves, NoRead
  <2> QED
    BY <2>2, Zenon DEF Knows, Heeds, At
<1>4. CASE BeginRead(r) \/ BeginSweep(r) \/ SweepReads(r)
  BY <1>3, <1>4, Zenon DEF BeginRead, BeginSweep, SweepReads, Reads, Carried
<1>5. CASE LooksForNegative(r)
  <2>0. read[r].at = "negative" /\ read[r].answer = "none"
    BY <1>5, Zenon DEF LooksForNegative, Knows, At
  <2>1. PICK seen \in NegativeSeen :
          /\ Overlooks(r, seen)
          /\ \/ Binds(r, seen) /\ Ends(r, IF read[r].had THEN "value" ELSE "empty")
             \/ /\ ~Binds(r, seen)
                /\ IF read[r].sweep THEN Moves(r, [read[r] EXCEPT !.at = "asking", !.had = FALSE])
                   ELSE Moves(r, [read[r] EXCEPT !.at = "lock", !.had = FALSE,
                                        !.answer = IF read[r].had THEN "value" ELSE "none"])
    BY <1>5, Zenon DEF LooksForNegative
  <2>2. CASE Binds(r, seen)
    <3>1. Ends(r, IF read[r].had THEN "value" ELSE "empty")
      BY <2>1, <2>2, Zenon
    <3>2. /\ read'[r].at = "idle"
          /\ read'[r].had = read[r].had
          /\ read'[r].answer = IF read[r].had THEN "value" ELSE "empty"
      BY <2>0, <3>1, EndsOne, Zenon DEF Answered
    <3> QED
      BY <3>2, Zenon DEF Knows, Heeds, At
  <2>3. CASE ~Binds(r, seen)
    <3>1. ~suppressed'[r]
      BY <2>1, <2>3, Zenon DEF Overlooks, Binds
    <3> QED
      BY <1>0, <1>1, <2>1, <2>3, <3>1, PlacesOK, ZenonT(40) DEF Reads
  <2> QED
    BY <2>2, <2>3
<1>6. ASSUME read[r].at \notin {"idle", "negative"}, UNCHANGED suppressed PROVE ~suppressed'[r]
  BY <1>6, Zenon DEF Knows, Heeds
<1>7. ASSUME NEW outcome \in Outcomes, SweepAsks(r, outcome) PROVE Knows(r)'
  <2>1. outcome = Thrown \/ outcome \in Carried
    BY Shapes, Zenon DEF Carried
  <2> QED
    BY <1>0, <1>1, <1>2, <1>6, <1>7, <2>1, PlacesOK, Zenon DEF SweepAsks, At, Reads, Carried
<1>8. CASE Acquires(r)
  <2>1. LockTtl \in 0 .. LockTtl
    BY ConstantsOK DEF ConstantsOK
  <2> QED
    BY <1>0, <1>1, <1>6, <1>8, <2>1, PlacesOK, Zenon DEF Acquires, At, Reads
<1>9. CASE Loses(r)
  <2>1. PollAttempts \in 0 .. PollAttempts
    BY ConstantsOK DEF ConstantsOK
  <2> QED
    BY <1>0, <1>1, <1>2, <1>6, <1>9, <2>1, PlacesOK, Zenon DEF Loses, At, Reads, Carried
<1>10. CASE LockFails(r)
  BY <1>0, <1>1, <1>6, <1>10, PlacesOK, Zenon DEF LockFails, Goto, At, Reads
<1>11. ASSUME NEW outcome \in Outcomes, Loads(r, outcome) PROVE Knows(r)'
  BY <1>0, <1>1, <1>2, <1>6, <1>11, PlacesOK, Zenon DEF Loads, At, Reads
<1>12. CASE Releases(r)
  <2>1. 0 \in 0 .. LockTtl
    BY ConstantsOK DEF ConstantsOK
  <2> QED
    BY <1>0, <1>1, <1>2, <1>6, <1>12, <2>1, PlacesOK, Zenon DEF Releases, At, Reads
<1>13. CASE StoresValue(r) \/ StoresFailure(r) \/ StoreFails(r)
  <2>1. Published(read[r].outcome) \in {"none", "value", "breach", "empty", "error"}
    BY DEF Published
  <2>2. ~suppressed'[r]
    BY <1>6, <1>13, Zenon DEF StoresValue, StoresFailure, StoreFails, At
  <2> QED
    BY <1>2, <1>13, <2>1, <2>2, Zenon DEF StoresValue, StoresFailure, StoreFails
<1>14. CASE PollsValue(r)
  BY <1>0, <1>1, <1>2, <1>6, <1>14, PlacesOK, Zenon DEF PollsValue, Goto, Knows, At, Reads
<1>15. CASE PollsNegative(r)
  <2>1. PICK seen \in NegativeSeen :
          IF seen > 0 \/ PollsLeft(r) = 0 THEN Ends(r, "empty")
          ELSE Moves(r, [read[r] EXCEPT !.at = "sleep", !.polls = PollsLeft(r)])
    BY <1>15, Zenon DEF PollsNegative
  <2>2. read[r].at = "polling" /\ read[r].polls \in 0 .. PollAttempts /\ read[r].polls > 0
    BY <1>0, <1>15, Zenon DEF PollsNegative, Knows, At, Reads
  <2>3. PollsLeft(r) \in 0 .. PollAttempts
    BY <2>2, ConstantsOK DEF PollsLeft, ConstantsOK
  <2>4. ~suppressed'[r]
    BY <1>6, <1>15, <2>2, Zenon DEF PollsNegative
  <2> QED
    BY <1>0, <1>1, <1>2, <2>1, <2>2, <2>3, <2>4, PlacesOK, Zenon DEF Reads
<1>16. CASE Dies(r)
  <2>1. read'[r].at = "idle" /\ ~read'[r].had
    BY <1>16 DEF Dies, Moves, NoRead
  <2> QED
    BY <2>1, Zenon DEF Knows, Heeds, At
<1> QED
  BY <1>4, <1>5, <1>7, <1>8, <1>9, <1>10, <1>11, <1>12, <1>13, <1>14, <1>15, <1>16, Zenon
     DEF Acts, Begins, GoesOn

-----------------------------------------------------------------------------
(* The lock.                                                               *)

\* Only a read that takes the lock becomes its timely owner.
LEMMA BecomesTimely ==
  ASSUME NEW r \in Readers, ReadsOK, Acts(r), Timely(r)'
  PROVE  Acquires(r) \/ (~Releases(r) /\ Timely(r) /\ read'[r].held = read[r].held)
<1> USE DEF ReadsOK
<1> DEFINE Same == read'[r].token = read[r].token /\ read'[r].held = read[r].held
<1>0. read[r] \in Reads
  BY Zenon
<1>1. ASSUME NEW what, Ends(r, what) PROVE FALSE
  <2>1. ~read'[r].token
    BY <1>0, <1>1 DEF Ends, Moves, Reads
  <2> QED
    BY <2>1, Zenon DEF Timely
<1>2. ASSUME NEW local, Moves(r, local), local.token = read[r].token, local.held = read[r].held
      PROVE  Same
  BY <1>2 DEF Moves
<1>3. ASSUME NEW where, Goto(r, where) PROVE Same
  BY <1>0, <1>2, <1>3, Zenon DEF Goto, Reads
<1>4. ASSUME BeginRead(r) \/ BeginSweep(r) \/ SweepReads(r) PROVE FALSE
  <2>1. PICK sweep, kept : Looks(r, sweep, kept)
    BY <1>4, Zenon DEF BeginRead, BeginSweep, SweepReads
  <2>2. PICK seen \in ValueSeen :
          LET begun == [NoRead EXCEPT !.sweep = sweep, !.kept = kept, !.had = Usable(seen)]
          IN Moves(r, IF IsFresh(seen) THEN [begun EXCEPT !.answer = "value", !.sweep = FALSE,
                                                          !.kept = NoOutcome]
                      ELSE [begun EXCEPT !.at = "negative"])
    BY <2>1, Zenon DEF Looks
  <2>3. ~read'[r].token
    BY <2>2 DEF Moves, NoRead
  <2> QED
    BY <2>3, Zenon DEF Timely
<1>5. ASSUME LooksForNegative(r) PROVE Same
  BY <1>0, <1>1, <1>2, <1>5, Zenon DEF LooksForNegative, Reads
<1>6. ASSUME NEW outcome \in Outcomes, SweepAsks(r, outcome) PROVE Same
  BY <1>0, <1>1, <1>2, <1>6, Zenon DEF SweepAsks, Reads
<1>7. ASSUME Loses(r) PROVE Same
  BY <1>0, <1>1, <1>2, <1>7, Zenon DEF Loses, Reads
<1>8. ASSUME LockFails(r) PROVE Same
  BY <1>3, <1>8, Zenon DEF LockFails
<1>9. ASSUME NEW outcome \in Outcomes, Loads(r, outcome) PROVE Same
  BY <1>0, <1>1, <1>2, <1>9, Zenon DEF Loads, Reads
<1>10. ASSUME Releases(r) PROVE FALSE
  <2>1. Ends(r, "error") \/ Moves(r, [read[r] EXCEPT !.at = "store", !.token = FALSE, !.held = 0])
    BY <1>10, Zenon DEF Releases
  <2>2. CASE Ends(r, "error")
    BY <1>1, <2>2
  <2>3. CASE Moves(r, [read[r] EXCEPT !.at = "store", !.token = FALSE, !.held = 0])
    <3>1. ~read'[r].token
      BY <2>3 DEF Moves, Reads
    <3> QED
      BY <3>1, Zenon DEF Timely
  <2> QED
    BY <2>1, <2>2, <2>3
<1>11. ASSUME StoresValue(r) \/ StoresFailure(r) \/ StoreFails(r) PROVE FALSE
  BY <1>1, <1>11, Zenon DEF StoresValue, StoresFailure, StoreFails
<1>12. ASSUME PollsValue(r) PROVE Same
  BY <1>1, <1>3, <1>12, Zenon DEF PollsValue
<1>13. ASSUME PollsNegative(r) PROVE Same
  BY <1>0, <1>1, <1>2, <1>13, Zenon DEF PollsNegative, Reads
<1>14. ASSUME Dies(r) PROVE FALSE
  BY <1>14 DEF Dies, Moves, NoRead, Timely
<1>15. Same => Timely(r)
  BY Zenon DEF Timely
<1>16. Releases(r) => FALSE
  BY <1>10
<1> QED
  BY <1>4, <1>5, <1>6, <1>7, <1>8, <1>9, <1>10, <1>11, <1>12, <1>13, <1>14, <1>15, <1>16, Zenon
     DEF Acts, Begins, GoesOn

\* However a read moves, a timely winner still finds its token in Redis.
LEMMA OwnedStep ==
  ASSUME NEW r \in Readers, ReadsOK, suppressed \in [Readers -> BOOLEAN], Owned, Acts(r)
  PROVE  Owned'
<1> SUFFICES ASSUME NEW q \in Readers, Timely(q)'
             PROVE  lock' = [owner |-> q, left |-> read'[q].held]
  BY DEF Owned, Timely
<1>1. CASE q = r /\ Acquires(r)
  <2>1. Moves(r, [read[r] EXCEPT !.at = "loading", !.token = TRUE, !.held = LockTtl])
    BY <1>1, Zenon DEF Acquires
  <2>2. read'[r].held = LockTtl
    BY <2>1 DEF Moves, ReadsOK, Reads
  <2> QED
    BY <1>1, <2>2, Zenon DEF Acquires
<1>2. CASE ~(q = r /\ Acquires(r))
  <2>1. /\ Timely(q)
        /\ read'[q].held = read[q].held
        /\ q = r => ~Releases(r)
    <3>1. CASE q = r
      BY <1>2, <3>1, BecomesTimely, Zenon
    <3>2. CASE q # r
      BY <3>2, OthersStay, Zenon DEF Timely
    <3> QED
      BY <3>1, <3>2
  <2>2. lock = [owner |-> q, left |-> read[q].held] /\ read[q].held > 0
    BY <2>1, Zenon DEF Owned, Timely
  <2>3. lock # NoLock /\ lock.owner = q
    BY <2>2 DEF NoLock
  <2>4. ~Dies(q)
    <3>1. ASSUME Dies(q) PROVE ~Timely(q)'
      BY <3>1 DEF Dies, Moves, NoRead, Timely, ReadsOK
    <3> QED
      BY <3>1
  <2>5. \/ lock' = lock
        \/ Releases(r) /\ lock' \in {Released(r), Abandoned(r)}
        \/ Dies(r) /\ lock' = Abandoned(r)
    BY <2>3, Zenon
       DEF Acts, Begins, GoesOn, Dies, BeginRead, BeginSweep, SweepReads, Looks,
           LooksForNegative, SweepAsks, Acquires, Loses, LockFails, Orphaned, Loads, Releases,
           StoresValue, StoresFailure, StoreFails, PollsValue, PollsNegative
  <2>6. lock' = lock
    BY <2>1, <2>3, <2>4, <2>5, Zenon DEF Released, Abandoned
  <2> QED
    BY <2>1, <2>2, <2>6, Zenon
<1> QED
  BY <1>1, <1>2

\* What is left of the lock and what its owner believes run down together.
LEMMA OwnedTick == ReadsOK /\ Owned /\ Tick => Owned'
<1> SUFFICES ASSUME ReadsOK, Owned, Tick, NEW r \in Readers, Timely(r)'
             PROVE  lock' = [owner |-> r, left |-> read'[r].held]
  BY DEF Owned, Timely
<1>1. read'[r] = [read[r] EXCEPT !.held = Less(@), !.kept = Aged(@), !.outcome = Aged(@)]
  BY Zenon DEF Tick
<1>2. read[r] \in Reads
  BY Zenon DEF ReadsOK
<1>3. read'[r].token = read[r].token /\ read'[r].held = Less(read[r].held)
  BY <1>1, <1>2, Zenon DEF Reads
<1>4. /\ read[r].held \in Nat
      /\ read'[r].token /\ read'[r].held > 0
  BY <1>2, ConstantsOK DEF Reads, Timely, ConstantsOK
<1>5. read[r].held > 1 /\ read'[r].held = read[r].held - 1
  BY <1>3, <1>4 DEF Less
<1>6. read[r].held > 0
  BY <1>4, <1>5
<1>7. lock = [owner |-> r, left |-> read[r].held]
  BY <1>3, <1>4, <1>6, Zenon DEF Owned, Timely
<1>8. lock.left > 1 /\ ~(lock.left <= 1)
  BY <1>4, <1>5, <1>7
<1>9. lock' = [lock EXCEPT !.left = @ - 1]
  BY <1>8, Zenon DEF Tick
<1> QED
  BY <1>5, <1>7, <1>9

-----------------------------------------------------------------------------
(* The theorems.                                                           *)

\* Every step leaves the keys in Redis in their ranges.
LEMMA KeysStep ==
  ASSUME TypeOK, [Next]_vars
  PROVE  /\ value' \in Values
         /\ negative' \in Binding
         /\ lock' \in Locks
         /\ suppressed' \in [Readers -> BOOLEAN]
         /\ crashes' \in 0 .. MaxCrashes
<1> USE ConstantsOK DEF ConstantsOK
<1>0. /\ value \in Values
      /\ negative \in Binding
      /\ lock \in Locks
      /\ read \in [Readers -> Reads]
      /\ suppressed \in [Readers -> BOOLEAN]
      /\ crashes \in 0 .. MaxCrashes
  BY Zenon DEF TypeOK, Values, Binding, Locks
<1> DEFINE Markers == suppressed' \in [Readers -> BOOLEAN]
<1>1. \A r \in Readers : Released(r) \in Locks /\ Abandoned(r) \in Locks
  BY <1>0 DEF Released, Abandoned, Locks, NoLock
<1>2. Orphaned \in Locks
  BY <1>0 DEF Orphaned, Locks, NoLock
<1>3. \A r \in Readers : [owner |-> r, left |-> LockTtl] \in Locks
  BY DEF Locks
<1>4. ASSUME NEW r \in Readers, StoresValue(r)
      PROVE  value' \in Values
  <2>1. read[r].outcome \in {NoOutcome} \cup Outcomes /\ read[r].outcome.kind = "ok"
    BY <1>0, <1>4, Zenon DEF StoresValue, Reads
  <2>2. read[r].outcome \in Ok
    BY <2>1 DEF Outcomes, NoOutcome, Thrown, Failed
  <2>3. read[r].outcome.n \in 0 .. TooOld
    BY <2>2 DEF Ok
  <2>4. value' = [age |-> 0, valid |-> read[r].outcome.n]
    BY <1>4, Zenon DEF StoresValue
  <2> QED
    BY <2>3, <2>4 DEF Values
<1>5. ASSUME NEW r \in Readers, StoresFailure(r)
      PROVE  negative' \in Binding
  <2>1. read[r].outcome \in {NoOutcome} \cup Outcomes /\ read[r].outcome.kind = "failed"
    BY <1>0, <1>5, Zenon DEF StoresFailure, Reads
  <2>2. read[r].outcome.n \in NegativeTtls
    BY <2>1 DEF Outcomes, NoOutcome, Thrown, Ok, Failed
  <2> QED
    BY <1>5, <2>2, Shapes, Zenon DEF StoresFailure
<1>6. ASSUME NEW r \in Readers, Acts(r)
      PROVE  value' \in Values
  BY <1>0, <1>4, <1>6, Zenon
     DEF Acts, Begins, GoesOn, Dies, BeginRead, BeginSweep, SweepReads, Looks, LooksForNegative,
         SweepAsks, Acquires, Loses, LockFails, Loads, Releases, StoresFailure, StoreFails,
         PollsValue, PollsNegative
<1>7. ASSUME NEW r \in Readers, Acts(r)
      PROVE  negative' \in Binding
  BY <1>0, <1>5, <1>7, Zenon
     DEF Acts, Begins, GoesOn, Dies, BeginRead, BeginSweep, SweepReads, Looks, LooksForNegative,
         SweepAsks, Acquires, Loses, LockFails, Loads, Releases, StoresValue, StoreFails,
         PollsValue, PollsNegative
<1>8. ASSUME NEW r \in Readers, Acts(r)
      PROVE  lock' \in Locks
  BY <1>0, <1>1, <1>2, <1>3, <1>8, Zenon
     DEF Acts, Begins, GoesOn, Dies, BeginRead, BeginSweep, SweepReads, Looks, LooksForNegative,
         SweepAsks, Acquires, Loses, LockFails, Loads, Releases, StoresValue, StoresFailure,
         StoreFails, PollsValue, PollsNegative
<1>9. ASSUME NEW r \in Readers, Acts(r)
      PROVE  Markers
  <2>1. (negative > 0) \in BOOLEAN /\ \A seen : (suppressed[r] /\ seen > 0) \in BOOLEAN
    OBVIOUS
  <2>2. \A b \in BOOLEAN : [suppressed EXCEPT ![r] = b] \in [Readers -> BOOLEAN]
    BY <1>0
  <2>3. [q \in Readers |-> FALSE] \in [Readers -> BOOLEAN]
    OBVIOUS
  <2>4. \A sweep, kept : Looks(r, sweep, kept) => Markers
    BY <2>1, <2>2, Zenon DEF Looks
  <2>5. \A seen : Overlooks(r, seen) => Markers
    BY <2>1, <2>2, Zenon DEF Overlooks
  <2> QED
    BY <1>0, <1>9, <2>3, <2>4, <2>5, Zenon
       DEF Acts, Begins, GoesOn, Dies, BeginRead, BeginSweep, SweepReads, LooksForNegative,
           SweepAsks, Acquires, Loses, LockFails, Loads, Releases, StoresValue, StoresFailure,
           StoreFails, PollsValue, PollsNegative
<1>10. ASSUME NEW r \in Readers, Acts(r)
       PROVE  crashes' \in 0 .. MaxCrashes
  <2>1. Dies(r) => crashes' \in 0 .. MaxCrashes
    BY <1>0 DEF Dies
  <2> QED
    BY <1>0, <1>10, <2>1, Zenon
       DEF Acts, Begins, GoesOn, BeginRead, BeginSweep, SweepReads, Looks, LooksForNegative,
           SweepAsks, Acquires, Loses, LockFails, Loads, Releases, StoresValue, StoresFailure,
           StoreFails, PollsValue, PollsNegative
<1>11. CASE Tick
  <2>1. value' \in Values
    <3>1. ASSUME Kept(value)
          PROVE  [age |-> value.age + 1, valid |-> Older(value.valid)] \in Values
      <4>1. value \in [age : 0 .. StaleMax, valid : 0 .. TooOld] /\ value.age < StaleMax
        BY <1>0, <3>1, Zenon DEF Kept, Values
      <4>2. Older(value.valid) \in 0 .. TooOld
        BY <4>1 DEF Older, TooOld
      <4> QED
        BY <4>1, <4>2 DEF Values
    <3>2. NoValue \in Values
      BY DEF Values
    <3> QED
      BY <1>11, <3>1, <3>2, Zenon DEF Tick
  <2>2. negative' \in Binding
    BY <1>0, <1>11, Shapes, Zenon DEF Tick
  <2>3. lock' \in Locks
    <3>1. ~(lock.left <= 1) => [lock EXCEPT !.left = @ - 1] \in Locks
      BY <1>0 DEF Locks, NoLock
    <3>2. NoLock \in Locks
      BY DEF Locks
    <3> QED
      BY <1>11, <3>1, <3>2, Zenon DEF Tick
  <2>4. Markers
    BY <1>11 DEF Tick
  <2>5. crashes' \in 0 .. MaxCrashes
    BY <1>0, <1>11, Zenon DEF Tick
  <2> QED
    BY <2>1, <2>2, <2>3, <2>4, <2>5
<1>12. CASE UNCHANGED vars
  BY <1>0, <1>12, Zenon DEF vars
<1>13. \/ \E r \in Readers : Acts(r)
       \/ Tick
       \/ UNCHANGED vars
  BY Zenon DEF Next, Acts
<1> QED
  BY <1>6, <1>7, <1>8, <1>9, <1>10, <1>11, <1>12, <1>13, Zenon

IInv == TypeOK /\ Owned /\ \A r \in Readers : Knows(r)

LEMMA IInvInit == Init => IInv
<1> SUFFICES ASSUME Init PROVE IInv
  OBVIOUS
<1> USE ConstantsOK DEF ConstantsOK, Init
<1>1. TypeOK
  <2>1. read \in [Readers -> Reads]
    BY Shapes
  <2> QED
    BY <2>1 DEF TypeOK
<1>2. \A r \in Readers : read[r].at = "idle" /\ ~read[r].token /\ ~read[r].had
  BY DEF NoRead
<1>3. Owned
  BY <1>2, Zenon DEF Owned, Timely
<1>4. \A r \in Readers : Knows(r)
  BY <1>2, Zenon DEF Knows, Heeds, At
<1> QED
  BY <1>1, <1>3, <1>4, Zenon DEF IInv

LEMMA IInvStep == IInv /\ [Next]_vars => IInv'
<1> SUFFICES ASSUME IInv, [Next]_vars PROVE IInv'
  OBVIOUS
<1>0. /\ TypeOK /\ Owned /\ ReadsOK /\ PollsOK
      /\ suppressed \in [Readers -> BOOLEAN]
      /\ \A r \in Readers : Knows(r)
  BY Zenon DEF IInv, TypeOK, ReadsOK, PollsOK, Knows
<1>1. TypeOK'
  BY <1>0, KeysStep, ReadsStep, Zenon DEF TypeOK, ReadsOK, Values, Binding, Locks
<1>2. ASSUME NEW r \in Readers, Acts(r) PROVE Owned' /\ \A q \in Readers : Knows(q)'
  <2>1. Owned'
    BY <1>0, <1>2, OwnedStep, Zenon
  <2>2. ASSUME NEW q \in Readers PROVE Knows(q)'
    <3>1. CASE q = r
      BY <1>0, <1>2, <3>1, KnowsStep, Zenon
    <3>2. CASE q # r
      <4>1. read'[q] = read[q] /\ (suppressed'[q] => suppressed[q])
        BY <1>0, <1>2, <3>2, OthersStay, Zenon
      <4> QED
        BY <1>0, <4>1, Zenon DEF Knows, Heeds, At
    <3> QED
      BY <3>1, <3>2
  <2> QED
    BY <2>1, <2>2
<1>3. ASSUME Tick PROVE Owned' /\ \A r \in Readers : Knows(r)'
  <2>1. Owned'
    BY <1>0, <1>3, OwnedTick, Zenon
  <2>2. ASSUME NEW r \in Readers PROVE Knows(r)'
    <3>1. /\ read'[r] = [read[r] EXCEPT !.held = Less(@), !.kept = Aged(@), !.outcome = Aged(@)]
          /\ suppressed'[r] => suppressed[r]
      BY <1>0, <1>3, Zenon DEF Tick
    <3>2. read[r] \in Reads
      BY <1>0, Zenon DEF ReadsOK
    <3>3. /\ read'[r].at = read[r].at /\ read'[r].polls = read[r].polls
          /\ read'[r].had = read[r].had /\ read'[r].answer = read[r].answer
      BY <3>1, <3>2, Zenon DEF Reads
    <3> QED
      BY <1>0, <3>1, <3>3, Zenon DEF Knows, Heeds, At
  <2> QED
    BY <2>1, <2>2
<1>4. ASSUME UNCHANGED vars PROVE Owned' /\ \A r \in Readers : Knows(r)'
  BY <1>0, <1>4, Zenon DEF vars, Owned, Timely, Knows, Heeds, At
<1> QED
  BY <1>0, <1>1, <1>2, <1>3, <1>4, Zenon DEF IInv, Next, Acts

LEMMA IInvHolds == Spec => []IInv
<1> QED
  BY IInvInit, IInvStep, PTL DEF Spec

\* The locals of every read, the keys in Redis and their TTLs stay in their
\* ranges: retention bounds the age of what is kept, whatever the interleaving.
THEOREM TypeCorrect == Spec => []TypeOK
<1>1. IInv => TypeOK
  BY DEF IInv
<1> QED
  BY <1>1, IInvHolds, PTL

\* For any number of instances and any TTL: two winners that are both inside the
\* TTL they took are the same one.  This is what compare-and-delete is for.
THEOREM TimelyOwnerIsAlone == Spec => []OneTimelyOwner
<1>1. IInv => OneTimelyOwner
  <2> SUFFICES ASSUME Owned, NEW r \in Readers, NEW q \in Readers, Timely(r), Timely(q)
               PROVE  r = q
    BY Zenon DEF IInv, OneTimelyOwner
  <2>1. lock = [owner |-> r, left |-> read[r].held] /\ lock = [owner |-> q, left |-> read[q].held]
    BY Zenon DEF Owned
  <2> QED
    BY <2>1
<1> QED
  BY <1>1, IInvHolds, PTL

\* A read, a revalidation or a sweep that begins while a failure binds neither
\* locks nor asks the provider, and serves what it has: for every TTL table.
THEOREM SuppressionHolds == Spec => []SuppressedReadsServeWhatTheyHave
<1>1. IInv => SuppressedReadsServeWhatTheyHave
  BY Zenon DEF IInv, SuppressedReadsServeWhatTheyHave, Knows, Heeds
<1> QED
  BY <1>1, IInvHolds, PTL

\* Only age takes a value away: no step of any read, failed, crashed or late,
\* removes one that could still be served.
THEOREM FailuresAreHarmless == Spec => FailuresCostNoValue
<1>1. ASSUME TypeOK, [Next]_vars, Usable(value), value' = NoValue PROVE value.age = StaleMax
  <2>1. value \in [age : 0 .. StaleMax, valid : 0 .. TooOld]
    BY <1>1, Zenon DEF TypeOK, Usable
  <2>2. value' # value
    BY <1>1, Zenon DEF Usable
  <2>3. ASSUME NEW r \in Readers, StoresValue(r) PROVE FALSE
    BY <1>1, <2>3, ConstantsOK DEF StoresValue, NoValue, ConstantsOK
  <2>4. Tick
    BY <1>1, <2>2, <2>3, Zenon
       DEF Next, Begins, GoesOn, Dies, BeginRead, BeginSweep, SweepReads, Looks,
           LooksForNegative, SweepAsks, Acquires, Loses, LockFails, Loads, Releases,
           StoresFailure, StoreFails, PollsValue, PollsNegative, vars
  <2>5. ~Kept(value)
    <3>1. ASSUME Kept(value) PROVE FALSE
      <4>1. value' = [age |-> value.age + 1, valid |-> Older(value.valid)]
        BY <2>4, <3>1, Zenon DEF Tick
      <4> QED
        BY <1>1, <2>1, <4>1, ConstantsOK DEF NoValue, ConstantsOK
    <3> QED
      BY <3>1
  <2>6. ~(value.age < StaleMax)
    BY <1>1, <2>5, Zenon DEF Kept, Usable
  <2> QED
    BY <2>1, <2>6, ConstantsOK DEF ConstantsOK
<1>2. TypeOK /\ [Next]_vars => [Usable(value) => value' # NoValue \/ value.age = StaleMax]_vars
  BY <1>1, Zenon
<1> QED
  BY <1>2, TypeCorrect, PTL DEF Spec, FailuresCostNoValue

=============================================================================
