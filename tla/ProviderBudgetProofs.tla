------------------------ MODULE ProviderBudgetProofs ------------------------
(***************************************************************************)
(* Proofs about ProviderBudget, for any number of instances, calls and     *)
(* windows and any limits, lengths and weights.                            *)
(*                                                                         *)
(* The limits: while its bucket lasts, a counter has counted all that it   *)
(* let through (`Counted'), for it is incremented before the verdict and   *)
(* goes only when the bucket is over; and once it is over the history of   *)
(* what it let through in time does not move.                              *)
(*                                                                         *)
(* The order of the windows: what a window let through covers what the     *)
(* next has counted and what the calls on their way to it bring            *)
(* (`Covered').  Both are sums over finite sets, about which the middle    *)
(* part proves what is needed: the sum follows the one term that moves.    *)
(***************************************************************************)
EXTENDS ProviderBudget, FiniteSetTheorems, WellFoundedInduction, TLAPS

Table    == [Sources -> [1 .. Levels -> [Buckets -> Nat]]]
InFlight == [level : 1 .. Levels, units : Nat, bucket : Buckets]

Counted ==
  \A s \in Sources, l \in 1 .. Levels, b \in Buckets :
    ~Over(l, b) => admitted[s][l][b] <= count[s][l][b]

IInv == TypeOK /\ Counted /\ BudgetHolds

\* One entry of a table of counters changes.
Put(T, s, l, b, n) == [T EXCEPT ![s][l][b] = n]

LEMMA TableUpdate ==
  ASSUME NEW T \in Table, NEW s \in Sources, NEW l \in 1 .. Levels, NEW b \in Buckets,
         NEW n \in Nat
  PROVE  /\ Put(T, s, l, b, n) \in Table
         /\ Put(T, s, l, b, n)[s][l][b] = n
         /\ \A s1 \in Sources, l1 \in 1 .. Levels, b1 \in Buckets :
              s1 # s \/ l1 # l \/ b1 # b => Put(T, s, l, b, n)[s1][l1][b1] = T[s1][l1][b1]
  BY Zenon DEF Table, Put

\* The third part of TableUpdate, of one entry.
LEMMA TableElsewhere ==
  ASSUME NEW T \in Table, NEW s \in Sources, NEW l \in 1 .. Levels, NEW b \in Buckets,
         NEW n \in Nat,
         NEW s1 \in Sources, NEW l1 \in 1 .. Levels, NEW b1 \in Buckets,
         ~(s1 = s /\ l1 = l /\ b1 = b)
  PROVE  Put(T, s, l, b, n)[s1][l1][b1] = T[s1][l1][b1]
  BY TableUpdate

LEMMA TableEntry ==
  ASSUME NEW T \in Table, NEW s \in Sources, NEW l \in 1 .. Levels, NEW b \in Buckets
  PROVE  T[s][l][b] \in Nat
<1>1. T[s] \in [1 .. Levels -> [Buckets -> Nat]]
  BY DEF Table
<1>2. T[s][l] \in [Buckets -> Nat]
  BY <1>1
<1> QED
  BY <1>2

\* Counting is one entry of the table.
Add(T, s, l, b, n) == [T EXCEPT ![s][l][b] = @ + n]

LEMMA CountsOne ==
  ASSUME NEW T \in Table, NEW s \in Sources, NEW l \in 1 .. Levels, NEW b \in Buckets,
         NEW n \in Nat
  PROVE  /\ Add(T, s, l, b, n) \in Table
         /\ Add(T, s, l, b, n)[s][l][b] = T[s][l][b] + n
         /\ \A s1 \in Sources, l1 \in 1 .. Levels, b1 \in Buckets :
              /\ Add(T, s, l, b, n)[s1][l1][b1] >= T[s1][l1][b1]
              /\ s1 # s \/ l1 # l \/ b1 # b
                   => Add(T, s, l, b, n)[s1][l1][b1] = T[s1][l1][b1]
<1>1. \A s1 \in Sources, l1 \in 1 .. Levels, b1 \in Buckets : T[s1][l1][b1] \in Nat
  BY TableEntry
<1>2. T[s][l][b] + n \in Nat
  BY <1>1
<1>3. Add(T, s, l, b, n) = Put(T, s, l, b, T[s][l][b] + n)
  BY Zenon DEF Add, Put
<1> DEFINE m == T[s][l][b] + n
<1>4. m \in Nat /\ Add(T, s, l, b, n) = Put(T, s, l, b, m)
  BY <1>2, <1>3
<1>5. m = T[s][l][b] + n
  OBVIOUS
<1> HIDE DEF m
<1>6. Put(T, s, l, b, m) \in Table
  BY <1>4, TableUpdate
<1>7. Put(T, s, l, b, m)[s][l][b] = m
  BY <1>4, TableUpdate
<1>8. \A s1 \in Sources, l1 \in 1 .. Levels, b1 \in Buckets :
        s1 # s \/ l1 # l \/ b1 # b => Put(T, s, l, b, m)[s1][l1][b1] = T[s1][l1][b1]
  <2> SUFFICES ASSUME NEW s1 \in Sources, NEW l1 \in 1 .. Levels, NEW b1 \in Buckets,
                      ~(s1 = s /\ l1 = l /\ b1 = b)
               PROVE  Put(T, s, l, b, m)[s1][l1][b1] = T[s1][l1][b1]
    OBVIOUS
  <2> QED
    BY <1>4, TableElsewhere
<1>9. \A s1 \in Sources, l1 \in 1 .. Levels, b1 \in Buckets :
        Put(T, s, l, b, m)[s1][l1][b1] >= T[s1][l1][b1]
  BY <1>1, <1>5, <1>7, <1>8
<1>10. Add(T, s, l, b, n) \in Table
  BY <1>4, <1>6, Zenon
<1>11. Add(T, s, l, b, n)[s][l][b] = T[s][l][b] + n
  BY <1>4, <1>5, <1>7
<1>12. \A s1 \in Sources, l1 \in 1 .. Levels, b1 \in Buckets :
         /\ Add(T, s, l, b, n)[s1][l1][b1] >= T[s1][l1][b1]
         /\ s1 # s \/ l1 # l \/ b1 # b
              => Add(T, s, l, b, n)[s1][l1][b1] = T[s1][l1][b1]
  <2> SUFFICES ASSUME NEW s1 \in Sources, NEW l1 \in 1 .. Levels, NEW b1 \in Buckets
               PROVE  /\ Add(T, s, l, b, n)[s1][l1][b1] >= T[s1][l1][b1]
                      /\ s1 # s \/ l1 # l \/ b1 # b
                           => Add(T, s, l, b, n)[s1][l1][b1] = T[s1][l1][b1]
    OBVIOUS
  <2>1. Add(T, s, l, b, n)[s1][l1][b1] = Put(T, s, l, b, m)[s1][l1][b1]
    BY <1>4
  <2> QED
    BY <1>8, <1>9, <2>1
<1> QED
  BY <1>10, <1>11, <1>12

\* Nothing is counted or admitted at first.
LEMMA InitOK == Init => IInv
<1> SUFFICES ASSUME Init PROVE IInv
  OBVIOUS
<1>1. None \in Table /\ \A s \in Sources, l \in 1 .. Levels, b \in Buckets : None[s][l][b] = 0
  BY DEF None, Table
<1>2. now \in 0 .. MaxTime
  BY BudgetConstantsOK DEF Init
<1>3. TypeOK
  BY <1>1, <1>2, Zenon DEF Init, TypeOK, Table
<1>4. \A l \in 1 .. Levels : Limit[l] \in Nat
  BY BudgetConstantsOK
<1>5. Counted /\ BudgetHolds
  BY <1>1, <1>4 DEF Init, Counted, BudgetHolds
<1> QED
  BY <1>3, <1>5 DEF IInv

LEMMA AdmitsOne ==
  ASSUME admitted \in Table, NEW s \in Sources, NEW l \in 1 .. Levels, NEW b \in Buckets,
         NEW n \in Nat, admitted' = Add(admitted, s, l, b, n)
  PROVE  /\ admitted'[s][l][b] = admitted[s][l][b] + n
         /\ \A s1 \in Sources, l1 \in 1 .. Levels, b1 \in Buckets :
              s1 # s \/ l1 # l \/ b1 # b => admitted'[s1][l1][b1] = admitted[s1][l1][b1]
<1>1. Add(admitted, s, l, b, n)[s][l][b] = admitted[s][l][b] + n
  BY CountsOne
<1>2. \A s1 \in Sources, l1 \in 1 .. Levels, b1 \in Buckets :
        s1 # s \/ l1 # l \/ b1 # b
          => Add(admitted, s, l, b, n)[s1][l1][b1] = admitted[s1][l1][b1]
  BY CountsOne
<1> QED
  BY <1>1, <1>2

\* No counter loses anything before its bucket is over, and what is admitted is
\* counted, fits, and is in time.
LEMMA CountersStep ==
  ASSUME IInv, TypeOK', UNCHANGED now,
         \A s \in Sources, l \in 1 .. Levels, b \in Buckets :
           ~Over(l, b) => count'[s][l][b] >= count[s][l][b],
         \/ admitted' = admitted
         \/ \E s \in Sources, l \in 1 .. Levels, b \in Buckets, n \in Nat :
              /\ admitted' = [admitted EXCEPT ![s][l][b] = @ + n]
              /\ count'[s][l][b] = count[s][l][b] + n
              /\ count[s][l][b] + n <= Limit[l]
              /\ ~Over(l, b)
  PROVE  IInv'
<1>1. count \in Table /\ count' \in Table /\ admitted \in Table /\ admitted' \in Table
  BY DEF IInv, TypeOK, Table
<1>2. \A l \in 1 .. Levels : Limit[l] \in Nat
  BY BudgetConstantsOK
<1>3. \A l \in 1 .. Levels, b \in Buckets : Over(l, b)' = Over(l, b)
  BY DEF Over
<1>4. \A T \in Table : \A s \in Sources, l \in 1 .. Levels, b \in Buckets : T[s][l][b] \in Nat
  BY TableEntry
<1>5. CASE admitted' = admitted
  <2>1. Counted'
    BY <1>1, <1>3, <1>4, <1>5 DEF IInv, Counted
  <2>2. BudgetHolds'
    BY <1>5 DEF IInv, BudgetHolds
  <2> QED
    BY <2>1, <2>2 DEF IInv
<1>6. CASE admitted' # admitted
  <2>1. PICK s \in Sources, l \in 1 .. Levels, b \in Buckets, n \in Nat :
          /\ admitted' = [admitted EXCEPT ![s][l][b] = @ + n]
          /\ count'[s][l][b] = count[s][l][b] + n
          /\ count[s][l][b] + n <= Limit[l]
          /\ ~Over(l, b)
    BY <1>6
  <2>2. admitted[s][l][b] \in Nat /\ count[s][l][b] \in Nat /\ admitted[s][l][b] <= count[s][l][b]
    BY <1>1, <1>4, <2>1 DEF IInv, Counted
  <2>3. admitted' = Add(admitted, s, l, b, n)
    BY <2>1, Zenon DEF Add
  <2>4. admitted[s][l][b] + n \in Nat
    BY <2>2
  <2>5. /\ admitted'[s][l][b] = admitted[s][l][b] + n
        /\ \A s1 \in Sources, l1 \in 1 .. Levels, b1 \in Buckets :
             s1 # s \/ l1 # l \/ b1 # b => admitted'[s1][l1][b1] = admitted[s1][l1][b1]
    BY <1>1, <2>3, AdmitsOne
  <2>6. ASSUME NEW s1 \in Sources, NEW l1 \in 1 .. Levels, NEW b1 \in Buckets
        PROVE  /\ ~Over(l1, b1)' => admitted'[s1][l1][b1] <= count'[s1][l1][b1]
               /\ admitted'[s1][l1][b1] <= Limit[l1]
    <3>1. CASE s1 = s /\ l1 = l /\ b1 = b
      BY <1>2, <2>1, <2>2, <2>5, <3>1
    <3>2. CASE ~(s1 = s /\ l1 = l /\ b1 = b)
      <4>1. admitted'[s1][l1][b1] = admitted[s1][l1][b1]
        BY <2>5, <3>2
      <4>2. count[s1][l1][b1] \in Nat /\ count'[s1][l1][b1] \in Nat
        BY <1>1, <1>4
      <4>3. admitted[s1][l1][b1] \in Nat
        BY <1>1, <1>4
      <4> QED
        BY <1>3, <4>1, <4>2, <4>3 DEF IInv, Counted, BudgetHolds
    <3> QED
      BY <3>1, <3>2
  <2> QED
    BY <2>6 DEF IInv, Counted, BudgetHolds
<1> QED
  BY <1>5, <1>6

\* A call that asks is in one window's bucket.
LEMMA AskingCall ==
  ASSUME TypeOK, NEW c \in Calls, call[c] # Idle
  PROVE  /\ call[c].level \in 1 .. Levels
         /\ call[c].bucket \in Buckets
         /\ call[c].units \in Nat
         /\ Home[c] \in Sources /\ Redis \in Sources /\ Home[c] # Redis
<1>1. call[c] \in InFlight
  BY DEF TypeOK, InFlight
<1>2. Home[c] \in Instances
  BY BudgetConstantsOK
<1> QED
  BY <1>1, <1>2, BudgetConstantsOK DEF InFlight, Sources

\* Whatever the verdict, the call is over or asks the next window.
LEMMA VerdictCalls ==
  ASSUME TypeOK, NEW c \in Calls, call[c] # Idle, NEW source, Verdict(c, source)
  PROVE  call' \in [Calls -> {Idle} \union InFlight]
<1>1. call \in [Calls -> {Idle} \union InFlight]
  BY DEF TypeOK, InFlight
<1>2. CASE Ends(c)
  BY <1>1, <1>2 DEF Ends
<1>3. CASE call[c].level # Levels /\ Asks(c, call[c].level + 1, call[c].units)
  <2>1. call[c].level + 1 \in 1 .. Levels /\ call[c].units \in Nat
    BY <1>3, AskingCall, BudgetConstantsOK
  <2>2. PICK bucket \in Buckets :
          call' = [call EXCEPT ![c] = [level |-> call[c].level + 1, units |-> call[c].units,
                                       bucket |-> bucket]]
    BY <1>3 DEF Asks
  <2>3. [level |-> call[c].level + 1, units |-> call[c].units, bucket |-> bucket] \in InFlight
    BY <2>1 DEF InFlight
  <2> QED
    BY <1>1, <2>2, <2>3, Zenon
<1> QED
  BY <1>2, <1>3 DEF Verdict, Refuse, GoOn

\* A call counts at its source and perhaps elsewhere, and is let through there if
\* it fits.
LEMMA AnswerStep ==
  ASSUME IInv, NEW c \in Calls, call[c] # Idle, NEW source \in Sources,
         count' \in Table, UNCHANGED now, Verdict(c, source),
         \A s \in Sources, l \in 1 .. Levels, b \in Buckets :
           count'[s][l][b] >= count[s][l][b],
         LET l == call[c].level  b == call[c].bucket
         IN count'[source][l][b] = count[source][l][b] + call[c].units
  PROVE  IInv'
<1> DEFINE l == call[c].level
           b == call[c].bucket
           n == call[c].units
<1>1. l \in 1 .. Levels /\ b \in Buckets /\ n \in Nat
  BY AskingCall DEF IInv
<1>2. call' \in [Calls -> {Idle} \union InFlight]
  BY VerdictCalls DEF IInv
<1>3. admitted \in Table /\ admitted[source][l][b] \in Nat
  <2>1. admitted \in Table
    BY Zenon DEF IInv, TypeOK, Table
  <2> QED
    BY <1>1, <2>1, TableEntry
<1>4. CASE UNCHANGED admitted
  <2>1. straggled' \in BOOLEAN
    BY Zenon DEF IInv, TypeOK, Verdict, LetThrough, Refuse
  <2>2. TypeOK'
    BY <1>2, <1>4, <2>1, Zenon DEF IInv, TypeOK, Table, InFlight
  <2> QED
    BY <1>4, <2>2, CountersStep
<1>5. CASE /\ Fits(c, source)
           /\ Current(l, b)
           /\ admitted' = [admitted EXCEPT ![source][l][b] = @ + n]
           /\ UNCHANGED straggled
  <2>1. admitted' = Put(admitted, source, l, b, admitted[source][l][b] + n)
    BY <1>5, Zenon DEF Put
  <2>2. admitted[source][l][b] + n \in Nat
    BY <1>1, <1>3
  <2>3. admitted' \in Table
    BY <1>1, <1>3, <2>1, <2>2, TableUpdate
  <2>4. TypeOK'
    BY <1>2, <1>5, <2>3, Zenon DEF IInv, TypeOK, Table, InFlight
  <2>5. ~Over(l, b) /\ count[source][l][b] + n <= Limit[l]
    BY <1>5 DEF Current, Fits
  <2>6. \E s1 \in Sources, l1 \in 1 .. Levels, b1 \in Buckets, n1 \in Nat :
          /\ admitted' = [admitted EXCEPT ![s1][l1][b1] = @ + n1]
          /\ count'[s1][l1][b1] = count[s1][l1][b1] + n1
          /\ count[s1][l1][b1] + n1 <= Limit[l1]
          /\ ~Over(l1, b1)
    BY <1>1, <1>5, <2>5, Zenon
  <2> QED
    BY <2>4, <2>6, CountersStep
<1> QED
  BY <1>4, <1>5 DEF Verdict, LetThrough, Refuse

\* A call that counts in one place.
LEMMA CountOneOK ==
  ASSUME IInv, NEW c \in Calls, call[c] # Idle, NEW source \in Sources,
         UNCHANGED now, Verdict(c, source), count' = Counts(c, source)
  PROVE  IInv'
<1> DEFINE l == call[c].level
           b == call[c].bucket
           n == call[c].units
<1>1. l \in 1 .. Levels /\ b \in Buckets /\ n \in Nat
  BY AskingCall DEF IInv
<1>2. count \in Table
  BY DEF IInv, TypeOK, Table
<1>3. count' = Add(count, source, l, b, n)
  BY Zenon DEF Counts, Add
<1>4. /\ count' \in Table
      /\ count'[source][l][b] = count[source][l][b] + n
      /\ \A s1 \in Sources, l1 \in 1 .. Levels, b1 \in Buckets :
           count'[s1][l1][b1] >= count[s1][l1][b1]
  <2> HIDE DEF l, b, n
  <2>1. Add(count, source, l, b, n) \in Table
    BY <1>1, <1>2, CountsOne
  <2>2. Add(count, source, l, b, n)[source][l][b] = count[source][l][b] + n
    BY <1>1, <1>2, CountsOne
  <2>3. \A s1 \in Sources, l1 \in 1 .. Levels, b1 \in Buckets :
          Add(count, source, l, b, n)[s1][l1][b1] >= count[s1][l1][b1]
    BY <1>1, <1>2, CountsOne
  <2> QED
    BY <1>3, <2>1, <2>2, <2>3
<1> QED
  BY <1>4, AnswerStep

LEMMA CountSharedOK == ASSUME IInv, NEW c \in Calls, CountShared(c) PROVE IInv'
<1>1. call[c] # Idle /\ Redis \in Sources
  BY DEF CountShared, Asking, Sources
<1> QED
  BY <1>1, CountOneOK DEF CountShared

LEMMA CountLocalOK == ASSUME IInv, NEW c \in Calls, CountLocal(c) PROVE IInv'
<1>1. call[c] # Idle /\ Home[c] \in Sources
  BY BudgetConstantsOK DEF CountLocal, Asking, Sources
<1> QED
  BY <1>1, CountOneOK DEF CountLocal

LEMMA LoseAnswerOK == ASSUME IInv, NEW c \in Calls, LoseAnswer(c) PROVE IInv'
<1> DEFINE l == call[c].level
           b == call[c].bucket
           n == call[c].units
           shared == Add(count, Redis, l, b, n)
<1>1. call[c] # Idle
  BY DEF LoseAnswer, Asking
<1>2. /\ l \in 1 .. Levels /\ b \in Buckets /\ n \in Nat
      /\ Home[c] \in Sources /\ Redis \in Sources /\ Home[c] # Redis
  BY <1>1, AskingCall DEF IInv
<1>3. count \in Table
  BY DEF IInv, TypeOK, Table
<1>4. count' = Add(shared, Home[c], l, b, n)
  BY <1>2, Zenon DEF LoseAnswer, Add
<1>5. /\ count' \in Table
      /\ count'[Home[c]][l][b] = count[Home[c]][l][b] + n
      /\ \A s1 \in Sources, l1 \in 1 .. Levels, b1 \in Buckets :
           count'[s1][l1][b1] >= count[s1][l1][b1]
  <2> HIDE DEF l, b, n
  <2>1. /\ shared \in Table
        /\ \A s1 \in Sources, l1 \in 1 .. Levels, b1 \in Buckets :
             /\ shared[s1][l1][b1] >= count[s1][l1][b1]
             /\ s1 # Redis => shared[s1][l1][b1] = count[s1][l1][b1]
    BY <1>2, <1>3, CountsOne
  <2> HIDE DEF shared
  <2>2. /\ count' \in Table
        /\ count'[Home[c]][l][b] = shared[Home[c]][l][b] + n
        /\ \A s1 \in Sources, l1 \in 1 .. Levels, b1 \in Buckets :
             count'[s1][l1][b1] >= shared[s1][l1][b1]
    <3>1. shared \in Table /\ Home[c] \in Sources /\ l \in 1 .. Levels
          /\ b \in Buckets /\ n \in Nat
      BY <1>2, <2>1
    <3>2. Add(shared, Home[c], l, b, n) \in Table
      BY <3>1, CountsOne
    <3>3. Add(shared, Home[c], l, b, n)[Home[c]][l][b] = shared[Home[c]][l][b] + n
      BY <3>1, CountsOne
    <3>4. \A s1 \in Sources, l1 \in 1 .. Levels, b1 \in Buckets :
            Add(shared, Home[c], l, b, n)[s1][l1][b1] >= shared[s1][l1][b1]
      BY <3>1, CountsOne
    <3> QED
      BY <1>4, <3>2, <3>3, <3>4
  <2>3. \A T \in Table : \A s1 \in Sources, l1 \in 1 .. Levels, b1 \in Buckets :
          T[s1][l1][b1] \in Nat
    BY TableEntry
  <2>4. \A s1 \in Sources, l1 \in 1 .. Levels, b1 \in Buckets :
          count'[s1][l1][b1] >= count[s1][l1][b1]
    BY <1>3, <2>1, <2>2, <2>3
  <2> QED
    BY <1>2, <2>1, <2>2, <2>4
<1> QED
  BY <1>1, <1>2, <1>5, AnswerStep DEF LoseAnswer

LEMMA TryConsumeOK ==
  ASSUME IInv, NEW c \in Calls, NEW units \in Weights, TryConsume(c, units) PROVE IInv'
<1>1. PICK bucket \in Buckets :
        call' = [call EXCEPT ![c] = [level |-> 1, units |-> units, bucket |-> bucket]]
  BY DEF TryConsume, Asks
<1>2. [level |-> 1, units |-> units, bucket |-> bucket] \in InFlight
  BY BudgetConstantsOK DEF InFlight
<1>3. TypeOK'
  BY <1>1, <1>2, Zenon DEF IInv, TypeOK, TryConsume, InFlight
<1>4. \A s \in Sources, l \in 1 .. Levels, b \in Buckets : count[s][l][b] \in Nat
  BY TableEntry DEF IInv, TypeOK, Table
<1> QED
  BY <1>3, <1>4, CountersStep DEF TryConsume

LEMMA ExpireOK ==
  ASSUME IInv, NEW source \in Sources, NEW level \in 1 .. Levels, NEW bucket \in Buckets,
         Expire(source, level, bucket)
  PROVE  IInv'
<1>1. count \in Table
  BY DEF IInv, TypeOK, Table
<1>2. count' = Put(count, source, level, bucket, 0)
  BY Zenon DEF Expire, Put
<1>3. /\ count' \in Table
      /\ \A s \in Sources, l \in 1 .. Levels, b \in Buckets :
           s # source \/ l # level \/ b # bucket => count'[s][l][b] = count[s][l][b]
  <2>1. 0 \in Nat
    OBVIOUS
  <2>2. count' \in Table
    BY <1>1, <1>2, <2>1, TableUpdate, Zenon
  <2>3. \A s \in Sources, l \in 1 .. Levels, b \in Buckets :
          s # source \/ l # level \/ b # bucket
            => Put(count, source, level, bucket, 0)[s][l][b] = count[s][l][b]
    <3> SUFFICES ASSUME NEW s \in Sources, NEW l \in 1 .. Levels, NEW b \in Buckets,
                        ~(s = source /\ l = level /\ b = bucket)
                 PROVE  Put(count, source, level, bucket, 0)[s][l][b] = count[s][l][b]
      OBVIOUS
    <3> QED
      BY <1>1, <2>1, TableElsewhere
  <2> QED
    BY <1>2, <2>2, <2>3, Zenon
<1>4. TypeOK'
  BY <1>3, Zenon DEF IInv, TypeOK, Table, Expire
<1>5. \A s \in Sources, l \in 1 .. Levels, b \in Buckets : count[s][l][b] \in Nat
  BY <1>1, TableEntry
<1>6. \A s \in Sources, l \in 1 .. Levels, b \in Buckets :
        ~Over(l, b) => count'[s][l][b] >= count[s][l][b]
  BY <1>3, <1>5 DEF Expire
<1> QED
  BY <1>4, <1>6, CountersStep DEF Expire

\* A bucket that is over stays over.
LEMMA TickOK == ASSUME IInv, Tick PROVE IInv'
<1>1. now \in Nat /\ now' = now + 1 /\ now' \in 0 .. MaxTime
  BY BudgetConstantsOK DEF IInv, TypeOK, Tick
<1>2. TypeOK'
  BY <1>1, Zenon DEF IInv, TypeOK, Tick
<1>3. ASSUME NEW l \in 1 .. Levels, NEW b \in Buckets, Over(l, b) PROVE Over(l, b)'
  <2>1. (b + 1) * Length[l] \in Nat
    BY BudgetConstantsOK DEF Buckets
  <2> QED
    BY <1>1, <1>3, <2>1 DEF Over
<1>4. Counted' /\ BudgetHolds'
  BY <1>3 DEF IInv, Counted, BudgetHolds, Tick
<1> QED
  BY <1>2, <1>4 DEF IInv

LEMMA StepOK == IInv /\ [Next]_vars => IInv'
<1> SUFFICES ASSUME IInv, [Next]_vars PROVE IInv'
  OBVIOUS
<1>1. CASE UNCHANGED vars
  BY <1>1 DEF vars, IInv, TypeOK, Counted, BudgetHolds, Over
<1>2. CASE Tick
  BY <1>2, TickOK
<1>3. CASE \E c \in Calls :
             \/ \E units \in Weights : TryConsume(c, units)
             \/ CountShared(c) \/ CountLocal(c) \/ LoseAnswer(c)
  BY <1>3, TryConsumeOK, CountSharedOK, CountLocalOK, LoseAnswerOK
<1>4. CASE \E source \in Sources, level \in 1 .. Levels, bucket \in Buckets :
             Expire(source, level, bucket)
  BY <1>4, ExpireOK
<1> QED
  BY <1>1, <1>2, <1>3, <1>4 DEF Next

-----------------------------------------------------------------------------

LEMMA Invariance == Spec => []IInv
<1> QED
  BY InitOK, StepOK, PTL DEF Spec

\* provider-budget.ts:140-219: the counters, the calls and the history stay in
\* their ranges.
THEOREM TypeCorrect == Spec => []TypeOK
<1>1. IInv => TypeOK
  BY DEF IInv
<1> QED
  BY <1>1, Invariance, PTL

\* provider-budget.ts:78-88, 176-207: no counter, Redis' or an instance's own,
\* lets through more in a window than the limit, whenever Redis fails or returns.
THEOREM LimitsHold == Spec => []BudgetHolds
<1>1. IInv => BudgetHolds
  BY DEF IInv
<1> QED
  BY <1>1, Invariance, PTL

-----------------------------------------------------------------------------
(* Sums over finite sets.                                                  *)

Choice(T) == CHOOSE x \in T : TRUE
Body(f, g, T) == IF T = {} THEN 0 ELSE f[Choice(T)] + g[T \ {Choice(T)}]

\* The sums over the subsets of S, as SumFunctionOnSet builds them up.
Partial(f, S) == CHOOSE g : g = [T \in SUBSET S |-> Body(f, g, T)]

LEMMA SumIsPartial == ASSUME NEW f, NEW S PROVE SumFunctionOnSet(f, S) = Partial(f, S)[S]
BY Zenon DEF SumFunctionOnSet, FoldFunctionOnSet, MapThenFoldSet, Partial, Body, Choice

\* A set of numbers has a least one.
LEMMA Least ==
  ASSUME NEW S, S \subseteq Nat, S # {}
  PROVE  \E least \in S : \A n \in S : least <= n
<1>1. IsWellFoundedOn(OpToRel(<, Nat), Nat)
  BY NatLessThanWellFounded, Zenon
<1>2. PICK least \in S : \A n \in S : ~(<<n, least>> \in OpToRel(<, Nat))
  BY <1>1, WFMin, Zenon
<1>3. ASSUME NEW n \in S PROVE least <= n
  <2>1. SUFFICES ASSUME n < least PROVE FALSE
    OBVIOUS
  <2>2. <<n, least>> \in Nat \X Nat /\ <<n, least>>[1] < <<n, least>>[2]
    BY <2>1
  <2>3. <<n, least>> \in OpToRel(<, Nat)
    BY <2>2, Zenon DEF OpToRel
  <2> QED
    BY <1>2, <2>3
<1> QED
  BY <1>3

LEMMA SubsetsAreCounted ==
  ASSUME NEW S, IsFiniteSet(S), NEW T \in SUBSET S
  PROVE  /\ IsFiniteSet(T) /\ Cardinality(T) \in Nat
         /\ Cardinality(T) = 0 <=> T = {}
         /\ \A x \in T : Cardinality(T \ {x}) = Cardinality(T) - 1
<1>1. IsFiniteSet(T)
  BY FS_Subset
<1> QED
  BY <1>1, FS_CardinalityType, FS_EmptySet, FS_RemoveElement

\* Of some subsets of a finite set one is smallest: what fails for some subset fails
\* for one whose own subsets it holds for.
LEMMA Smallest ==
  ASSUME NEW S, IsFiniteSet(S), NEW B, B \subseteq SUBSET S, B # {}
  PROVE  \E T \in B : \A x \in T : T \ {x} \notin B
<1> DEFINE sizes == {Cardinality(T) : T \in B}
<1>1. sizes \subseteq Nat /\ sizes # {}
  BY SubsetsAreCounted
<1> HIDE DEF sizes
<1>2. PICK n \in sizes : \A m \in sizes : n <= m
  BY <1>1, Least
<1>3. PICK T \in B : n = Cardinality(T)
  BY DEF sizes
<1>4. ASSUME NEW x \in T, T \ {x} \in B PROVE FALSE
  <2>1. n <= Cardinality(T \ {x})
    BY <1>2, <1>4 DEF sizes
  <2>2. Cardinality(T \ {x}) = n - 1 /\ n \in Nat
    BY <1>3, <1>4, SubsetsAreCounted
  <2> QED
    BY <2>1, <2>2
<1> QED
  BY <1>4

\* The definition by recursion defines a function: on the subsets of at most n elements,
\* for every n.
LEMMA PartialExists ==
  ASSUME NEW f, NEW S, IsFiniteSet(S)
  PROVE  \A T \in SUBSET S : Partial(f, S)[T] = Body(f, Partial(f, S), T)
<1> DEFINE Upto(n) == {T \in SUBSET S : Cardinality(T) <= n}
           Defines(g, n) == g = [T \in Upto(n) |-> Body(f, g, T)]
           bad == {n \in Nat : ~(\E g : Defines(g, n))}
<1>1. bad = {}
  <2> SUFFICES ASSUME bad # {} PROVE FALSE
    OBVIOUS
  <2>1. bad \subseteq Nat
    OBVIOUS
  <2>2. PICK n \in bad : \A m \in bad : n <= m
    <3> HIDE DEF bad
    <3> QED
      BY <2>1, Least
  <2>3. n \in Nat /\ ~(\E g : Defines(g, n))
    BY DEF bad
  <2>4. CASE n = 0
    <3> DEFINE h == [T \in Upto(n) |-> 0]
    <3>1. ASSUME NEW T \in Upto(n) PROVE Body(f, h, T) = 0
      <4>1. T = {}
        BY <2>4, SubsetsAreCounted
      <4> QED
        BY <4>1 DEF Body
    <3> HIDE DEF Upto
    <3>2. h = [T \in Upto(n) |-> Body(f, h, T)]
      BY <3>1, Zenon
    <3> QED
      BY <2>3, <3>2, Zenon
  <2>5. CASE n # 0
    <3>1. n - 1 \in Nat /\ n - 1 \notin bad
      <4> HIDE DEF bad
      <4> QED
        BY <2>2, <2>3, <2>5
    <3>2. PICK g : Defines(g, n - 1)
      BY <3>1
    <3> DEFINE h == [T \in Upto(n) |-> Body(f, g, T)]
    <3>3. ASSUME NEW T \in Upto(n) PROVE Body(f, h, T) = Body(f, g, T)
      <4>1. CASE T = {}
        BY <4>1 DEF Body
      <4>2. CASE T # {}
        <5> DEFINE U == T \ {Choice(T)}
        <5>1. Choice(T) \in T
          BY <4>2, Zenon DEF Choice
        <5>2. U \in Upto(n - 1) /\ U \in Upto(n)
          <6>1. Cardinality(U) = Cardinality(T) - 1 /\ Cardinality(T) \in Nat /\ Cardinality(T) <= n
            BY <5>1, SubsetsAreCounted
          <6>2. U \in SUBSET S
            OBVIOUS
          <6> HIDE DEF U
          <6> QED
            BY <2>3, <6>1, <6>2
        <5> HIDE DEF Upto
        <5>3. h[U] = Body(f, g, U)
          BY <5>2
        <5>4. g[U] = Body(f, g, U)
          BY <3>2, <5>2, Zenon
        <5> HIDE DEF h
        <5>5. Body(f, h, T) = f[Choice(T)] + h[U] /\ Body(f, g, T) = f[Choice(T)] + g[U]
          BY <4>2 DEF Body
        <5> QED
          BY <5>3, <5>4, <5>5
      <4> QED
        BY <4>1, <4>2
    <3> HIDE DEF Upto
    <3>4. h = [T \in Upto(n) |-> Body(f, h, T)]
      BY <3>3, Zenon
    <3> QED
      BY <2>3, <3>4, Zenon
  <2> QED
    BY <2>4, <2>5
<1>2. Cardinality(S) \in Nat
  BY FS_CardinalityType
<1>3. PICK g : Defines(g, Cardinality(S))
  <2> HIDE DEF Defines
  <2> QED
    BY <1>1, <1>2
<1>4. Upto(Cardinality(S)) = SUBSET S
  BY FS_Subset
<1> HIDE DEF Upto
<1>5. g = [T \in SUBSET S |-> Body(f, g, T)]
  BY <1>3, <1>4, Zenon
<1>6. Partial(f, S) = [T \in SUBSET S |-> Body(f, Partial(f, S), T)]
  BY <1>5, Zenon DEF Partial
<1> DEFINE h == Partial(f, S)
<1> HIDE DEF h
<1>7. h = [T \in SUBSET S |-> Body(f, h, T)]
  BY <1>6, Zenon DEF h
<1> QED
  BY <1>7, Zenon DEF h

LEMMA SumStep ==
  ASSUME NEW f, NEW S, IsFiniteSet(S), NEW T \in SUBSET S
  PROVE  /\ T = {} => Partial(f, S)[T] = 0
         /\ T # {} => /\ Choice(T) \in T
                      /\ Partial(f, S)[T] = f[Choice(T)] + Partial(f, S)[T \ {Choice(T)}]
<1> DEFINE g == Partial(f, S)
<1>1. g[T] = Body(f, g, T)
  BY PartialExists
<1> HIDE DEF g
<1>2. T # {} => Choice(T) \in T
  BY Zenon DEF Choice
<1> QED
  BY <1>1, <1>2 DEF g, Body

LEMMA SumTyped ==
  ASSUME NEW S, IsFiniteSet(S), NEW f, \A x \in S : f[x] \in Nat
  PROVE  \A T \in SUBSET S : Partial(f, S)[T] \in Nat
<1> DEFINE bad == {T \in SUBSET S : Partial(f, S)[T] \notin Nat}
<1> SUFFICES ASSUME bad # {} PROVE FALSE
  OBVIOUS
<1>1. bad \subseteq SUBSET S
  OBVIOUS
<1>2. PICK T \in bad : \A x \in T : T \ {x} \notin bad
  <2> HIDE DEF bad
  <2> QED
    BY <1>1, Smallest
<1>3. T \in SUBSET S /\ Partial(f, S)[T] \notin Nat
  OBVIOUS
<1>4. /\ Choice(T) \in T /\ Choice(T) \in S
      /\ Partial(f, S)[T] = f[Choice(T)] + Partial(f, S)[T \ {Choice(T)}]
  BY <1>3, SumStep
<1>5. T \ {Choice(T)} \in SUBSET S /\ T \ {Choice(T)} \notin bad
  BY <1>2, <1>3, <1>4
<1>6. Partial(f, S)[T \ {Choice(T)}] \in Nat /\ f[Choice(T)] \in Nat
  BY <1>4, <1>5
<1> QED
  BY <1>3, <1>4, <1>6

\* The order does not matter: any element can be the one taken out.
LEMMA SumWithout ==
  ASSUME NEW S, IsFiniteSet(S), NEW f, \A x \in S : f[x] \in Nat
  PROVE  \A T \in SUBSET S : \A x \in T :
           Partial(f, S)[T] = f[x] + Partial(f, S)[T \ {x}]
<1> DEFINE g == Partial(f, S)
           Fine(T) == \A x \in T : g[T] = f[x] + g[T \ {x}]
           bad == {T \in SUBSET S : ~Fine(T)}
<1> SUFFICES ASSUME bad # {} PROVE FALSE
  OBVIOUS
<1>1. bad \subseteq SUBSET S
  OBVIOUS
<1>2. PICK T \in bad : \A x \in T : T \ {x} \notin bad
  <2> HIDE DEF bad
  <2> QED
    BY <1>1, Smallest
<1>3. \A x \in T : T \ {x} \in SUBSET S /\ Fine(T \ {x})
  BY <1>2
<1>4. PICK x \in T : g[T] # f[x] + g[T \ {x}]
  BY <1>2
<1> DEFINE y == Choice(T)
<1>5. y \in T /\ g[T] = f[y] + g[T \ {y}]
  BY <1>4, SumStep
<1>6. x # y
  BY <1>4, <1>5
<1> DEFINE rest == g[T \ {x, y}]
<1>7. g[T \ {y}] = f[x] + rest /\ g[T \ {x}] = f[y] + rest
  <2>1. g[T \ {y}] = f[x] + g[(T \ {y}) \ {x}] /\ g[T \ {x}] = f[y] + g[(T \ {x}) \ {y}]
    BY <1>3, <1>5, <1>6
  <2>2. (T \ {y}) \ {x} = T \ {x, y} /\ (T \ {x}) \ {y} = T \ {x, y}
    OBVIOUS
  <2> QED
    BY <2>1, <2>2, Zenon
<1>8. f[x] \in Nat /\ f[y] \in Nat /\ rest \in Nat
  <2>1. T \ {x, y} \in SUBSET S
    OBVIOUS
  <2> QED
    BY <1>5, <2>1, SumTyped
<1> HIDE DEF g, y, rest
<1> QED
  BY <1>4, <1>5, <1>7, <1>8

LEMMA SumOfEquals ==
  ASSUME NEW S, IsFiniteSet(S), NEW f, NEW h
  PROVE  \A T \in SUBSET S : (\A x \in T : f[x] = h[x]) => Partial(f, S)[T] = Partial(h, S)[T]
<1> DEFINE Fine(T) == (\A x \in T : f[x] = h[x]) => Partial(f, S)[T] = Partial(h, S)[T]
           bad == {T \in SUBSET S : ~Fine(T)}
<1> SUFFICES ASSUME bad # {} PROVE FALSE
  OBVIOUS
<1>1. bad \subseteq SUBSET S
  OBVIOUS
<1>2. PICK T \in bad : \A x \in T : T \ {x} \notin bad
  <2> HIDE DEF bad
  <2> QED
    BY <1>1, Smallest
<1>3. T \in SUBSET S /\ (\A x \in T : f[x] = h[x]) /\ Partial(f, S)[T] # Partial(h, S)[T]
  OBVIOUS
<1> DEFINE y == Choice(T)
<1>4. T # {} /\ y \in T
  <2>1. T = {} => Partial(f, S)[T] = 0 /\ Partial(h, S)[T] = 0
    BY <1>3, SumStep
  <2> QED
    BY <1>3, <2>1, SumStep
<1>5. /\ Partial(f, S)[T] = f[y] + Partial(f, S)[T \ {y}]
      /\ Partial(h, S)[T] = h[y] + Partial(h, S)[T \ {y}]
  BY <1>3, <1>4, SumStep
<1>6. Partial(f, S)[T \ {y}] = Partial(h, S)[T \ {y}] /\ f[y] = h[y]
  BY <1>2, <1>3, <1>4
<1> HIDE DEF y
<1> QED
  BY <1>3, <1>5, <1>6

\* A sum of natural numbers is one, and moves as the one of them that moves.
LEMMA SumIsNat ==
  ASSUME NEW S, IsFiniteSet(S), NEW f \in [S -> Nat]
  PROVE  SumFunctionOnSet(f, S) \in Nat
<1>1. \A x \in S : f[x] \in Nat
  OBVIOUS
<1> QED
  BY <1>1, SumTyped, SumIsPartial

LEMMA SumMoves ==
  ASSUME NEW S, IsFiniteSet(S), NEW f \in [S -> Nat], NEW h \in [S -> Nat], NEW x \in S,
         \A y \in S \ {x} : h[y] = f[y]
  PROVE  SumFunctionOnSet(h, S) - h[x] = SumFunctionOnSet(f, S) - f[x]
<1>1. (\A y \in S : f[y] \in Nat) /\ (\A y \in S : h[y] \in Nat)
  OBVIOUS
<1>2. S \in SUBSET S /\ S \ {x} \in SUBSET S
  OBVIOUS
<1> DEFINE pf == Partial(f, S)
           ph == Partial(h, S)
<1>3. pf[S] = f[x] + pf[S \ {x}]
  BY <1>1, <1>2, SumWithout
<1>4. ph[S] = h[x] + ph[S \ {x}]
  BY <1>1, <1>2, SumWithout
<1>5. pf[S \ {x}] = ph[S \ {x}]
  BY <1>2, SumOfEquals
<1>6. pf[S \ {x}] \in Nat
  BY <1>1, <1>2, SumTyped
<1>7. SumFunctionOnSet(h, S) = ph[S] /\ SumFunctionOnSet(f, S) = pf[S]
  BY SumIsPartial
<1>8. f[x] \in Nat /\ h[x] \in Nat
  OBVIOUS
<1> HIDE DEF pf, ph
<1> QED
  BY <1>3, <1>4, <1>5, <1>6, <1>7, <1>8

LEMMA SumOfNothing ==
  ASSUME NEW S, IsFiniteSet(S), NEW f, \A x \in S : f[x] = 0
  PROVE  SumFunctionOnSet(f, S) = 0
<1> DEFINE bad == {T \in SUBSET S : Partial(f, S)[T] # 0}
<1>1. bad = {}
  <2> SUFFICES ASSUME bad # {} PROVE FALSE
    OBVIOUS
  <2>1. bad \subseteq SUBSET S
    OBVIOUS
  <2>2. PICK T \in bad : \A x \in T : T \ {x} \notin bad
    <3> HIDE DEF bad
    <3> QED
      BY <2>1, Smallest
  <2>3. T \in SUBSET S /\ Partial(f, S)[T] # 0
    OBVIOUS
  <2>4. /\ Choice(T) \in T
        /\ Partial(f, S)[T] = f[Choice(T)] + Partial(f, S)[T \ {Choice(T)}]
    BY <2>3, SumStep
  <2>5. Partial(f, S)[T \ {Choice(T)}] = 0 /\ f[Choice(T)] = 0
    BY <2>2, <2>3, <2>4
  <2> QED
    BY <2>3, <2>4, <2>5
<1>2. Partial(f, S)[S] = 0
  BY <1>1
<1> QED
  BY <1>2, SumIsPartial

-----------------------------------------------------------------------------
(* What the windows after a window are asked, it has let through before:   *)
(* what their counter holds and what the calls on their way to it still    *)
(* bring is covered by what this one let through.                          *)

Asked(K, c, level) == IF K[c].level = level THEN K[c].units ELSE 0
Pending(K, level)  == SumFunctionOnSet([c \in Calls |-> Asked(K, c, level)], Calls)

Pairs == Sources \X Buckets
Passed(A, level) == SumFunctionOnSet([p \in Pairs |-> A[p[1]][level][p[2]]], Pairs)

Covered ==
  ~straggled => \A level \in 1 .. Levels - 1, bucket \in Buckets :
    count[Redis][level + 1][bucket] + Pending(call, level + 1) <= Passed(admitted, level)

LEMMA PassedIs == ASSUME NEW level PROVE LetThroughAt(level) = Passed(admitted, level)
<1> DEFINE f == [p \in Pairs |-> admitted[p[1]][level][p[2]]]
<1>1. DOMAIN f = Pairs
  OBVIOUS
<1>2. LetThroughAt(level) = SumFunctionOnSet(f, DOMAIN f)
  BY Zenon DEF LetThroughAt, SumFunction, Pairs
<1> QED
  BY <1>1, <1>2, Zenon DEF Passed

LEMMA PairsAreFinite == IsFiniteSet(Pairs)
<1>1. IsFiniteSet(Buckets)
  BY BudgetConstantsOK, FS_Interval DEF Buckets
<1>2. IsFiniteSet(Sources)
  BY BudgetConstantsOK, FS_AddElement DEF Sources
<1> QED
  BY <1>1, <1>2, FS_Product DEF Pairs

InCalls == [Calls -> {Idle} \union InFlight]

LEMMA AskedTyped ==
  ASSUME NEW K \in InCalls, NEW c \in Calls, NEW level \in Nat
  PROVE  Asked(K, c, level) \in Nat
<1>1. K[c] = Idle \/ K[c] \in InFlight
  BY DEF InCalls
<1> QED
  BY <1>1 DEF Asked, Idle, InFlight

LEMMA PendingTyped ==
  ASSUME NEW K \in InCalls, NEW level \in Nat
  PROVE  Pending(K, level) \in Nat
<1> DEFINE f == [c \in Calls |-> Asked(K, c, level)]
<1>1. f \in [Calls -> Nat]
  BY AskedTyped
<1>2. IsFiniteSet(Calls)
  BY BudgetConstantsOK
<1> HIDE DEF f
<1>3. SumFunctionOnSet(f, Calls) \in Nat
  BY <1>1, <1>2, SumIsNat
<1> QED
  BY <1>3 DEF f, Pending

LEMMA PendingMoves ==
  ASSUME NEW K \in InCalls, NEW L \in InCalls, NEW c \in Calls,
         \A d \in Calls \ {c} : L[d] = K[d], NEW level \in Nat
  PROVE  Pending(L, level) - Asked(L, c, level) = Pending(K, level) - Asked(K, c, level)
<1> DEFINE f == [d \in Calls |-> Asked(K, d, level)]
           g == [d \in Calls |-> Asked(L, d, level)]
<1>1. f \in [Calls -> Nat] /\ g \in [Calls -> Nat]
  BY AskedTyped
<1>2. \A d \in Calls \ {c} : g[d] = f[d]
  BY DEF Asked
<1>3. g[c] = Asked(L, c, level) /\ f[c] = Asked(K, c, level)
  OBVIOUS
<1>4. IsFiniteSet(Calls)
  BY BudgetConstantsOK
<1> HIDE DEF f, g
<1>5. SumFunctionOnSet(g, Calls) - g[c] = SumFunctionOnSet(f, Calls) - f[c]
  BY <1>1, <1>2, <1>4, SumMoves
<1> QED
  BY <1>3, <1>5, Zenon DEF f, g, Pending

LEMMA PassedTyped ==
  ASSUME NEW A \in Table, NEW level \in 1 .. Levels
  PROVE  Passed(A, level) \in Nat
<1> DEFINE f == [p \in Pairs |-> A[p[1]][level][p[2]]]
<1>1. f \in [Pairs -> Nat]
  <2>1. ASSUME NEW p \in Pairs PROVE A[p[1]][level][p[2]] \in Nat
    <3>1. p[1] \in Sources /\ p[2] \in Buckets
      BY DEF Pairs
    <3> QED
      BY <3>1, TableEntry
  <2> QED
    BY <2>1
<1> HIDE DEF f
<1>2. SumFunctionOnSet(f, Pairs) \in Nat
  BY <1>1, PairsAreFinite, SumIsNat
<1> QED
  BY <1>2 DEF f, Passed

LEMMA PassedMoves ==
  ASSUME NEW A \in Table, NEW s \in Sources, NEW l \in 1 .. Levels, NEW b \in Buckets,
         NEW n \in Nat, NEW level \in 1 .. Levels
  PROVE  Passed(Add(A, s, l, b, n), level)
           = Passed(A, level) + (IF level = l THEN n ELSE 0)
<1> DEFINE B == Add(A, s, l, b, n)
           f == [p \in Pairs |-> A[p[1]][level][p[2]]]
           g == [p \in Pairs |-> B[p[1]][level][p[2]]]
           x == <<s, b>>
<1>1. B \in Table
  BY CountsOne
<1>2. B[s][l][b] = A[s][l][b] + n
  BY CountsOne
<1>3. \A s1 \in Sources, l1 \in 1 .. Levels, b1 \in Buckets :
        s1 # s \/ l1 # l \/ b1 # b => B[s1][l1][b1] = A[s1][l1][b1]
  BY CountsOne
<1> HIDE DEF B
<1>4. f \in [Pairs -> Nat] /\ g \in [Pairs -> Nat]
  <2>1. ASSUME NEW p \in Pairs PROVE A[p[1]][level][p[2]] \in Nat /\ B[p[1]][level][p[2]] \in Nat
    <3>1. p[1] \in Sources /\ p[2] \in Buckets
      BY DEF Pairs
    <3> QED
      BY <1>1, <3>1, TableEntry
  <2> QED
    BY <2>1
<1>5. x \in Pairs /\ f[x] = A[s][level][b] /\ g[x] = B[s][level][b]
  BY DEF Pairs
<1>6. ASSUME NEW p \in Pairs \ {x} PROVE g[p] = f[p]
  <2>1. p[1] \in Sources /\ p[2] \in Buckets /\ p = <<p[1], p[2]>>
    BY DEF Pairs
  <2>2. p[1] # s \/ p[2] # b
    BY <2>1
  <2>3. B[p[1]][level][p[2]] = A[p[1]][level][p[2]]
    BY <1>3, <2>1, <2>2
  <2> QED
    BY <2>3
<1>7. Passed(A, level) \in Nat /\ Passed(B, level) \in Nat
  BY <1>1, PassedTyped
<1>8. A[s][level][b] \in Nat /\ B[s][level][b] \in Nat
  BY <1>1, TableEntry
<1> HIDE DEF f, g, x
<1>9. SumFunctionOnSet(g, Pairs) - g[x] = SumFunctionOnSet(f, Pairs) - f[x]
  BY <1>4, <1>5, <1>6, PairsAreFinite, SumMoves
<1>10. Passed(B, level) - B[s][level][b] = Passed(A, level) - A[s][level][b]
  BY <1>5, <1>9, Zenon DEF f, g, Passed
<1>11. B[s][level][b] = A[s][level][b] + (IF level = l THEN n ELSE 0)
  BY <1>2, <1>3, <1>8
<1>12. (IF level = l THEN n ELSE 0) \in Nat
  OBVIOUS
<1> HIDE DEF B
<1>13. Passed(B, level) = Passed(A, level) + (IF level = l THEN n ELSE 0)
  BY <1>7, <1>8, <1>10, <1>11, <1>12
<1> QED
  BY <1>13 DEF B

\* One call moves, and the tables with it: what was asked of a window when the call
\* left it is counted there at most, and it asks the next for what this one let through.
LEMMA CoveredStep ==
  ASSUME IInv, Covered, ~straggled, TypeOK', NEW c \in Calls,
         \A d \in Calls \ {c} : call'[d] = call[d],
         \A level \in 1 .. Levels - 1, bucket \in Buckets :
           /\ count'[Redis][level + 1][bucket]
                <= count[Redis][level + 1][bucket] + Asked(call, c, level + 1)
           /\ Passed(admitted, level) + Asked(call', c, level + 1) <= Passed(admitted', level)
  PROVE  Covered'
<1> SUFFICES ASSUME NEW level \in 1 .. Levels - 1, NEW bucket \in Buckets
             PROVE  count'[Redis][level + 1][bucket] + Pending(call', level + 1)
                      <= Passed(admitted', level)
  BY DEF Covered
<1>1. /\ call \in InCalls /\ call' \in InCalls /\ count \in Table /\ count' \in Table
      /\ admitted \in Table /\ admitted' \in Table
  BY Zenon DEF IInv, TypeOK, InCalls, InFlight, Table
<1>2. level \in 1 .. Levels /\ level + 1 \in 1 .. Levels /\ level + 1 \in Nat /\ Redis \in Sources
  BY BudgetConstantsOK DEF Sources
<1>3. Pending(call', level + 1) - Asked(call', c, level + 1)
        = Pending(call, level + 1) - Asked(call, c, level + 1)
  BY <1>1, <1>2, PendingMoves
<1>4. /\ Pending(call', level + 1) \in Nat /\ Pending(call, level + 1) \in Nat
      /\ Asked(call', c, level + 1) \in Nat /\ Asked(call, c, level + 1) \in Nat
  BY <1>1, <1>2, PendingTyped, AskedTyped
<1>5. count[Redis][level + 1][bucket] \in Nat /\ count'[Redis][level + 1][bucket] \in Nat
  BY <1>1, <1>2, TableEntry
<1>6. Passed(admitted, level) \in Nat /\ Passed(admitted', level) \in Nat
  BY <1>1, <1>2, PassedTyped
<1>7. count[Redis][level + 1][bucket] + Pending(call, level + 1) <= Passed(admitted, level)
  BY DEF Covered
<1> QED
  BY <1>3, <1>4, <1>5, <1>6, <1>7

\* What the verdict does to a call that asks.
LEMMA VerdictMoves ==
  ASSUME TypeOK, NEW c \in Calls, call[c] # Idle, NEW source, Verdict(c, source)
  PROVE  /\ \A d \in Calls \ {c} : call'[d] = call[d]
         /\ \/ call'[c] = Idle
            \/ Fits(c, source) /\ call'[c].level = call[c].level + 1
                               /\ call'[c].units = call[c].units
<1>1. DOMAIN call = Calls
  BY DEF TypeOK
<1>2. CASE Ends(c)
  BY <1>1, <1>2 DEF Ends
<1>3. CASE Fits(c, source) /\ Asks(c, call[c].level + 1, call[c].units)
  BY <1>1, <1>3 DEF Asks
<1> QED
  BY <1>2, <1>3 DEF Verdict, Refuse, GoOn

LEMMA AnswerCovered ==
  ASSUME IInv, Covered, IInv', NEW c \in Calls, call[c] # Idle, NEW source \in Sources,
         Verdict(c, source),
         \A l \in 1 .. Levels, b \in Buckets :
           count'[Redis][l][b] <= count[Redis][l][b] + Asked(call, c, l)
  PROVE  Covered'
<1>1. TypeOK /\ TypeOK' /\ admitted \in Table
  BY Zenon DEF IInv, TypeOK, Table
<1> DEFINE l == call[c].level
           b == call[c].bucket
           n == call[c].units
<1>2. l \in 1 .. Levels /\ b \in Buckets /\ n \in Nat
  BY <1>1, AskingCall
<1>3. \A level \in 1 .. Levels - 1 :
        level \in 1 .. Levels /\ level + 1 \in 1 .. Levels /\ level + 1 # 0
  BY BudgetConstantsOK
<1>4. \A level \in 1 .. Levels : Passed(admitted, level) \in Nat
  BY <1>1, PassedTyped
<1>5. \A d \in Calls \ {c} : call'[d] = call[d]
  BY <1>1, VerdictMoves
<1>6. CASE straggled' = TRUE
  BY <1>6 DEF Covered
<1>7. CASE UNCHANGED <<admitted, straggled>> /\ call'[c] = Idle
  <2>1. ASSUME NEW level \in 1 .. Levels - 1
        PROVE  Passed(admitted, level) + Asked(call', c, level + 1) <= Passed(admitted', level)
    <3>1. Asked(call', c, level + 1) = 0
      BY <1>3, <1>7 DEF Asked, Idle
    <3>2. Passed(admitted', level) = Passed(admitted, level) /\ Passed(admitted, level) \in Nat
      BY <1>3, <1>4, <1>7
    <3> QED
      BY <3>1, <3>2
  <2> QED
    BY <1>1, <1>3, <1>5, <1>7, <2>1, CoveredStep DEF Covered
<1>8. CASE UNCHANGED straggled /\ admitted' = [admitted EXCEPT ![source][l][b] = @ + n]
  <2>1. ASSUME NEW level \in 1 .. Levels - 1
        PROVE  Passed(admitted, level) + Asked(call', c, level + 1) <= Passed(admitted', level)
    <3>1. admitted' = Add(admitted, source, l, b, n)
      BY <1>8, Zenon DEF Add
    <3> HIDE DEF l, b, n
    <3>2. Passed(Add(admitted, source, l, b, n), level)
            = Passed(admitted, level) + (IF level = l THEN n ELSE 0)
      BY <1>1, <1>2, <1>3, PassedMoves
    <3>3. Passed(admitted', level) = Passed(admitted, level) + (IF level = l THEN n ELSE 0)
      BY <3>1, <3>2, Zenon
    <3>4. Asked(call', c, level + 1) <= (IF level = l THEN n ELSE 0)
      <4>1. \/ call'[c] = Idle
            \/ call'[c].level = l + 1 /\ call'[c].units = n
        BY <1>1, VerdictMoves DEF l, n
      <4> QED
        BY <1>2, <1>3, <4>1 DEF Asked, Idle
    <3>5. Asked(call', c, level + 1) \in Nat
      <4>1. call' \in InCalls
        BY <1>1, Zenon DEF TypeOK, InCalls, InFlight
      <4>2. level + 1 \in Nat
        BY <1>3
      <4> QED
        BY <4>1, <4>2, AskedTyped
    <3>6. Passed(admitted, level) \in Nat /\ (IF level = l THEN n ELSE 0) \in Nat
      BY <1>2, <1>3, <1>4
    <3> QED
      BY <3>3, <3>4, <3>5, <3>6
  <2> QED
    BY <1>1, <1>3, <1>5, <1>8, <2>1, CoveredStep DEF Covered
<1>9. \/ straggled' = TRUE
      \/ UNCHANGED <<admitted, straggled>> /\ call'[c] = Idle
      \/ UNCHANGED straggled /\ admitted' = [admitted EXCEPT ![source][l][b] = @ + n]
  <2>1. CASE Refuse(c)
    BY <1>1, <2>1 DEF Refuse, Ends, TypeOK
  <2>2. CASE LetThrough(c, source)
    BY <2>2 DEF LetThrough
  <2> QED
    BY <2>1, <2>2 DEF Verdict
<1> QED
  BY <1>6, <1>7, <1>8, <1>9

\* Counting what a call asks, at one place: no counter gets more than it asks.
LEMMA AddsAsked ==
  ASSUME NEW T \in Table, NEW s \in Sources, NEW K \in InCalls, NEW c \in Calls, K[c] # Idle
  PROVE  LET A == Add(T, s, K[c].level, K[c].bucket, K[c].units)
         IN /\ A \in Table
            /\ \A l \in 1 .. Levels, b \in Buckets :
                 A[Redis][l][b] <= T[Redis][l][b] + Asked(K, c, l)
            /\ s # Redis => \A l \in 1 .. Levels, b \in Buckets : A[Redis][l][b] = T[Redis][l][b]
<1> DEFINE k == K[c].level
           a == K[c].bucket
           n == K[c].units
           A == Add(T, s, k, a, n)
<1>1. k \in 1 .. Levels /\ a \in Buckets /\ n \in Nat
  <2>1. K[c] \in InFlight
    BY DEF InCalls
  <2> QED
    BY <2>1 DEF InFlight
<1> HIDE DEF k, a, n
<1>2. A \in Table /\ A[s][k][a] = T[s][k][a] + n
  BY <1>1, CountsOne
<1>3. \A s1 \in Sources, l1 \in 1 .. Levels, b1 \in Buckets :
        s1 # s \/ l1 # k \/ b1 # a => A[s1][l1][b1] = T[s1][l1][b1]
  BY <1>1, CountsOne
<1> HIDE DEF A
<1>4. Redis \in Sources
  BY DEF Sources
<1>5. ASSUME NEW l \in 1 .. Levels, NEW b \in Buckets
      PROVE  A[Redis][l][b] <= T[Redis][l][b] + Asked(K, c, l)
  <2>1. T[Redis][l][b] \in Nat /\ Asked(K, c, l) \in Nat
    BY <1>4, TableEntry, AskedTyped
  <2>2. CASE s = Redis /\ l = k /\ b = a
    <3>1. Asked(K, c, l) = n
      BY <2>2 DEF Asked, k, n
    <3> QED
      BY <1>2, <2>1, <2>2, <3>1
  <2>3. CASE ~(s = Redis /\ l = k /\ b = a)
    <3>1. A[Redis][l][b] = T[Redis][l][b]
      BY <1>3, <1>4, <2>3
    <3> QED
      BY <2>1, <3>1
  <2> QED
    BY <2>2, <2>3
<1>6. s # Redis => \A l \in 1 .. Levels, b \in Buckets : A[Redis][l][b] = T[Redis][l][b]
  BY <1>3, <1>4
<1> QED
  BY <1>2, <1>5, <1>6 DEF A, k, a, n

LEMMA CountOneCovered ==
  ASSUME IInv, Covered, IInv', NEW c \in Calls, call[c] # Idle, NEW source \in Sources,
         Verdict(c, source), count' = Counts(c, source)
  PROVE  Covered'
<1>1. call \in InCalls /\ count \in Table
  BY Zenon DEF IInv, TypeOK, InCalls, InFlight, Table
<1>2. count' = Add(count, source, call[c].level, call[c].bucket, call[c].units)
  BY Zenon DEF Counts, Add
<1>3. \A l \in 1 .. Levels, b \in Buckets :
        count'[Redis][l][b] <= count[Redis][l][b] + Asked(call, c, l)
  BY <1>1, <1>2, AddsAsked
<1> QED
  BY <1>3, AnswerCovered

LEMMA LoseAnswerCovered ==
  ASSUME IInv, Covered, IInv', NEW c \in Calls, LoseAnswer(c)
  PROVE  Covered'
<1>1. call \in InCalls /\ count \in Table /\ call[c] # Idle
  BY Zenon DEF IInv, TypeOK, InCalls, InFlight, Table, LoseAnswer, Asking
<1>2. Home[c] \in Sources /\ Redis \in Sources /\ Home[c] # Redis
  BY <1>1, AskingCall DEF IInv
<1> DEFINE shared == Add(count, Redis, call[c].level, call[c].bucket, call[c].units)
<1>3. count' = Add(shared, Home[c], call[c].level, call[c].bucket, call[c].units)
  BY <1>2, Zenon DEF LoseAnswer, Add
<1>4. /\ shared \in Table
      /\ \A l \in 1 .. Levels, b \in Buckets :
           shared[Redis][l][b] <= count[Redis][l][b] + Asked(call, c, l)
  BY <1>1, <1>2, AddsAsked
<1> HIDE DEF shared
<1>5. \A l \in 1 .. Levels, b \in Buckets : count'[Redis][l][b] = shared[Redis][l][b]
  BY <1>1, <1>2, <1>3, <1>4, AddsAsked
<1>6. \A l \in 1 .. Levels, b \in Buckets :
        count'[Redis][l][b] <= count[Redis][l][b] + Asked(call, c, l)
  BY <1>4, <1>5
<1>7. Verdict(c, Home[c])
  BY DEF LoseAnswer
<1> QED
  BY <1>1, <1>2, <1>6, <1>7, AnswerCovered

\* A call begins: it asks the first window, which is after no other.
LEMMA TryConsumeCovered ==
  ASSUME IInv, Covered, IInv', NEW c \in Calls, NEW units \in Weights, TryConsume(c, units)
  PROVE  Covered'
<1>1. /\ TypeOK' /\ call \in InCalls /\ count \in Table /\ admitted \in Table
      /\ UNCHANGED <<count, admitted, straggled>> /\ call[c] = Idle
  BY Zenon DEF IInv, TypeOK, InCalls, InFlight, Table, TryConsume
<1>2. PICK bucket \in Buckets :
        call' = [call EXCEPT ![c] = [level |-> 1, units |-> units, bucket |-> bucket]]
  BY DEF TryConsume, Asks
<1>3. (\A d \in Calls \ {c} : call'[d] = call[d]) /\ call'[c].level = 1
  BY <1>1, <1>2 DEF InCalls
<1>4. ASSUME NEW level \in 1 .. Levels - 1, NEW entry \in Buckets
      PROVE  /\ count'[Redis][level + 1][entry]
                  <= count[Redis][level + 1][entry] + Asked(call, c, level + 1)
             /\ Passed(admitted, level) + Asked(call', c, level + 1) <= Passed(admitted', level)
  <2>1. level \in 1 .. Levels /\ level + 1 \in 1 .. Levels /\ Redis \in Sources
    BY BudgetConstantsOK DEF Sources
  <2>2. Passed(admitted, level) \in Nat /\ count[Redis][level + 1][entry] \in Nat
    BY <1>1, <2>1, PassedTyped, TableEntry
  <2>3. Asked(call, c, level + 1) = 0 /\ Asked(call', c, level + 1) = 0
    BY <1>1, <1>3, <2>1 DEF Asked, Idle
  <2>4. Passed(admitted', level) = Passed(admitted, level)
    BY <1>1
  <2> QED
    BY <1>1, <2>2, <2>3, <2>4
<1> QED
  BY <1>1, <1>3, <1>4, CoveredStep DEF Covered

LEMMA ExpireCovered ==
  ASSUME IInv, Covered, NEW source \in Sources, NEW level \in 1 .. Levels, NEW bucket \in Buckets,
         Expire(source, level, bucket)
  PROVE  Covered'
<1>1. /\ call \in InCalls /\ count \in Table /\ UNCHANGED <<call, admitted, straggled>>
  BY Zenon DEF IInv, TypeOK, InCalls, InFlight, Table, Expire
<1>2. count' = Put(count, source, level, bucket, 0)
  BY Zenon DEF Expire, Put
<1>3. \A l \in 1 .. Levels, b \in Buckets : count'[Redis][l][b] <= count[Redis][l][b]
  <2> SUFFICES ASSUME NEW l \in 1 .. Levels, NEW b \in Buckets
               PROVE  count'[Redis][l][b] <= count[Redis][l][b]
    OBVIOUS
  <2>1. 0 \in Nat /\ Redis \in Sources /\ count[Redis][l][b] \in Nat
    BY <1>1, TableEntry DEF Sources
  <2>2. CASE source = Redis /\ level = l /\ bucket = b
    <3>1. Put(count, source, level, bucket, 0)[source][level][bucket] = 0
      BY <1>1, <2>1, TableUpdate
    <3> QED
      BY <1>2, <2>1, <2>2, <3>1
  <2>3. CASE ~(source = Redis /\ level = l /\ bucket = b)
    <3>1. Put(count, source, level, bucket, 0)[Redis][l][b] = count[Redis][l][b]
      BY <1>1, <2>1, <2>3, TableElsewhere
    <3> QED
      BY <1>2, <2>1, <3>1
  <2> QED
    BY <2>2, <2>3
<1> SUFFICES ASSUME ~straggled, NEW l \in 1 .. Levels - 1, NEW b \in Buckets
             PROVE  count'[Redis][l + 1][b] + Pending(call, l + 1) <= Passed(admitted, l)
  BY <1>1 DEF Covered
<1>4. l \in 1 .. Levels /\ l + 1 \in 1 .. Levels /\ l + 1 \in Nat /\ Redis \in Sources
  BY BudgetConstantsOK DEF Sources
<1>5. count[Redis][l + 1][b] \in Nat /\ Pending(call, l + 1) \in Nat
  BY <1>1, <1>4, TableEntry, PendingTyped
<1>6. count' \in Table
  <2>1. 0 \in Nat
    OBVIOUS
  <2> QED
    BY <1>1, <1>2, <2>1, TableUpdate, Zenon
<1>7. count'[Redis][l + 1][b] \in Nat
  BY <1>4, <1>6, TableEntry
<1>8. Passed(admitted, l) \in Nat
  <2>1. admitted \in Table
    BY Zenon DEF IInv, TypeOK, Table
  <2> QED
    BY <1>4, <2>1, PassedTyped
<1>9. count[Redis][l + 1][b] + Pending(call, l + 1) <= Passed(admitted, l)
  BY DEF Covered
<1>10. count'[Redis][l + 1][b] <= count[Redis][l + 1][b]
  BY <1>3, <1>4
<1> QED
  BY <1>5, <1>7, <1>8, <1>9, <1>10

LEMMA InitCovered == Init => Covered
<1> SUFFICES ASSUME Init, NEW level \in 1 .. Levels - 1, NEW bucket \in Buckets
             PROVE  count[Redis][level + 1][bucket] + Pending(call, level + 1)
                      <= Passed(admitted, level)
  BY DEF Covered
<1>1. level \in 1 .. Levels /\ level + 1 \in 1 .. Levels /\ level + 1 # 0 /\ Redis \in Sources
  BY BudgetConstantsOK DEF Sources
<1>2. count[Redis][level + 1][bucket] = 0
  BY <1>1 DEF Init, None
<1>3. Pending(call, level + 1) = 0
  <2> DEFINE f == [c \in Calls |-> Asked(call, c, level + 1)]
  <2>1. \A c \in Calls : f[c] = 0
    BY <1>1 DEF Init, Asked, Idle
  <2>2. IsFiniteSet(Calls)
    BY BudgetConstantsOK
  <2> HIDE DEF f
  <2>3. SumFunctionOnSet(f, Calls) = 0
    BY <2>1, <2>2, SumOfNothing
  <2> QED
    BY <2>3 DEF f, Pending
<1>4. Passed(admitted, level) \in Nat
  <2>1. admitted \in Table
    BY DEF Init, None, Table
  <2> QED
    BY <1>1, <2>1, PassedTyped
<1> QED
  BY <1>2, <1>3, <1>4

LEMMA StepCovered == IInv /\ Covered /\ IInv' /\ [Next]_vars => Covered'
<1> SUFFICES ASSUME IInv, Covered, IInv', [Next]_vars PROVE Covered'
  OBVIOUS
<1>1. CASE UNCHANGED vars \/ Tick
  <2>1. UNCHANGED <<count, call, admitted, straggled>>
    BY <1>1 DEF vars, Tick
  <2> QED
    BY <2>1 DEF Covered
<1>2. ASSUME NEW c \in Calls, NEW units \in Weights, TryConsume(c, units) PROVE Covered'
  BY <1>2, TryConsumeCovered
<1>3. ASSUME NEW c \in Calls, CountShared(c) PROVE Covered'
  <2>1. call[c] # Idle /\ Redis \in Sources
    BY <1>3 DEF CountShared, Asking, Sources
  <2> QED
    BY <1>3, <2>1, CountOneCovered DEF CountShared
<1>4. ASSUME NEW c \in Calls, CountLocal(c) PROVE Covered'
  <2>1. call[c] # Idle /\ Home[c] \in Sources
    BY <1>4, BudgetConstantsOK DEF CountLocal, Asking, Sources
  <2> QED
    BY <1>4, <2>1, CountOneCovered DEF CountLocal
<1>5. ASSUME NEW c \in Calls, LoseAnswer(c) PROVE Covered'
  BY <1>5, LoseAnswerCovered
<1>6. ASSUME NEW source \in Sources, NEW level \in 1 .. Levels, NEW bucket \in Buckets,
             Expire(source, level, bucket)
      PROVE  Covered'
  BY <1>6, ExpireCovered
<1> QED
  BY <1>1, <1>2, <1>3, <1>4, <1>5, <1>6 DEF Next

LEMMA AlwaysCovered == Spec => []Covered
<1> QED
  BY Invariance, InitCovered, StepCovered, PTL DEF Spec

\* provider-budget.ts:129-139: calls that are refused, however many, spend nothing
\* of the windows after, as long as no answer came when its bucket was over.
THEOREM RefusalsSpare == Spec => []RefusalsSpareLaterWindows
<1>1. IInv /\ Covered => RefusalsSpareLaterWindows
  <2> SUFFICES ASSUME IInv, Covered, ~straggled, NEW level \in 1 .. Levels - 1, NEW bucket \in Buckets
               PROVE  count[Redis][level + 1][bucket] <= LetThroughAt(level)
    BY DEF RefusalsSpareLaterWindows
  <2>1. call \in InCalls /\ count \in Table /\ admitted \in Table
    BY Zenon DEF IInv, TypeOK, InCalls, InFlight, Table
  <2>2. level \in 1 .. Levels /\ level + 1 \in 1 .. Levels /\ level + 1 \in Nat /\ Redis \in Sources
    BY BudgetConstantsOK DEF Sources
  <2>3. /\ count[Redis][level + 1][bucket] \in Nat /\ Pending(call, level + 1) \in Nat
        /\ Passed(admitted, level) \in Nat
    BY <2>1, <2>2, TableEntry, PendingTyped, PassedTyped
  <2>4. count[Redis][level + 1][bucket] + Pending(call, level + 1) <= Passed(admitted, level)
    BY DEF Covered
  <2> QED
    BY <2>3, <2>4, PassedIs
<1> QED
  BY <1>1, Invariance, AlwaysCovered, PTL
=============================================================================
