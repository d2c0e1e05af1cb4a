------------------------- MODULE ResendLimitsProofs -------------------------
(***************************************************************************)
(* What ResendLimits promises for every limit, every window length and     *)
(* every finite number of resends at one time.                             *)
(*                                                                         *)
(* The argument counts, for a day, the requests that have a unit in the    *)
(* day's row and have not ended.  While the day lasts, its counter is at   *)
(* least the codes mailed plus the timely ones of those (Covered in        *)
(* DayOK): nothing but a refund takes a unit out, and a refund takes out   *)
(* one and ends one.  When the day is over none of them can begin.         *)
(***************************************************************************)
EXTENDS ResendLimits, FiniteSetTheorems, TLAPS

-----------------------------------------------------------------------------
(* Windows.                                                                *)

LEMMA DivWithin == ASSUME NEW t \in Nat, NEW n \in Nat \ {0} PROVE t \div n \in 0 .. t
  OBVIOUS

LEMMA DivGrows ==
  ASSUME NEW t \in Nat, NEW n \in Nat \ {0}
  PROVE  t \div n <= (t + 1) \div n
<1> DEFINE q == t \div n
           p == (t + 1) \div n
<1>1. q \in Int /\ p \in Int /\ q * n <= t /\ t + 1 < (p + 1) * n
  OBVIOUS
<1> HIDE DEF q, p
<1>2. q < p + 1
  BY <1>1
<1> QED
  BY <1>1, <1>2 DEF q, p

LEMMA WindowInRange ==
  ASSUME TypeOK, NEW scope \in Scopes
  PROVE  WindowAt(scope, now) \in Windows
<1>1. now \in Nat /\ now <= MaxTime /\ MaxTime \in Nat /\ Length[scope] \in Nat \ {0}
  BY RateConstantsOK DEF TypeOK
<1>2. now \div Length[scope] \in 0 .. now
  BY <1>1, DivWithin
<1> QED
  BY <1>1, <1>2 DEF WindowAt, Windows

LEMMA ScopesKnown == "cooldown" \in Scopes /\ "daily" \in Scopes
  BY ResendConstantsOK

-----------------------------------------------------------------------------
(* Requests with a unit in the row of a day.                               *)

\* Of these, the ones that counted while the day lasted.
Pending(day) == {r \in Unsettled(day) : req[r].timely}

Open(day) == Cardinality(Unsettled(day))
Due(day)  == Cardinality(Pending(day))

\* A step changes the locals of one request.
Others(r) == \A q \in Requests \ {r} : req'[q] = req[q]

LEMMA OneMember ==
  ASSUME NEW A, NEW B, NEW r, IsFiniteSet(A), IsFiniteSet(B), A \ {r} = B \ {r}
  PROVE  /\ Cardinality(A) \in Nat /\ Cardinality(B) \in Nat
         /\ r \in A /\ r \notin B => Cardinality(B) = Cardinality(A) - 1
         /\ r \notin A /\ r \in B => Cardinality(B) = Cardinality(A) + 1
         /\ (r \in A <=> r \in B) => B = A
<1> DEFINE C == A \ {r}
           D == B \ {r}
<1>1. Cardinality(A) \in Nat /\ Cardinality(B) \in Nat
  BY FS_CardinalityType
<1>2. /\ Cardinality(C) = IF r \in A THEN Cardinality(A) - 1 ELSE Cardinality(A)
      /\ Cardinality(D) = IF r \in B THEN Cardinality(B) - 1 ELSE Cardinality(B)
  BY FS_RemoveElement
<1>3. C = D
  OBVIOUS
<1>4. ASSUME r \in A <=> r \in B PROVE B = A
  <2>1. \A x : x # r => (x \in A <=> x \in B)
    OBVIOUS
  <2> QED
    BY <1>4, <2>1
<1> HIDE DEF C, D
<1>5. Cardinality(C) = Cardinality(D)
  BY <1>3
<1>6. r \in A /\ r \notin B => Cardinality(B) = Cardinality(A) - 1
  BY <1>1, <1>2, <1>5
<1>7. r \notin A /\ r \in B => Cardinality(B) = Cardinality(A) + 1
  BY <1>1, <1>2, <1>5
<1> QED
  BY <1>1, <1>4, <1>6, <1>7

LEMMA FiniteUnits ==
  ASSUME NEW day
  PROVE  IsFiniteSet(Unsettled(day)) /\ IsFiniteSet(Pending(day))
  BY ResendConstantsOK, FS_Subset DEF Unsettled, Pending

LEMMA Sizes ==
  ASSUME NEW r \in Requests, Others(r), NEW day
  PROVE  /\ Open(day) \in Nat /\ Open(day)' \in Nat
         /\ Due(day) \in Nat /\ Due(day)' \in Nat
         /\ r \in Unsettled(day) /\ r \notin Unsettled(day)' => Open(day)' = Open(day) - 1
         /\ r \notin Unsettled(day) /\ r \in Unsettled(day)' => Open(day)' = Open(day) + 1
         /\ (r \in Unsettled(day) <=> r \in Unsettled(day)') => Open(day)' = Open(day)
         /\ r \in Pending(day) /\ r \notin Pending(day)' => Due(day)' = Due(day) - 1
         /\ r \notin Pending(day) /\ r \in Pending(day)' => Due(day)' = Due(day) + 1
         /\ (r \in Pending(day) <=> r \in Pending(day)') => Due(day)' = Due(day)
<1>1. IsFiniteSet(Unsettled(day)) /\ IsFiniteSet(Pending(day))
  BY FiniteUnits
<1>2. IsFiniteSet(Unsettled(day)') /\ IsFiniteSet(Pending(day)')
  BY ResendConstantsOK, FS_Subset DEF Unsettled, Pending
<1>3. Unsettled(day) \ {r} = Unsettled(day)' \ {r}
  BY DEF Others, Unsettled
<1>4. Pending(day) \ {r} = Pending(day)' \ {r}
  BY DEF Others, Unsettled, Pending
<1>5. /\ Open(day) \in Nat /\ Open(day)' \in Nat
      /\ r \in Unsettled(day) /\ r \notin Unsettled(day)' => Open(day)' = Open(day) - 1
      /\ r \notin Unsettled(day) /\ r \in Unsettled(day)' => Open(day)' = Open(day) + 1
      /\ (r \in Unsettled(day) <=> r \in Unsettled(day)') => Open(day)' = Open(day)
  BY <1>1, <1>2, <1>3, OneMember DEF Open
<1>6. /\ Due(day) \in Nat /\ Due(day)' \in Nat
      /\ r \in Pending(day) /\ r \notin Pending(day)' => Due(day)' = Due(day) - 1
      /\ r \notin Pending(day) /\ r \in Pending(day)' => Due(day)' = Due(day) + 1
      /\ (r \in Pending(day) <=> r \in Pending(day)') => Due(day)' = Due(day)
  BY <1>1, <1>2, <1>4, OneMember DEF Due
<1> QED
  BY <1>5, <1>6

-----------------------------------------------------------------------------
(* The inductive invariant.                                                *)

Counted(r) == req[r].at \in {"cloning", "refund"}

\* No request works on a day to come; one that counted too late, on one gone by.
InWindow ==
  /\ \A r \in Requests : Counted(r) \/ At(r, "daily") => req[r].window <= Today
  /\ \A r \in Requests : Counted(r) /\ ~req[r].timely => req[r].window < Today
  /\ \A day \in Windows : day > Today => mailed[day] = 0

DayOK(day) ==
  /\ mailed[day] + Due(day) <= Limit["daily"]
  /\ day = Today => mailed[day] + Due(day) <= counts["daily"][day]
  /\ counts["daily"][day] <= kept[day] + Open(day)

IInv == TypeOK /\ InWindow /\ \A day \in Windows : DayOK(day)

\* What TypeOK says, entry by entry.
LEMMA Entries ==
  ASSUME TypeOK
  PROVE  /\ now \in Nat /\ Today \in Windows
         /\ \A day \in Windows : /\ day \in Nat
                                 /\ counts["daily"][day] \in Nat
                                 /\ mailed[day] \in Nat /\ kept[day] \in Nat
         /\ \A r \in Requests : req[r].window \in Windows /\ req[r].timely \in BOOLEAN
         /\ Limit["daily"] \in Nat
<1>1. now \in Nat /\ Today \in Windows
  BY ScopesKnown, WindowInRange DEF TypeOK, Today
<1>2. counts["daily"] \in [Windows -> Nat]
  BY ScopesKnown DEF TypeOK
<1>3. \A day \in Windows : day \in Nat /\ mailed[day] \in Nat /\ kept[day] \in Nat
  BY RateConstantsOK DEF TypeOK, Windows
<1>4. \A r \in Requests : req[r].window \in Windows /\ req[r].timely \in BOOLEAN
  BY DEF TypeOK
<1>5. Limit["daily"] \in Nat
  BY ScopesKnown, RateConstantsOK
<1> QED
  BY <1>1, <1>2, <1>3, <1>4, <1>5

LEMMA InitOK == Init => IInv
<1> SUFFICES ASSUME Init PROVE IInv
  OBVIOUS
<1>1. 0 \in Windows
  BY RateConstantsOK DEF Windows
<1>2. TypeOK
  BY <1>1, RateConstantsOK DEF Init, TypeOK, Idle
<1>3. InWindow
  BY <1>2, Entries DEF Init, InWindow, Counted, At, Idle
<1>4. ASSUME NEW day \in Windows PROVE DayOK(day)
  <2>1. Unsettled(day) = {} /\ Pending(day) = {}
    BY DEF Init, Unsettled, Pending, Idle
  <2>2. Open(day) = 0 /\ Due(day) = 0
    BY <2>1, FS_EmptySet DEF Open, Due
  <2>3. counts["daily"][day] = 0 /\ mailed[day] = 0 /\ kept[day] = 0
    BY <1>1, ScopesKnown, <1>4 DEF Init
  <2> QED
    BY <1>2, <2>2, <2>3, Entries DEF DayOK
<1> QED
  BY <1>2, <1>3, <1>4 DEF IInv

\* A step that keeps the clock and the histories and moves one request to a place
\* where it has no unit, or leaves its unit as it was, and touches no day's row.
LEMMA ApartOK ==
  ASSUME IInv, NEW r \in Requests, Others(r), TypeOK',
         UNCHANGED <<now, mailed, kept>>, counts'["daily"] = counts["daily"],
         \/ ~Counted(r) /\ ~Counted(r)' /\ ~At(r, "daily")'
         \/ Counted(r) /\ Counted(r)' /\ req'[r].window = req[r].window
              /\ req'[r].timely = req[r].timely
  PROVE  IInv'
<1>1. Today' = Today
  BY DEF Today, WindowAt
<1>2. InWindow'
  BY <1>1, Entries DEF IInv, InWindow, Others, Counted, At
<1>3. ASSUME NEW day \in Windows PROVE DayOK(day)'
  <2>1. /\ r \in Unsettled(day) <=> r \in Unsettled(day)'
        /\ r \in Pending(day) <=> r \in Pending(day)'
    BY DEF Unsettled, Pending, Counted
  <2>2. Open(day)' = Open(day) /\ Due(day)' = Due(day)
    BY <2>1, Sizes
  <2> QED
    BY <1>1, <2>2 DEF IInv, DayOK
<1> QED
  BY <1>2, <1>3 DEF IInv, Windows

-----------------------------------------------------------------------------
(* What the three statements of the limiter do to the rows.                *)

Rows == [Scopes -> [Windows -> Nat]]

LEMMA SweepDoes ==
  ASSUME TypeOK, NEW scope \in Scopes, NEW window \in Windows, Sweep(scope, window)
  PROVE  /\ counts' \in Rows
         /\ \A s \in Scopes : s # scope => counts'[s] = counts[s]
         /\ \A w \in Windows :
              counts'[scope][w] = IF w < window THEN 0 ELSE counts[scope][w]
<1>1. counts \in Rows /\ counts[scope] \in [Windows -> Nat]
  BY DEF TypeOK, Rows
<1>2. Kept(counts[scope], window) \in [Windows -> Nat]
  BY <1>1 DEF Kept
<1>3. counts' = [counts EXCEPT ![scope] = Kept(counts[scope], window)]
  BY DEF Sweep
<1>4. counts'[scope] = Kept(counts[scope], window)
  BY <1>1, <1>3 DEF Rows
<1>5. \A w \in Windows : counts'[scope][w] = IF w < window THEN 0 ELSE counts[scope][w]
  BY <1>4 DEF Kept
<1>6. counts' \in Rows /\ \A s \in Scopes : s # scope => counts'[s] = counts[s]
  BY <1>1, <1>2, <1>3 DEF Rows
<1> QED
  BY <1>5, <1>6

\* Count and Refund write one entry.
LEMMA EntryDoes ==
  ASSUME TypeOK, NEW scope \in Scopes, NEW window \in Windows, NEW n \in Nat,
         counts' = [counts EXCEPT ![scope][window] = n]
  PROVE  /\ counts' \in Rows
         /\ \A s \in Scopes : s # scope => counts'[s] = counts[s]
         /\ \A w \in Windows : counts'[scope][w] = IF w = window THEN n ELSE counts[scope][w]
<1>1. counts \in Rows /\ counts[scope] \in [Windows -> Nat]
  BY DEF TypeOK, Rows
<1>2. counts'[scope] = [counts[scope] EXCEPT ![window] = n]
  BY <1>1 DEF Rows
<1>3. counts' \in Rows /\ \A s \in Scopes : s # scope => counts'[s] = counts[s]
  BY <1>1 DEF Rows
<1>4. \A w \in Windows : counts'[scope][w] = IF w = window THEN n ELSE counts[scope][w]
  BY <1>1, <1>2
<1> QED
  BY <1>3, <1>4

LEMMA CountDoes ==
  ASSUME TypeOK, NEW scope \in Scopes, NEW window \in Windows, Count(scope, window)
  PROVE  /\ counts' \in Rows
         /\ \A s \in Scopes : s # scope => counts'[s] = counts[s]
         /\ \A w \in Windows : counts'[scope][w]
              = IF w = window THEN counts[scope][window] + 1 ELSE counts[scope][w]
<1> DEFINE n == counts[scope][window] + 1
<1>1. n \in Nat
  BY DEF TypeOK
<1>2. counts' = [counts EXCEPT ![scope][window] = n]
  BY DEF Count
<1> HIDE DEF n
<1>3. counts' \in Rows /\ \A s \in Scopes : s # scope => counts'[s] = counts[s]
  BY <1>1, <1>2, EntryDoes
<1>4. \A w \in Windows : counts'[scope][w] = IF w = window THEN n ELSE counts[scope][w]
  BY <1>1, <1>2, EntryDoes
<1> QED
  BY <1>3, <1>4 DEF n

LEMMA RefundDoes ==
  ASSUME TypeOK, NEW scope \in Scopes, NEW window \in Windows, Refund(scope, window)
  PROVE  /\ counts' \in Rows
         /\ \A w \in Windows : counts'[scope][w]
              = IF w = window /\ counts[scope][w] > 0 THEN counts[scope][w] - 1
                                                      ELSE counts[scope][w]
<1> DEFINE n == IF counts[scope][window] > 0 THEN counts[scope][window] - 1 ELSE 0
<1>1. counts[scope][window] \in Nat
  BY DEF TypeOK
<1>2. n \in Nat
  BY <1>1
<1>3. counts' = [counts EXCEPT ![scope][window] = n]
  BY DEF Refund
<1>4. counts' \in Rows
  BY <1>2, <1>3, EntryDoes
<1>5. \A w \in Windows : counts'[scope][w] = IF w = window THEN n ELSE counts[scope][w]
  BY <1>2, <1>3, EntryDoes
<1> QED
  BY <1>1, <1>4, <1>5

-----------------------------------------------------------------------------
(* Each action keeps the invariant.                                        *)

LEMMA ResendOK == ASSUME IInv, NEW r \in Requests, Resend(r) PROVE IInv'
<1> DEFINE window == WindowAt("cooldown", now)
<1>1. TypeOK
  BY DEF IInv
<1>2. window \in Windows
  BY <1>1, ScopesKnown, WindowInRange
<1>3. counts' \in Rows /\ counts'["daily"] = counts["daily"]
  BY <1>1, <1>2, ScopesKnown, SweepDoes DEF Resend
<1>4. TypeOK'
  BY <1>1, <1>2, <1>3 DEF TypeOK, Rows, Resend
<1>5. Others(r) /\ ~Counted(r) /\ ~Counted(r)' /\ ~At(r, "daily")'
  BY <1>1 DEF Resend, Others, Counted, At, TypeOK
<1>6. UNCHANGED <<now, mailed, kept>>
  BY DEF Resend
<1> QED
  BY <1>3, <1>4, <1>5, <1>6, ApartOK

LEMMA TooSoonOK == ASSUME IInv, NEW r \in Requests, TooSoon(r) PROVE IInv'
<1>1. TypeOK /\ req[r].window \in Windows /\ 0 \in Windows
  BY Entries, RateConstantsOK DEF IInv, Windows
<1>2. counts' \in Rows /\ counts'["daily"] = counts["daily"]
  BY <1>1, ScopesKnown, CountDoes DEF TooSoon
<1>3. TypeOK'
  BY <1>1, <1>2 DEF TypeOK, Rows, TooSoon, End, Idle
<1>4. Others(r) /\ ~Counted(r) /\ ~Counted(r)' /\ ~At(r, "daily")'
  BY <1>1 DEF TooSoon, End, Idle, Others, Counted, At, TypeOK
<1>5. UNCHANGED <<now, mailed, kept>>
  BY DEF TooSoon
<1> QED
  BY <1>2, <1>3, <1>4, <1>5, ApartOK

LEMMA CooledDownOK == ASSUME IInv, NEW r \in Requests, CooledDown(r) PROVE IInv'
<1>1. TypeOK /\ req[r].window \in Windows
  BY Entries DEF IInv
<1>2. counts' \in Rows /\ counts'["daily"] = counts["daily"]
  BY <1>1, ScopesKnown, CountDoes DEF CooledDown
<1>3. TypeOK'
  BY <1>1, <1>2 DEF TypeOK, Rows, CooledDown
<1>4. Others(r) /\ ~Counted(r) /\ ~Counted(r)' /\ ~At(r, "daily")'
  BY <1>1 DEF CooledDown, Others, Counted, At, TypeOK
<1>5. UNCHANGED <<now, mailed, kept>>
  BY DEF CooledDown
<1> QED
  BY <1>2, <1>3, <1>4, <1>5, ApartOK

LEMMA AmbiguousOK == ASSUME IInv, NEW r \in Requests, Ambiguous(r) PROVE IInv'
<1>1. TypeOK
  BY DEF IInv
<1>2. TypeOK'
  BY <1>1 DEF TypeOK, Ambiguous
<1>3. /\ Others(r) /\ Counted(r) /\ Counted(r)'
      /\ req'[r].window = req[r].window /\ req'[r].timely = req[r].timely
  BY <1>1 DEF Ambiguous, Others, Counted, At, TypeOK
<1>4. UNCHANGED <<now, mailed, kept>> /\ counts'["daily"] = counts["daily"]
  BY DEF Ambiguous
<1> QED
  BY <1>2, <1>3, <1>4, ApartOK

\* The day's own row is not swept.
LEMMA ConsumeDailyOK == ASSUME IInv, NEW r \in Requests, ConsumeDaily(r) PROVE IInv'
<1>1. TypeOK /\ Today \in Windows
  BY Entries DEF IInv
<1>2. /\ counts' \in Rows
      /\ \A w \in Windows :
           counts'["daily"][w] = IF w < Today THEN 0 ELSE counts["daily"][w]
  BY <1>1, ScopesKnown, SweepDoes DEF ConsumeDaily
<1>3. TypeOK'
  <2>1. req' \in [Requests -> [at : {"idle", "cooldown", "cooled", "daily", "cloning",
                                     "refund"},
                               window : Windows, timely : BOOLEAN]]
    BY <1>1 DEF TypeOK, ConsumeDaily
  <2> QED
    BY <1>1, <1>2, <2>1 DEF TypeOK, Rows, ConsumeDaily
<1>4. /\ Others(r) /\ ~Counted(r) /\ ~Counted(r)'
      /\ req'[r].window = Today
  BY <1>1 DEF ConsumeDaily, Others, Counted, At, TypeOK
<1>5. Today' = Today /\ UNCHANGED <<now, mailed, kept>>
  BY DEF ConsumeDaily, Today, WindowAt
<1>6. InWindow'
  BY <1>1, <1>4, <1>5, Entries DEF IInv, InWindow, Others, Counted, At
<1>7. ASSUME NEW day \in Windows PROVE DayOK(day)'
  <2>1. Open(day)' = Open(day) /\ Due(day)' = Due(day) /\ Open(day) \in Nat
    BY <1>4, Sizes DEF Unsettled, Pending, Counted
  <2>2. DayOK(day)
    BY DEF IInv
  <2>3. day \in Nat /\ Today \in Nat /\ kept[day] \in Nat
    BY <1>1, Entries
  <2> QED
    BY <1>1, <1>2, <1>5, <2>1, <2>2, <2>3 DEF DayOK
<1> QED
  BY <1>3, <1>6, <1>7 DEF IInv, Windows

LEMMA OverTheCapOK == ASSUME IInv, NEW r \in Requests, OverTheCap(r) PROVE IInv'
<1> DEFINE window == req[r].window
<1>1. TypeOK /\ window \in Windows /\ 0 \in Windows
  BY Entries, RateConstantsOK DEF IInv, Windows
<1>2. /\ counts' \in Rows
      /\ \A w \in Windows : counts'["daily"][w]
           = IF w = window THEN counts["daily"][window] + 1 ELSE counts["daily"][w]
  BY <1>1, ScopesKnown, CountDoes DEF OverTheCap
<1>3. kept' = [kept EXCEPT ![window] = @ + 1] /\ UNCHANGED <<now, mailed>>
  BY DEF OverTheCap, Keep
<1>4. TypeOK'
  BY <1>1, <1>2, <1>3 DEF TypeOK, Rows, OverTheCap, End, Idle
<1>5. Others(r) /\ ~Counted(r) /\ ~Counted(r)' /\ ~At(r, "daily")'
  BY <1>1 DEF OverTheCap, End, Idle, Others, Counted, At, TypeOK
<1>6. Today' = Today
  BY <1>3 DEF Today, WindowAt
<1>7. InWindow'
  BY <1>1, <1>3, <1>5, <1>6, Entries DEF IInv, InWindow, Others, Counted, At
<1>8. ASSUME NEW day \in Windows PROVE DayOK(day)'
  <2>1. Open(day)' = Open(day) /\ Due(day)' = Due(day) /\ Open(day) \in Nat /\ Due(day) \in Nat
    BY <1>5, Sizes DEF Unsettled, Pending, Counted
  <2>2. DayOK(day)
    BY DEF IInv
  <2>3. /\ counts["daily"][day] \in Nat /\ mailed[day] \in Nat /\ kept[day] \in Nat
        /\ kept'[day] = IF day = window THEN kept[day] + 1 ELSE kept[day]
    BY <1>1, <1>3, Entries DEF TypeOK
  <2> QED
    BY <1>2, <1>3, <1>6, <2>1, <2>2, <2>3 DEF DayOK
<1> QED
  BY <1>4, <1>7, <1>8 DEF IInv, Windows

\* The only action that makes a unit due: it finds the day's counter under the cap.
LEMMA UnderTheCapOK == ASSUME IInv, NEW r \in Requests, UnderTheCap(r) PROVE IInv'
<1> DEFINE window == req[r].window
<1>1. TypeOK /\ window \in Windows
  BY Entries DEF IInv
<1>2. /\ counts' \in Rows
      /\ \A w \in Windows : counts'["daily"][w]
           = IF w = window THEN counts["daily"][window] + 1 ELSE counts["daily"][w]
  BY <1>1, ScopesKnown, CountDoes DEF UnderTheCap
<1>3. UNCHANGED <<now, mailed, kept>>
  BY DEF UnderTheCap
<1>4. /\ TypeOK'
      /\ Others(r) /\ ~Counted(r) /\ Counted(r)' /\ At(r, "daily")
      /\ req'[r].window = window /\ (req'[r].timely <=> window = Today)
  <2> DEFINE timely == window = Today
  <2>1. /\ timely \in BOOLEAN
        /\ req' = [req EXCEPT ![r].at = "cloning", ![r].timely = timely]
    BY DEF UnderTheCap
  <2> HIDE DEF timely
  <2>2. req' \in [Requests -> [at : {"idle", "cooldown", "cooled", "daily", "cloning",
                                     "refund"},
                               window : Windows, timely : BOOLEAN]]
    BY <1>1, <2>1 DEF TypeOK
  <2>3. TypeOK'
    BY <1>1, <1>2, <1>3, <2>2 DEF TypeOK, Rows
  <2>4. /\ Others(r) /\ ~Counted(r) /\ Counted(r)' /\ At(r, "daily")
        /\ req'[r].window = window
    BY <1>1, <2>1 DEF UnderTheCap, Others, Counted, At, TypeOK
  <2>5. req'[r].timely = timely
    BY <1>1, <2>1 DEF TypeOK
  <2> QED
    BY <2>3, <2>4, <2>5 DEF timely
<1>6. Today' = Today
  BY <1>3 DEF Today, WindowAt
<1>7. window <= Today /\ Today \in Nat /\ window \in Nat
  BY <1>1, <1>4, Entries DEF IInv, InWindow
<1>8. InWindow'
  <2>1. \A q \in Requests : Counted(q)' \/ At(q, "daily")' => req'[q].window <= Today
    BY <1>4, <1>7 DEF IInv, InWindow, Others, Counted, At
  <2>2. \A q \in Requests : Counted(q)' /\ ~req'[q].timely => req'[q].window < Today
    <3>1. ASSUME NEW q \in Requests, q # r, Counted(q)', ~req'[q].timely
          PROVE  req'[q].window < Today
      BY <1>4, <3>1 DEF IInv, InWindow, Others, Counted
    <3>2. ~req'[r].timely => req'[r].window < Today
      BY <1>4, <1>7
    <3> QED
      BY <3>1, <3>2
  <2>3. \A day \in Windows : day > Today => mailed'[day] = 0
    BY <1>3 DEF IInv, InWindow
  <2> QED
    BY <1>6, <2>1, <2>2, <2>3 DEF InWindow, Counted, At, Windows
<1>9. ASSUME NEW day \in Windows PROVE DayOK(day)'
  <2>1. Open(day)' = (IF day = window THEN Open(day) + 1 ELSE Open(day)) /\ Open(day) \in Nat
    BY <1>4, Sizes DEF Unsettled, Counted
  <2>2. /\ Due(day)' = (IF day = window /\ window = Today THEN Due(day) + 1 ELSE Due(day))
        /\ Due(day) \in Nat
    BY <1>4, Sizes DEF Unsettled, Pending, Counted
  <2>3. DayOK(day)
    BY DEF IInv
  <2>4. /\ counts["daily"][day] \in Nat /\ mailed[day] \in Nat /\ kept[day] \in Nat
        /\ Limit["daily"] \in Nat
    BY <1>1, Entries
  <2>5. counts["daily"][window] + 1 <= Limit["daily"]
    BY DEF UnderTheCap, Allowed
  <2> QED
    BY <1>2, <1>3, <1>6, <2>1, <2>2, <2>3, <2>4, <2>5 DEF DayOK
<1> QED
  BY <1>4, <1>8, <1>9 DEF IInv, Windows

\* A request ends and its unit stays, mailed or not.
LEMMA EndsOK ==
  ASSUME IInv, NEW r \in Requests, Counted(r), Others(r), ~Counted(r)', ~At(r, "daily")',
         TypeOK', UNCHANGED <<now, counts>>, Keep(r),
         \/ mailed' = mailed
         \/ mailed' = [mailed EXCEPT ![req[r].window] = @ + IF req[r].timely THEN 1 ELSE 0]
  PROVE  IInv'
<1> DEFINE window == req[r].window
<1>1. TypeOK /\ window \in Windows /\ Today \in Nat /\ window \in Nat /\ window <= Today
  BY Entries DEF IInv, InWindow
<1>2. Today' = Today
  BY DEF Today, WindowAt
<1>3. \A day \in Windows : day # window => mailed'[day] = mailed[day]
  BY <1>1 DEF TypeOK
<1>4. InWindow'
  BY <1>1, <1>2, <1>3, Entries DEF IInv, InWindow, Others, Counted, At
<1>5. ASSUME NEW day \in Windows PROVE DayOK(day)'
  <2>1. Open(day)' = (IF day = window THEN Open(day) - 1 ELSE Open(day)) /\ Open(day) \in Nat
    BY Sizes DEF Unsettled, Counted
  <2>2. /\ Due(day)' = (IF day = window /\ req[r].timely THEN Due(day) - 1 ELSE Due(day))
        /\ Due(day) \in Nat
    BY Sizes DEF Unsettled, Pending, Counted
  <2>3. DayOK(day)
    BY DEF IInv
  <2>4. /\ counts["daily"][day] \in Nat /\ mailed[day] \in Nat /\ kept[day] \in Nat
        /\ Limit["daily"] \in Nat /\ req[r].timely \in BOOLEAN
    BY <1>1, Entries
  <2>5. kept'[day] = IF day = window THEN kept[day] + 1 ELSE kept[day]
    BY <1>1 DEF TypeOK, Keep
  <2>6. \/ mailed'[day] = mailed[day]
        \/ day = window /\ req[r].timely /\ mailed'[day] = mailed[day] + 1
    BY <1>1, <2>4 DEF TypeOK
  <2> QED
    BY <1>2, <2>1, <2>2, <2>3, <2>4, <2>5, <2>6 DEF DayOK
<1> QED
  BY <1>4, <1>5 DEF IInv, Windows

LEMMA IssuedOK == ASSUME IInv, NEW r \in Requests, Issued(r) PROVE IInv'
<1>1. TypeOK /\ 0 \in Windows /\ req[r].window \in Windows
  BY Entries, RateConstantsOK DEF IInv, Windows
<1>2. TypeOK'
  BY <1>1 DEF TypeOK, Issued, Keep, End, Idle
<1>3. Others(r) /\ Counted(r) /\ ~Counted(r)' /\ ~At(r, "daily")'
  BY <1>1 DEF Issued, End, Idle, Others, Counted, At, TypeOK
<1> QED
  BY <1>2, <1>3, EndsOK DEF Issued

LEMMA DeclinedOK == ASSUME IInv, NEW r \in Requests, Declined(r) PROVE IInv'
<1>1. TypeOK /\ 0 \in Windows /\ req[r].window \in Windows
  BY Entries, RateConstantsOK DEF IInv, Windows
<1>2. TypeOK'
  BY <1>1 DEF TypeOK, Declined, Keep, End, Idle
<1>3. Others(r) /\ Counted(r) /\ ~Counted(r)' /\ ~At(r, "daily")'
  BY <1>1 DEF Declined, End, Idle, Others, Counted, At, TypeOK
<1> QED
  BY <1>2, <1>3, EndsOK DEF Declined

LEMMA RefundFailsOK == ASSUME IInv, NEW r \in Requests, RefundFails(r) PROVE IInv'
<1>1. TypeOK /\ 0 \in Windows /\ req[r].window \in Windows
  BY Entries, RateConstantsOK DEF IInv, Windows
<1>2. TypeOK'
  BY <1>1 DEF TypeOK, RefundFails, Keep, End, Idle
<1>3. Others(r) /\ Counted(r) /\ ~Counted(r)' /\ ~At(r, "daily")'
  BY <1>1 DEF RefundFails, End, Idle, Others, Counted, At, TypeOK
<1> QED
  BY <1>2, <1>3, EndsOK DEF RefundFails

\* A unit leaves the row with the request that it was counted for.
LEMMA GiveBackOK == ASSUME IInv, NEW r \in Requests, GiveBack(r) PROVE IInv'
<1> DEFINE window == req[r].window
<1>1. TypeOK /\ window \in Windows /\ 0 \in Windows
  BY Entries, RateConstantsOK DEF IInv, Windows
<1>2. /\ counts' \in Rows
      /\ \A w \in Windows : counts'["daily"][w]
           = IF w = window /\ counts["daily"][w] > 0 THEN counts["daily"][w] - 1
                                                     ELSE counts["daily"][w]
  BY <1>1, ScopesKnown, RefundDoes DEF GiveBack
<1>3. UNCHANGED <<now, mailed, kept>>
  BY DEF GiveBack
<1>4. TypeOK'
  BY <1>1, <1>2, <1>3 DEF TypeOK, Rows, GiveBack, End, Idle
<1>5. Others(r) /\ Counted(r) /\ ~Counted(r)' /\ ~At(r, "daily")'
  BY <1>1 DEF GiveBack, End, Idle, Others, Counted, At, TypeOK
<1>6. Today' = Today
  BY <1>3 DEF Today, WindowAt
<1>7. /\ Today \in Nat /\ window \in Nat
      /\ ~req[r].timely => window < Today
  BY <1>1, <1>5, Entries DEF IInv, InWindow
<1>8. InWindow'
  BY <1>1, <1>3, <1>5, <1>6, Entries DEF IInv, InWindow, Others, Counted, At
<1>9. ASSUME NEW day \in Windows PROVE DayOK(day)'
  <2>1. /\ Open(day)' = (IF day = window THEN Open(day) - 1 ELSE Open(day))
        /\ Open(day) \in Nat /\ Open(day)' \in Nat
    BY <1>5, Sizes DEF Unsettled, Counted
  <2>2. /\ Due(day)' = (IF day = window /\ req[r].timely THEN Due(day) - 1 ELSE Due(day))
        /\ Due(day) \in Nat /\ Due(day)' \in Nat
    BY <1>5, Sizes DEF Unsettled, Pending, Counted
  <2>3. DayOK(day)
    BY DEF IInv
  <2>4. /\ counts["daily"][day] \in Nat /\ mailed[day] \in Nat /\ kept[day] \in Nat
        /\ Limit["daily"] \in Nat /\ req[r].timely \in BOOLEAN
    BY <1>1, Entries
  <2> QED
    BY <1>2, <1>3, <1>6, <1>7, <2>1, <2>2, <2>3, <2>4 DEF DayOK
<1> QED
  BY <1>4, <1>8, <1>9 DEF IInv, Windows

\* A new day begins with nothing counted for it and nobody at work on it.
LEMMA TickOK == ASSUME IInv, Tick PROVE IInv'
<1>1. TypeOK /\ Length["daily"] \in Nat \ {0} /\ now \in Nat /\ Today \in Windows
  BY Entries, ScopesKnown, RateConstantsOK DEF IInv
<1>2. TypeOK'
  BY <1>1, RateConstantsOK DEF TypeOK, Tick
<1>3. Today' \in Windows
  <2>1. now' \in Nat /\ now' <= MaxTime /\ MaxTime \in Nat
    BY <1>2, RateConstantsOK DEF TypeOK
  <2>2. now' \div Length["daily"] \in 0 .. now'
    BY <1>1, <2>1, DivWithin
  <2> QED
    BY <2>1, <2>2 DEF Today, WindowAt, Windows
<1>4. Today <= Today' /\ Today \in Nat /\ Today' \in Nat
  <2>1. now \div Length["daily"] <= (now + 1) \div Length["daily"]
    BY <1>1, DivGrows
  <2> QED
    BY <1>1, <1>3, <2>1, RateConstantsOK DEF Today, WindowAt, Tick, Windows
<1>5. InWindow'
  <2>1. \A r \in Requests : Counted(r) \/ At(r, "daily") => req[r].window <= Today'
    BY <1>1, <1>4, Entries DEF IInv, InWindow, Windows
  <2>2. \A r \in Requests : Counted(r) /\ ~req[r].timely => req[r].window < Today'
    BY <1>1, <1>4, Entries DEF IInv, InWindow, Windows
  <2>3. \A day \in Windows : day > Today' => mailed[day] = 0
    BY <1>1, <1>4, Entries DEF IInv, InWindow
  <2> QED
    BY <2>1, <2>2, <2>3 DEF InWindow, Counted, At, Tick, Windows
<1>6. ASSUME NEW day \in Windows PROVE DayOK(day)'
  <2>1. Open(day)' = Open(day) /\ Due(day)' = Due(day)
    BY DEF Open, Due, Unsettled, Pending, Tick
  <2>2. DayOK(day) /\ counts["daily"][day] \in Nat /\ mailed[day] \in Nat /\ day \in Nat
    BY <1>1, Entries DEF IInv
  <2>3. CASE day <= Today
    <3>1. day = Today' => day = Today
      BY <1>4, <2>2, <2>3
    <3> QED
      BY <2>1, <2>2, <3>1 DEF DayOK, Tick
  <2>4. CASE day > Today
    <3>1. mailed[day] = 0
      BY <2>4 DEF IInv, InWindow
    <3>2. Pending(day) = {}
      BY <1>1, <1>4, <2>2, <2>4, Entries
      DEF IInv, InWindow, Pending, Unsettled, Counted
    <3>3. Due(day) = 0
      BY <3>2, FS_EmptySet DEF Due
    <3> QED
      BY <2>1, <2>2, <3>1, <3>3 DEF DayOK, Tick
  <2> QED
    BY <1>4, <2>2, <2>3, <2>4
<1> QED
  BY <1>2, <1>5, <1>6 DEF IInv, Windows

LEMMA StepOK == IInv /\ [Next]_vars => IInv'
<1> SUFFICES ASSUME IInv, [Next]_vars PROVE IInv'
  OBVIOUS
<1>1. CASE Tick
  BY <1>1, TickOK
<1>2. ASSUME NEW r \in Requests,
             \/ Resend(r) \/ TooSoon(r) \/ CooledDown(r) \/ ConsumeDaily(r)
             \/ OverTheCap(r) \/ UnderTheCap(r)
      PROVE  IInv'
  BY <1>2, ResendOK, TooSoonOK, CooledDownOK, ConsumeDailyOK, OverTheCapOK, UnderTheCapOK
<1>3. ASSUME NEW r \in Requests,
             \/ Issued(r) \/ Declined(r) \/ Ambiguous(r) \/ GiveBack(r) \/ RefundFails(r)
      PROVE  IInv'
  BY <1>3, IssuedOK, DeclinedOK, AmbiguousOK, GiveBackOK, RefundFailsOK
<1>4. CASE UNCHANGED vars
  BY <1>4 DEF vars, IInv, TypeOK, InWindow, DayOK, Open, Due, Unsettled, Pending,
              Counted, At, Today, WindowAt
<1> QED
  BY <1>1, <1>2, <1>3, <1>4 DEF Next

LEMMA Inductive == Spec => []IInv
<1> QED
  BY InitOK, StepOK, PTL DEF Spec

-----------------------------------------------------------------------------
(* Theorems.                                                               *)

\* Counters and the locals of every resend stay in their ranges: consume always
\* works on a window of the clock's past (auth-rate-limit.service.ts:70-134).
THEOREM TypeCorrect == Spec => []TypeOK
<1>1. IInv => TypeOK
  BY DEF IInv
<1> QED
  BY <1>1, Inductive, PTL

\* A day never sees more resent codes than its cap, for any number of resends at
\* once, refunds and changes of the day (registration.service.ts:142-176).
THEOREM CapHolds == Spec => []DailyCapHolds
<1>1. IInv => DailyCapHolds
  <2> SUFFICES ASSUME IInv, NEW day \in Windows PROVE mailed[day] <= Limit["daily"]
    BY DEF DailyCapHolds
  <2>1. mailed[day] \in Nat /\ Limit["daily"] \in Nat
    BY Entries DEF IInv
  <2>2. Due(day) \in Nat
    BY FiniteUnits, FS_CardinalityType DEF Due
  <2> QED
    BY <2>1, <2>2 DEF IInv, DayOK
<1> QED
  BY <1>1, Inductive, PTL

\* The counter of a day stands for no more units than were kept or are under way:
\* an ambiguous group costs its owner nothing (registration.service.ts:155-175).
THEOREM AmbiguityIsFree == Spec => []AmbiguityCostsNothing
<1>1. IInv => AmbiguityCostsNothing
  BY DEF IInv, DayOK, Open, AmbiguityCostsNothing
<1> QED
  BY <1>1, Inductive, PTL
=============================================================================
