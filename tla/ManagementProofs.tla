-------------------------- MODULE ManagementProofs --------------------------
(***************************************************************************)
(* Proofs about Management, for any number of concurrent calls, users,     *)
(* events, secrets and page sizes.  ApiInv is inductive.  The first part   *)
(* is about the tables as sequences and about pages; the second shows      *)
(* which changes of a call leave which part of ApiInv alone, so that the   *)
(* lemma of an action deals with the parts that it does disturb.           *)
(***************************************************************************)
EXTENDS Management, SequenceTheorems, TLAPS

-----------------------------------------------------------------------------
(* Tables as sequences, and pages.                                         *)

\* A row is inserted at place i of a table.
LEMMA InsertedRow ==
  ASSUME NEW S, NEW list \in Seq(S), NEW i \in 1..(Len(list) + 1), NEW x \in S,
         NEW new, new = InsertAt(list, i, x)
  PROVE  /\ new \in Seq(S) /\ Len(new) = Len(list) + 1
         /\ \A j \in 1..(i - 1) : new[j] = list[j]
         /\ new[i] = x
         /\ \A j \in i..Len(list) : new[j + 1] = list[j]
<1>. DEFINE a == SubSeq(list, 1, i - 1)
            b == SubSeq(list, i, Len(list))
            c == a \o <<x>>
<1>1. a \in Seq(S) /\ Len(a) = i - 1 /\ \A j \in 1..(i - 1) : a[j] = list[j]
  OBVIOUS
<1>2. /\ b \in Seq(S) /\ Len(b) = Len(list) - i + 1
      /\ \A j \in 1..(Len(list) - i + 1) : b[j] = list[i + j - 1]
  OBVIOUS
<1>3. new = c \o b /\ Len(list) \in Nat
  BY DEF InsertAt
<1>. HIDE DEF a, b
<1>4. c \in Seq(S) /\ Len(c) = i /\ c[i] = x /\ \A j \in 1..(i - 1) : c[j] = list[j]
  BY <1>1
<1>. HIDE DEF c
<1>5. b \in Seq(S) /\ c \in Seq(S) /\ Len(c) = i /\ Len(b) = Len(list) - i + 1
  BY <1>2, <1>4
<1>6. c \o b \in Seq(S) /\ Len(c \o b) = Len(c) + Len(b)
  BY <1>5, ConcatProperties
<1>7. new \in Seq(S) /\ Len(new) = Len(list) + 1
  BY <1>3, <1>5, <1>6
<1>8. \A j \in 1..i : new[j] = c[j]
  BY <1>2, <1>3, <1>4, <1>7
<1>9. \A j \in 1..(Len(list) - i + 1) : new[i + j] = b[j]
  BY <1>2, <1>3, <1>4, <1>7
<1>10. ASSUME NEW j \in i..Len(list)
      PROVE  new[j + 1] = list[j]
  <2>1. j - i + 1 \in 1..(Len(list) - i + 1) /\ i + (j - i + 1) = j + 1 /\ i + (j - i + 1) - 1 = j
    BY <1>3
  <2>2. new[i + (j - i + 1)] = b[j - i + 1]
    BY <1>9, <2>1
  <2>3. b[j - i + 1] = list[i + (j - i + 1) - 1]
    BY <1>2, <2>1
  <2>. QED
    BY <2>1, <2>2, <2>3
<1>. QED
  BY <1>4, <1>7, <1>8, <1>10

\* The row at place i of a table is removed.
LEMMA RemovedRow ==
  ASSUME NEW S, NEW list \in Seq(S), NEW i \in 1..Len(list),
         NEW new, new = RemoveAt(list, i)
  PROVE  /\ new \in Seq(S) /\ Len(new) = Len(list) - 1
         /\ \A j \in 1..Len(new) : new[j] = IF j < i THEN list[j] ELSE list[j + 1]
<1>. DEFINE a == SubSeq(list, 1, i - 1)
            b == SubSeq(list, i + 1, Len(list))
<1>1. a \in Seq(S) /\ Len(a) = i - 1 /\ \A j \in 1..(i - 1) : a[j] = list[j]
  OBVIOUS
<1>2. b \in Seq(S) /\ Len(b) = Len(list) - i /\ \A j \in 1..(Len(list) - i) : b[j] = list[i + j]
  OBVIOUS
<1>3. new = a \o b
  BY DEF RemoveAt
<1>. HIDE DEF a, b
<1>4. Len(list) \in Nat
  OBVIOUS
<1>5. new \in Seq(S) /\ Len(new) = Len(a) + Len(b)
  BY <1>1, <1>2, <1>3, ConcatProperties
<1>6. new \in Seq(S) /\ Len(new) = Len(list) - 1
  BY <1>4, <1>1, <1>2, <1>5
<1>7. \A j \in 1..Len(new) : new[j] = IF j <= Len(a) THEN a[j] ELSE b[j - Len(a)]
  BY <1>4, <1>1, <1>2, <1>3, <1>6, ConcatProperties
<1>8. ASSUME NEW j \in 1..Len(new)
      PROVE  new[j] = IF j < i THEN list[j] ELSE list[j + 1]
  <2>1. CASE j < i
    BY <1>1, <1>7, <2>1
  <2>2. CASE j >= i
    <3>1. j - (i - 1) \in 1..(Len(list) - i) /\ i + (j - (i - 1)) = j + 1 /\ ~(j <= i - 1)
      BY <1>4, <1>6, <2>2
    <3>2. new[j] = b[j - (i - 1)]
      BY <1>1, <1>7, <3>1
    <3>3. b[j - (i - 1)] = list[i + (j - (i - 1))]
      BY <1>2, <3>1
    <3>. QED
      BY <2>2, <3>1, <3>2, <3>3
  <2>. QED
    BY <2>1, <2>2
<1>. QED
  BY <1>6, <1>8

\* The rows of the table after an insertion: the new one, and the others no
\* further up than they were.
LEMMA InsertKeepsRest ==
  ASSUME NEW S, NEW list \in Seq(S), NEW i \in 1..(Len(list) + 1), NEW x \in S,
         NEW new, new = InsertAt(list, i, x)
  PROVE  /\ ToSet(new) = ToSet(list) \cup {x}
         /\ \A j \in DOMAIN list : \E k \in DOMAIN new : k >= j /\ new[k] = list[j]
<1>1. Len(list) \in Nat /\ DOMAIN list = 1..Len(list) /\ DOMAIN new = 1..(Len(list) + 1)
  BY InsertedRow
<1>2. /\ new[i] = x
      /\ \A j \in 1..(i - 1) : new[j] = list[j]
      /\ \A j \in i..Len(list) : new[j + 1] = list[j]
  BY InsertedRow
<1>3. ASSUME NEW j \in DOMAIN list
      PROVE  \E k \in {j, j + 1} : k \in DOMAIN new /\ new[k] = list[j]
  <2>1. CASE j < i
    BY <1>1, <1>2, <2>1
  <2>2. CASE ~(j < i)
    BY <1>1, <1>2, <2>2
  <2>. QED
    BY <2>1, <2>2
<1>4. ASSUME NEW j \in DOMAIN new, j # i
      PROVE  \E k \in DOMAIN list : new[j] = list[k]
  <2>1. CASE j < i
    BY <1>1, <1>2, <2>1
  <2>2. CASE ~(j < i)
    <3>1. j - 1 \in i..Len(list) /\ (j - 1) + 1 = j /\ j - 1 \in DOMAIN list
      BY <1>1, <1>4, <2>2
    <3>. QED
      BY <1>2, <3>1
  <2>. QED
    BY <2>1, <2>2
<1>5. ToSet(new) = ToSet(list) \cup {x}
  <2>1. ToSet(new) \subseteq ToSet(list) \cup {x}
    BY <1>2, <1>4 DEF ToSet
  <2>2. ToSet(list) \subseteq ToSet(new)
    BY <1>3 DEF ToSet
  <2>3. x \in ToSet(new)
    BY <1>1, <1>2 DEF ToSet
  <2>. QED
    BY <2>1, <2>2, <2>3
<1>6. ASSUME NEW j \in DOMAIN list
      PROVE  \E k \in DOMAIN new : k >= j /\ new[k] = list[j]
  BY <1>1, <1>3
<1>. QED
  BY <1>5, <1>6

\* A table without duplicates after an insertion of something new.
LEMMA InsertOnce ==
  ASSUME NEW S, NEW list \in Seq(S), NEW i \in 1..(Len(list) + 1), NEW x \in S,
         NEW new, new = InsertAt(list, i, x), x \notin ToSet(list),
         \A j, k \in DOMAIN list : list[j] = list[k] => j = k
  PROVE  \A j, k \in DOMAIN new : new[j] = new[k] => j = k
<1>1. Len(list) \in Nat /\ DOMAIN list = 1..Len(list) /\ DOMAIN new = 1..(Len(list) + 1)
  BY InsertedRow
<1>2. /\ new[i] = x
      /\ \A j \in 1..(i - 1) : new[j] = list[j]
      /\ \A j \in i..Len(list) : new[j + 1] = list[j]
  BY InsertedRow
<1>. DEFINE from(j) == IF j < i THEN j ELSE j - 1
<1>3. ASSUME NEW j \in DOMAIN new, j # i
      PROVE  from(j) \in DOMAIN list /\ new[j] = list[from(j)] /\ new[j] # x
  <2>1. from(j) \in DOMAIN list
    BY <1>1, <1>3
  <2>2. CASE j < i
    BY <1>1, <1>2, <2>1, <2>2 DEF ToSet
  <2>3. CASE ~(j < i)
    <3>1. j - 1 \in i..Len(list) /\ (j - 1) + 1 = j /\ from(j) = j - 1
      BY <1>1, <1>3, <2>3
    <3>2. new[j] = list[j - 1]
      BY <1>2, <3>1
    <3>. QED
      BY <2>1, <3>1, <3>2 DEF ToSet
  <2>. QED
    BY <2>2, <2>3
<1>4. ASSUME NEW j \in DOMAIN new, NEW k \in DOMAIN new, j # i, k # i, new[j] = new[k]
      PROVE  j = k
  <2>1. from(j) = from(k)
    <3>. HIDE DEF from
    <3>. QED
      BY <1>3, <1>4
  <2>. QED
    BY <1>1, <1>4, <2>1
<1>5. i \in DOMAIN new
  BY <1>1
<1>6. \A j \in DOMAIN new : j # i => new[j] # x
  BY <1>3
<1>. QED
  BY <1>2, <1>4, <1>5, <1>6

\* A table without duplicates after a row has been removed.
LEMMA RemoveOnce ==
  ASSUME NEW S, NEW list \in Seq(S), NEW i \in DOMAIN list,
         NEW new, new = RemoveAt(list, i),
         \A j, k \in DOMAIN list : list[j] = list[k] => j = k
  PROVE  /\ new \in Seq(S)
         /\ \A j, k \in DOMAIN new : new[j] = new[k] => j = k
         /\ ToSet(new) = ToSet(list) \ {list[i]}
<1>1. /\ Len(list) \in Nat /\ DOMAIN list = 1..Len(list) /\ i \in 1..Len(list)
      /\ DOMAIN new = 1..(Len(list) - 1)
  BY RemovedRow
<1>. DEFINE from(j) == IF j < i THEN j ELSE j + 1
<1>2. ASSUME NEW j \in DOMAIN new
      PROVE  from(j) \in DOMAIN list /\ from(j) # i /\ new[j] = list[from(j)]
  BY <1>1, RemovedRow
<1>3. ASSUME NEW j \in DOMAIN new, NEW k \in DOMAIN new, new[j] = new[k]
      PROVE  j = k
  <2>1. from(j) = from(k)
    <3>. HIDE DEF from
    <3>. QED
      BY <1>2, <1>3
  <2>. QED
    BY <1>1, <2>1
<1>4. ToSet(new) \subseteq ToSet(list) \ {list[i]}
  <2>. HIDE DEF from
  <2>. QED
    BY <1>1, <1>2 DEF ToSet
<1>5. ASSUME NEW k \in DOMAIN list, k # i
      PROVE  \E j \in DOMAIN new : new[j] = list[k]
  <2>1. CASE k < i
    BY <1>1, <1>2, <2>1
  <2>2. CASE k > i
    <3>1. k - 1 \in DOMAIN new /\ from(k - 1) = k
      BY <1>1, <2>2
    <3>. QED
      BY <1>2, <3>1
  <2>. QED
    BY <1>1, <1>5, <2>1, <2>2
<1>6. ToSet(list) \ {list[i]} \subseteq ToSet(new)
  BY <1>5 DEF ToSet
<1>7. new \in Seq(S)
  BY <1>1, RemovedRow
<1>. QED
  BY <1>3, <1>4, <1>6, <1>7

\* The arithmetic of LIMIT and OFFSET: of a listing of length len the query reads
\* the rows up to last, which are k.
LEMMA PageArithmetic ==
  ASSUME NEW len \in Nat, NEW offset \in Nat, NEW n \in Nat \ {0}, NEW last \in Nat, NEW k \in Nat,
         last = IF len < offset + n + 1 THEN len ELSE offset + n + 1,
         k = IF offset + 1 <= last THEN last - offset ELSE 0
  PROVE  /\ k > n => last = offset + n + 1
         /\ ~(k > n) => last = len
OBVIOUS

\* What a page shows, and the token of the next one: nothing of the listing from
\* its offset on is left out between them.
LEMMA PageCovers ==
  ASSUME NEW S, NEW list \in Seq(S), NEW offset \in Nat, NEW n \in Nat \ {0}, None \notin Nat,
         NEW p, p = Page(list, offset, n)
  PROVE  /\ p.next \in Nat \cup {None}
         /\ \A i \in DOMAIN list : i > offset =>
              list[i] \in ToSet(p.rows) \/ (p.next # None /\ i > p.next)
<1>. DEFINE m == IF Len(list) < offset + n + 1 THEN Len(list) ELSE offset + n + 1
            rows == SubSeq(list, offset + 1, m)
<1>1. Len(list) \in Nat /\ m \in Nat /\ m <= Len(list) /\ DOMAIN list = 1..Len(list)
  OBVIOUS
<1>2. /\ rows \in Seq(S)
      /\ Len(rows) = IF offset + 1 <= m THEN m - offset ELSE 0
      /\ \A i \in 1..(m - offset) : rows[i] = list[offset + i]
  <2>. HIDE DEF m
  <2>1. \A i \in (offset + 1)..m : list[i] \in S
    BY <1>1
  <2>2. /\ rows \in Seq(S)
        /\ Len(rows) = IF offset + 1 <= m THEN m - (offset + 1) + 1 ELSE 0
        /\ \A i \in 1..(m - (offset + 1) + 1) : rows[i] = list[(offset + 1) + i - 1]
    BY <1>1, <2>1, SubSeqProperties
  <2>3. m - (offset + 1) + 1 = m - offset
    BY <1>1
  <2>4. \A i \in 1..(m - offset) : (offset + 1) + i - 1 = offset + i
    BY <1>1
  <2>. HIDE DEF rows
  <2>. QED
    BY <1>1, <2>2, <2>3, <2>4
<1>3. p = IF Len(rows) > n THEN [rows |-> SubSeq(rows, 1, n), next |-> offset + n]
                           ELSE [rows |-> rows, next |-> None]
  BY DEF Page, ListRows
<1>. HIDE DEF rows
<1>4. /\ Len(rows) = IF offset + 1 <= m THEN m - offset ELSE 0
      /\ m = IF Len(list) < offset + n + 1 THEN Len(list) ELSE offset + n + 1
  BY <1>2
<1>. HIDE DEF m
<1>5. Len(list) \in Nat /\ m \in Nat /\ Len(rows) \in Nat
  BY <1>1, <1>2
<1>6. /\ Len(rows) > n => m = offset + n + 1
      /\ ~(Len(rows) > n) => m = Len(list)
  BY <1>4, <1>5, PageArithmetic
<1>7. CASE Len(rows) > n
  <2>1. m = offset + n + 1
    BY <1>7, <1>6
  <2>2. p.next = offset + n /\ p.rows = SubSeq(rows, 1, n)
    BY <1>3, <1>7
  <2>3. /\ p.rows \in Seq(S) /\ Len(p.rows) = n
        /\ \A i \in 1..n : p.rows[i] = rows[i]
    BY <1>2, <1>7, <2>2
  <2>4. ASSUME NEW i \in DOMAIN list, i > offset, ~(i > offset + n)
        PROVE  list[i] \in ToSet(p.rows)
    <3>1. i - offset \in 1..n /\ i - offset \in 1..(m - offset) /\ offset + (i - offset) = i
      BY <1>1, <2>1, <2>4
    <3>2. p.rows[i - offset] = list[i]
      BY <1>2, <2>3, <3>1
    <3>3. DOMAIN p.rows = 1..n
      BY <2>3
    <3>. QED
      BY <3>1, <3>2, <3>3 DEF ToSet
  <2>5. p.next \in Nat /\ p.next # None
    BY <2>2
  <2>. QED
    BY <2>2, <2>4, <2>5
<1>8. CASE ~(Len(rows) > n)
  <2>1. m = Len(list)
    BY <1>8, <1>6
  <2>2. p.next = None /\ p.rows = rows
    BY <1>3, <1>8
  <2>3. ASSUME NEW i \in DOMAIN list, i > offset
        PROVE  list[i] \in ToSet(rows)
    <3>0. i \in Nat /\ i <= m
      BY <1>1, <2>1
    <3>1. /\ i - offset \in 1..(m - offset) /\ offset + (i - offset) = i
          /\ offset + 1 <= m
      BY <1>5, <2>3, <3>0
    <3>4. Len(rows) = m - offset
      BY <1>4, <3>1
    <3>2. rows[i - offset] = list[i]
      BY <1>2, <3>1
    <3>3. DOMAIN rows = 1..(m - offset)
      BY <1>2, <3>4
    <3>. QED
      BY <3>1, <3>2, <3>3 DEF ToSet
  <2>. QED
    BY <2>2, <2>3
<1>. QED
  BY <1>7, <1>8

-----------------------------------------------------------------------------
(* Calls.                                                                  *)

\* The call in slot s with another stage, result and answer.
Moved(s, stage, did, answer) ==
  [op |-> call[s].op, arg |-> call[s].arg, stage |-> stage,
   did |-> did, answer |-> answer, page |-> call[s].page]

\* Only the slot s changes.
Puts(s, c) == call' = [call EXCEPT ![s] = c]

\* A slot is free, or holds a call with all its fields.
LEMMA CallFacts ==
  ASSUME ApiInv, NEW s \in Slots
  PROVE  /\ call[s] # NoCall <=> call[s].op # "none"
         /\ call[s].op # "none" => IsCall(call[s])
BY DEF ApiInv, TypeOK, IsCall, NoCall, Changes

\* What a put leaves in the slots.
LEMMA PutFacts ==
  ASSUME ApiInv, NEW s \in Slots, NEW c, Puts(s, c)
  PROVE  /\ call' = [t \in Slots |-> call'[t]]
         /\ call'[s] = c
         /\ \A t \in Slots \ {s} : call'[t] = call[t]
<1>1. call' = [t \in Slots |-> IF t = s THEN c ELSE call[t]]
  BY DEF ApiInv, TypeOK, Puts
<1>. QED
  BY <1>1

\* What Answer, Goto and Did put into the slot of a call.
LEMMA Moves ==
  ASSUME ApiInv, NEW s \in Slots, call[s].op # "none"
  PROVE  /\ \A x : Answer(s, x) => Puts(s, Moved(s, "answered", call[s].did, x))
         /\ \A x : Goto(s, x) => Puts(s, Moved(s, x, call[s].did, call[s].answer))
         /\ \A x : Did(s, x) => Puts(s, Moved(s, x, TRUE, call[s].answer))
<1>1. call = [t \in Slots |-> call[t]]
  BY DEF ApiInv, TypeOK
<1>2. call[s] = Moved(s, call[s].stage, call[s].did, call[s].answer)
  BY CallFacts DEF IsCall, Moved
<1>3. \A x : [call[s] EXCEPT !.stage = x] = Moved(s, x, call[s].did, call[s].answer)
  BY <1>2 DEF Moved
<1>4. ASSUME NEW x, Answer(s, x)
      PROVE  Puts(s, Moved(s, "answered", call[s].did, x))
  <2>1. [call[s] EXCEPT !.stage = "answered", !.answer = x]
          = [[call[s] EXCEPT !.stage = "answered"] EXCEPT !.answer = x]
    BY <1>2 DEF Moved
  <2>2. [Moved(s, "answered", call[s].did, call[s].answer) EXCEPT !.answer = x]
          = Moved(s, "answered", call[s].did, x)
    BY DEF Moved
  <2>. QED
    BY <1>1, <1>3, <1>4, <2>1, <2>2 DEF Answer, Puts
<1>5. ASSUME NEW x, Goto(s, x)
      PROVE  Puts(s, Moved(s, x, call[s].did, call[s].answer))
  BY <1>1, <1>3, <1>5 DEF Goto, Puts
<1>6. ASSUME NEW x, Did(s, x)
      PROVE  Puts(s, Moved(s, x, TRUE, call[s].answer))
  <2>1. [call[s] EXCEPT !.stage = x, !.did = TRUE]
          = [[call[s] EXCEPT !.stage = x] EXCEPT !.did = TRUE]
    BY <1>2 DEF Moved
  <2>2. \A y : [Moved(s, x, call[s].did, call[s].answer) EXCEPT !.did = y]
                 = Moved(s, x, y, call[s].answer)
    BY DEF Moved
  <2>. QED
    BY <1>1, <1>3, <1>6, <2>1, <2>2 DEF Did, Puts
<1>. QED
  BY <1>4, <1>5, <1>6

-----------------------------------------------------------------------------
(* What a step may do to the calls without touching a part of the invariant. *)

\* The slots hold calls.
LEMMA TypeFrame ==
  ASSUME ApiInv, NEW s \in Slots, NEW c, Puts(s, c), c = NoCall \/ IsCall(c)
  PROVE  /\ call' = [t \in Slots |-> call'[t]]
         /\ \A t \in Slots : call'[t] = NoCall \/ IsCall(call'[t])
<1>1. \A t \in Slots : call[t] = NoCall \/ IsCall(call[t])
  BY DEF ApiInv, TypeOK
<1>2. /\ call' = [t \in Slots |-> call'[t]]
      /\ call'[s] = c /\ \A t \in Slots \ {s} : call'[t] = call[t]
  BY PutFacts
<1>. QED
  BY <1>1, <1>2

\* A call that says what is so takes the place of another one.
LEMMA ChangeFrame ==
  ASSUME ApiInv, NEW s \in Slots, NEW c, Puts(s, c), UNCHANGED <<users, gone>>, IsTrue(c),
         \/ c.op # "create"
         \/ call[s].op = "create" /\ c.arg = call[s].arg
         \/ \A t \in Slots : call[t].op = "create" => call[t].arg # c.arg
  PROVE  UserRows' /\ ChangeCalls'
<1>1. call'[s] = c /\ \A t \in Slots \ {s} : call'[t] = call[t]
  BY PutFacts
<1>2. UserRows'
  BY DEF ApiInv, UserRows, ToSet
<1>3. ASSUME NEW t \in Slots
      PROVE  IsTrue(call[t])'
  <2>1. IsTrue(call'[t])
    BY <1>1 DEF ApiInv, ChangeCalls
  <2>. QED
    BY <2>1 DEF IsTrue, ToSet
<1>4. ASSUME NEW t \in Slots, NEW q \in Slots, call'[t].op = "create", call'[q].op = "create",
             call'[t].arg = call'[q].arg
      PROVE  t = q
  BY <1>1, <1>4 DEF ApiInv, ChangeCalls
<1>. QED
  BY <1>2, <1>3, <1>4 DEF ChangeCalls

\* A call in slot t that is about a rotation was about it before, and has lost its
\* answer or kept it.
SameRotation(t) ==
  call'[t].op = "rotate" =>
    /\ call[t].op = "rotate" /\ call'[t].arg = call[t].arg
    /\ awaits' = t => awaits = t
    /\ call'[t].stage # "answered" => call[t].stage # "answered"
    /\ call'[t].stage = "audit" => call[t].stage = "audit" /\ call'[t].answer = call[t].answer
    /\ call'[t].stage = "answered" =>
         \/ call'[t].answer = "error"
         \/ call[t].stage \in {"audit", "answered"} /\ call'[t].answer = call[t].answer

\* Nobody becomes sure, or gives up a rotation and stays so.
SameMind ==
  mind' = "sure" =>
    /\ mind = "sure"
    /\ \A t \in Slots : awaits = t /\ call[t].op = "rotate" => awaits' = t /\ call'[t].op = "rotate"

\* Rotations that go on as they were, or end, keep the operator's secret known.
LEMMA RotationFrame ==
  ASSUME ApiInv, UNCHANGED <<live, held, early>>, SameMind, \A t \in Slots : SameRotation(t)
  PROVE  RotationCalls'
<1>1. Rotating' \subseteq Rotating
  BY DEF Rotating, SameRotation
<1>2. ASSUME NEW t \in Slots, awaits' = t, call'[t].op = "rotate"
      PROVE  /\ awaits = t /\ call[t].op = "rotate" /\ call'[t].arg = "own"
             /\ ~early => /\ call'[t].stage = "audit" => call'[t].answer = live
                          /\ call'[t].stage = "answered" => call'[t].answer \in {live, "error"}
  BY <1>2 DEF SameRotation, ApiInv, RotationCalls
<1>3. ASSUME ~early, mind' = "sure", \A t \in Slots : awaits' = t => call'[t].op # "rotate"
      PROVE  Rotating' = {} /\ live = held
  BY <1>1, <1>3 DEF SameMind, ApiInv, RotationCalls
<1>4. ~early => \A t, q \in Rotating' : t = q
  BY <1>1 DEF ApiInv, RotationCalls
<1>. QED
  BY <1>2, <1>3, <1>4 DEF RotationCalls

\* A page that is waited for was waited for before, and comes from the same call.
SamePage(t) ==
  awaits' = t /\ call'[t].op \in {"users", "events"} =>
    /\ awaits = t /\ call'[t].op = call[t].op /\ call'[t].arg = call[t].arg
    /\ PageArrived(t)' => PageArrived(t) /\ call'[t].page = call[t].page

\* A walk whose pages come from the same calls stays complete while no entry of
\* its listing moves up, or a deletion excuses it.
LEMMA WalkFrame ==
  ASSUME ApiInv, walk' = walk, gone \subseteq gone', \A t \in Slots : SamePage(t),
         \/ walk = NoWalk
         \/ walk.kind = "users" /\ gone' # walk.gone
         \/ /\ walk.kind = "users" => gone' = gone
            /\ \A n \in Nat \cup {None} : Rest(n) \subseteq Rest(n)'
  PROVE  PageCalls' /\ WalkRest'
<1>1. PageCalls'
  BY DEF ApiInv, PageCalls, SamePage, PageArrived
<1>2. CASE walk = NoWalk
  BY <1>1, <1>2 DEF WalkRest
<1>3. CASE walk # NoWalk /\ walk.kind = "users" /\ gone' # walk.gone
  BY <1>1, <1>3 DEF ApiInv, WalkRest
<1>4. CASE /\ walk # NoWalk
           /\ walk.kind = "users" => gone' = gone
           /\ \A n \in Nat \cup {None} : Rest(n) \subseteq Rest(n)'
  <2>1. CASE walk.kind = "users" /\ walk.gone # gone
    BY <1>3, <1>4, <2>1
  <2>2. CASE ~(walk.kind = "users" /\ walk.gone # gone)
    <3>1. walk.must \subseteq walk.seen \cup Rest(walk.offset)'
      BY <1>4, <2>2 DEF ApiInv, WalkRest
    <3>2. ASSUME NEW t \in Slots, PageArrived(t)'
          PROVE  walk.must \subseteq walk.seen \cup ToSet(call'[t].page.rows)
                                               \cup Rest(call[t].page.next)'
      <4>1. PageArrived(t) /\ call'[t].page = call[t].page
        BY <3>2 DEF SamePage, PageArrived
      <4>2. call[t].page.next \in Nat \cup {None}
        BY <4>1 DEF ApiInv, PageCalls, PageArrived
      <4>3. walk.must \subseteq walk.seen \cup ToSet(call[t].page.rows)
                                          \cup Rest(call[t].page.next)
        BY <1>4, <2>2, <4>1 DEF ApiInv, WalkRest
      <4>4. Rest(call[t].page.next) \subseteq Rest(call[t].page.next)'
        BY <1>4, <4>1, <4>2
      <4>. QED
        BY <4>1, <4>3, <4>4
    <3>. QED
      BY <1>1, <1>4, <3>1, <3>2 DEF ApiInv, WalkRest
  <2>. QED
    BY <2>1, <2>2
<1>. QED
  BY <1>2, <1>3, <1>4

\* What comes after a place of a listing that does not change.
LEMMA SameRest ==
  ASSUME ApiInv, UNCHANGED <<walk, users, events>>
  PROVE  \A n : Rest(n)' = Rest(n)
BY DEF Rest

\* A step that changes one call and no table, walk or written secret.
LEMMA QuietStep ==
  ASSUME WellFormed, ApiInv, NEW s \in Slots, NEW c, Puts(s, c), c = NoCall \/ IsCall(c), IsTrue(c),
         \/ c.op # "create"
         \/ call[s].op = "create" /\ c.arg = call[s].arg
         \/ \A t \in Slots : call[t].op = "create" => call[t].arg # c.arg,
         UNCHANGED <<tables, held, walk, early>>, token' \in BOOLEAN,
         mind' \in {"sure", "unsure", "locked"},
         awaits' \in {awaits, None} \/ (awaits = None /\ awaits' = s),
         SameMind, SameRotation(s), SamePage(s)
  PROVE  ApiInv'
<1>1. UNCHANGED <<users, gone, events, live>>
  BY DEF tables
<1>2. \A t \in Slots \ {s} : call'[t] = call[t] /\ (awaits' = t => awaits = t)
  BY PutFacts DEF WellFormed
<1>3. TypeOK'
  <2>1. awaits' \in Slots \cup {None}
    BY DEF ApiInv, TypeOK
  <2>. QED
    BY <1>1, <2>1, TypeFrame DEF ApiInv, TypeOK
<1>4. UserRows' /\ ChangeCalls'
  BY <1>1, ChangeFrame
<1>5. RotationCalls'
  <2>1. \A t \in Slots : SameRotation(t)
    BY <1>2 DEF SameRotation
  <2>. QED
    BY <1>1, <2>1, RotationFrame
<1>6. PageCalls' /\ WalkRest'
  <2>1. \A t \in Slots : SamePage(t)
    BY <1>2 DEF SamePage, PageArrived
  <2>2. \A n \in Nat \cup {None} : Rest(n) \subseteq Rest(n)'
    BY <1>1, SameRest
  <2>. QED
    BY <1>1, <2>1, <2>2, WalkFrame
<1>. QED
  BY <1>3, <1>4, <1>5, <1>6 DEF ApiInv

-----------------------------------------------------------------------------
(* Handlers.                                                               *)

\* A handler goes on with its call, with no change of a table but the one its
\* answer says.
LEMMA HandlerStep ==
  ASSUME WellFormed, ApiInv, NEW s \in Slots, call[s].op # "none", call[s].stage # "answered",
         NEW stage \in {"reread", "audit", "answered"}, NEW did \in BOOLEAN, NEW answer \in Answers,
         Puts(s, Moved(s, stage, did, answer)), UNCHANGED <<tables, operator>>,
         call[s].op \notin Changes => stage = "answered",
         call[s].op \in {"users", "events"} => answer \in {"error", "refused"},
         call[s].op = "rotate" =>
           answer = "error" \/ (call[s].stage = "audit" /\ answer = call[s].answer),
         call[s].op \in Changes => IsTrue(Moved(s, stage, did, answer))
  PROVE  ApiInv'
<1>. DEFINE c == Moved(s, stage, did, answer)
<1>1. c = [op |-> call[s].op, arg |-> call[s].arg, stage |-> stage,
           did |-> did, answer |-> answer, page |-> call[s].page]
  BY DEF Moved
<1>2. /\ c.op = call[s].op /\ c.arg = call[s].arg /\ c.stage = stage /\ c.did = did
      /\ c.answer = answer /\ c.page = call[s].page
  BY <1>1
<1>3. Puts(s, c) /\ IsTrue(c)
  BY <1>2 DEF IsTrue
<1>. HIDE DEF c
<1>4. call'[s] = c /\ \A t \in Slots \ {s} : call'[t] = call[t]
  BY <1>3, PutFacts
<1>5. IsCall(c)
  <2>1. IsCall(call[s])
    BY CallFacts
  <2>2. c.op \notin Changes => c.stage = "answered"
    BY <1>2
  <2>3. c.op = "rotate" => c.answer \in Secrets \cup {"error"}
    BY <1>2, <2>1 DEF IsCall
  <2>4. c = [op |-> c.op, arg |-> c.arg, stage |-> c.stage,
             did |-> c.did, answer |-> c.answer, page |-> c.page]
    BY <1>1, <1>2
  <2>. QED
    BY <1>2, <2>1, <2>2, <2>3, <2>4 DEF IsCall, Changes
<1>6. SameRotation(s) /\ SamePage(s)
  BY <1>2, <1>4 DEF SameRotation, SamePage, PageArrived, operator, Changes
<1>7. SameMind
  BY <1>2, <1>4 DEF SameMind, operator
<1>8. UNCHANGED <<tables, held, walk, early>> /\ token' = token /\ mind' = mind /\ awaits' = awaits
  BY DEF operator
<1>9. token \in BOOLEAN /\ mind \in {"sure", "unsure", "locked"}
  BY DEF ApiInv, TypeOK
<1>. QED
  BY <1>2, <1>3, <1>5, <1>6, <1>7, <1>8, <1>9, QuietStep

\* What a call is before and after it has gone on.
LEMMA OpenCall ==
  ASSUME ApiInv, NEW s \in Slots, call[s].op # "none"
  PROVE  call[s].did \in BOOLEAN /\ call[s].answer \in Answers /\ IsTrue(call[s])
BY CallFacts DEF IsCall, ApiInv, ChangeCalls

\* A call that is cut short says "error", whatever it did.
LEMMA CutShortInv ==
  ASSUME WellFormed, ApiInv, NEW s \in Slots, CutShort(s)
  PROVE  ApiInv'
<1>1. call[s].op # "none" /\ call[s].stage # "answered" /\ UNCHANGED <<tables, operator>>
  BY DEF CutShort
<1>2. Puts(s, Moved(s, "answered", call[s].did, "error"))
  BY <1>1, Moves DEF CutShort
<1>3. IsTrue(Moved(s, "answered", call[s].did, "error"))
  BY <1>1, OpenCall DEF IsTrue, Moved
<1>. QED
  BY <1>1, <1>2, <1>3, OpenCall, HandlerStep DEF Answers

\* SetPassword finds the user, or it has been deleted.
LEMMA ResetUserPasswordInv ==
  ASSUME WellFormed, ApiInv, NEW s \in Slots, ResetUserPassword(s)
  PROVE  ApiInv'
<1>1. /\ call[s].op = "reset" /\ call[s].stage = "sent" /\ UNCHANGED <<tables, operator>>
      /\ call[s].op # "none" /\ call[s].op \in Changes
  BY DEF ResetUserPassword, At, Changes
<1>2. call[s].arg \in ToSet(users) \cup gone
  BY <1>1, OpenCall DEF IsTrue
<1>3. CASE Did(s, "reread")
  <2>1. Puts(s, Moved(s, "reread", TRUE, call[s].answer))
    BY <1>1, <1>3, Moves
  <2>2. IsTrue(Moved(s, "reread", TRUE, call[s].answer))
    BY <1>1, <1>2 DEF IsTrue, Moved
  <2>. QED
    BY <1>1, <2>1, <2>2, OpenCall, HandlerStep
<1>4. CASE Answer(s, "not_found") /\ call[s].arg \notin ToSet(users)
  <2>1. Puts(s, Moved(s, "answered", call[s].did, "not_found"))
    BY <1>1, <1>4, Moves
  <2>2. IsTrue(Moved(s, "answered", call[s].did, "not_found"))
    BY <1>1, <1>2, <1>4 DEF IsTrue, Moved
  <2>. QED
    BY <1>1, <2>1, <2>2, OpenCall, HandlerStep DEF Answers
<1>. QED
  BY <1>3, <1>4 DEF ResetUserPassword

\* The user is there, or has been deleted since its password was set.
LEMMA RereadUserInv ==
  ASSUME WellFormed, ApiInv, NEW s \in Slots, RereadUser(s)
  PROVE  ApiInv'
<1>1. /\ call[s].op = "reset" /\ call[s].stage = "reread" /\ UNCHANGED <<tables, operator>>
      /\ call[s].op # "none" /\ call[s].op \in Changes
  BY DEF RereadUser, At, Changes
<1>2. call[s].arg \in ToSet(users) \cup gone /\ call[s].did
  BY <1>1, OpenCall DEF IsTrue
<1>3. CASE Goto(s, "audit")
  <2>1. Puts(s, Moved(s, "audit", call[s].did, call[s].answer))
    BY <1>1, <1>3, Moves
  <2>2. IsTrue(Moved(s, "audit", call[s].did, call[s].answer))
    BY <1>1, <1>2 DEF IsTrue, Moved
  <2>. QED
    BY <1>1, <2>1, <2>2, OpenCall, HandlerStep
<1>4. CASE Answer(s, "error")
  <2>1. Puts(s, Moved(s, "answered", call[s].did, "error"))
    BY <1>1, <1>4, Moves
  <2>2. IsTrue(Moved(s, "answered", call[s].did, "error"))
    BY <1>1, <1>2 DEF IsTrue, Moved
  <2>. QED
    BY <1>1, <2>1, <2>2, OpenCall, HandlerStep DEF Answers
<1>. QED
  BY <1>3, <1>4 DEF RereadUser

\* A secret is accepted or refused.
LEMMA ExchangeInv ==
  ASSUME WellFormed, ApiInv, NEW s \in Slots, ExchangeServiceToken(s)
  PROVE  ApiInv'
<1>1. /\ call[s].op = "exchange" /\ call[s].stage = "sent" /\ UNCHANGED <<tables, operator>>
      /\ call[s].op # "none" /\ call[s].op \notin Changes
  BY DEF ExchangeServiceToken, At, Changes
<1>2. PICK x \in {"token", "refused"} : Answer(s, x)
  BY DEF ExchangeServiceToken
<1>3. Puts(s, Moved(s, "answered", call[s].did, x))
  BY <1>1, <1>2, Moves
<1>. QED
  BY <1>1, <1>3, OpenCall, HandlerStep DEF Answers

\* An answer that nobody waits for, or that has been read, makes room.
LEMMA SlotFreed ==
  ASSUME WellFormed, ApiInv, NEW s \in Slots, Puts(s, NoCall),
         UNCHANGED <<tables, held, walk, early>>, token' \in BOOLEAN,
         mind' \in {"sure", "unsure", "locked"},
         \/ awaits # s /\ awaits' = awaits
         \/ awaits = s /\ awaits' = None,
         mind' = "sure" => mind = "sure" /\ (awaits = s => call[s].op # "rotate")
  PROVE  ApiInv'
<1>1. call'[s] = NoCall /\ \A t \in Slots \ {s} : call'[t] = call[t]
  BY PutFacts
<1>2. SameRotation(s) /\ SamePage(s)
  BY <1>1 DEF SameRotation, SamePage, NoCall
<1>3. SameMind
  BY <1>1 DEF SameMind
<1>4. IsTrue(NoCall) /\ NoCall.op # "create"
  BY DEF IsTrue, NoCall, Changes
<1>. QED
  BY <1>2, <1>3, <1>4, QuietStep

\* An answer that nobody waits for is lost.
LEMMA DropAnswerInv ==
  ASSUME WellFormed, ApiInv, NEW s \in Slots, DropAnswer(s)
  PROVE  ApiInv'
BY SlotFreed DEF DropAnswer, Puts, operator, ApiInv, TypeOK

\* The answer of an exchange is read.
LEMMA PrintTokenInv ==
  ASSUME WellFormed, ApiInv, NEW s \in Slots, PrintToken(s)
  PROVE  ApiInv'
<1>1. mind \in {"sure", "unsure", "locked"}
  BY DEF ApiInv, TypeOK
<1>. QED
  BY <1>1, SlotFreed DEF PrintToken, Puts

-----------------------------------------------------------------------------
(* Clients begin.                                                          *)

\* The call that is sent.
Sent(o, x) == [op |-> o, arg |-> x, stage |-> "sent", did |-> FALSE, answer |-> None, page |-> None]

\* It has the fields of a call.
LEMMA SentCall ==
  ASSUME NEW o \in Changes \cup {"users", "events", "exchange", "rotate"}, NEW x,
         o \in Changes => x \in UserIDs, o = "exchange" => x \in Secrets, o = "rotate" => x = "own"
  PROVE  /\ IsCall(Sent(o, x))
         /\ Sent(o, x).op = o /\ Sent(o, x).arg = x /\ Sent(o, x).stage = "sent"
<1>1. /\ Sent(o, x).op = o /\ Sent(o, x).arg = x /\ Sent(o, x).stage = "sent"
      /\ Sent(o, x).did = FALSE /\ Sent(o, x).answer = None /\ Sent(o, x).page = None
  BY DEF Sent
<1>2. IsCall(Sent(o, x))
  BY <1>1 DEF IsCall, Sent, Answers
<1>. QED
  BY <1>1, <1>2

\* A change is asked for: of a user there is, or was, or is to be.
LEMMA BeginChangeInv ==
  ASSUME WellFormed, ApiInv, NEW s \in Slots, NEW o \in Changes, NEW u \in UserIDs,
         BeginChange(s, o, u)
  PROVE  ApiInv'
<1>1. Puts(s, Sent(o, u)) /\ call[s] = NoCall /\ UNCHANGED <<tables, operator>>
  BY DEF BeginChange, Send, Puts, Sent
<1>2. /\ IsCall(Sent(o, u)) /\ Sent(o, u).op = o /\ Sent(o, u).arg = u
      /\ Sent(o, u).stage = "sent"
  BY SentCall DEF Changes
<1>3. IsTrue(Sent(o, u))
  BY <1>2 DEF IsTrue, BeginChange
<1>4. \A t \in Slots : call[t].op = "create" => call[t].arg # u
  BY DEF BeginChange
<1>5. call'[s] = Sent(o, u) /\ \A t \in Slots \ {s} : call'[t] = call[t]
  BY <1>1, PutFacts
<1>6. SameRotation(s) /\ SamePage(s)
  BY <1>2, <1>5 DEF SameRotation, SamePage, Changes
<1>7. SameMind
  BY <1>1, <1>5 DEF SameMind, operator, NoCall
<1>8. /\ UNCHANGED <<tables, held, walk, early>> /\ token' \in BOOLEAN /\ awaits' = awaits
      /\ mind' \in {"sure", "unsure", "locked"}
  BY <1>1 DEF operator, ApiInv, TypeOK
<1>. QED
  BY <1>1, <1>2, <1>3, <1>4, <1>6, <1>7, <1>8, QuietStep

\* The secret that is written down is sent.
LEMMA BeginExchangeInv ==
  ASSUME WellFormed, ApiInv, NEW s \in Slots, BeginExchange(s)
  PROVE  ApiInv'
<1>1. /\ Puts(s, Sent("exchange", held)) /\ awaits = None /\ awaits' = s
      /\ UNCHANGED <<tables, held, token, mind, walk, early>>
  BY DEF BeginExchange, Send, Puts, Sent
<1>2. /\ held \in Secrets /\ token \in BOOLEAN /\ mind \in {"sure", "unsure", "locked"}
  BY DEF ApiInv, TypeOK
<1>3. IsCall(Sent("exchange", held)) /\ Sent("exchange", held).op = "exchange"
  BY <1>2, SentCall DEF Changes
<1>4. IsTrue(Sent("exchange", held))
  BY <1>3 DEF IsTrue, Changes
<1>5. call'[s] = Sent("exchange", held) /\ \A t \in Slots \ {s} : call'[t] = call[t]
  BY <1>1, PutFacts
<1>6. SameRotation(s) /\ SamePage(s)
  BY <1>3, <1>5 DEF SameRotation, SamePage
<1>7. SameMind
  BY <1>1 DEF SameMind, WellFormed
<1>. QED
  BY <1>1, <1>2, <1>3, <1>4, <1>6, <1>7, QuietStep

\* The next page of the walk is asked for: what it has to show is still to come.
LEMMA AskPageInv ==
  ASSUME WellFormed, ApiInv, NEW s \in Slots, AskPage(s)
  PROVE  ApiInv'
<1>. DEFINE o == walk.kind
            x == [offset |-> walk.offset, size |-> walk.size]
<1>1. /\ Puts(s, Sent(o, x)) /\ awaits = None /\ awaits' = s /\ walk # NoWalk /\ walk.offset # None
      /\ UNCHANGED <<users, gone, events, live, held, token, mind, walk, early>>
  BY DEF AskPage, Send, Puts, Sent, tables
<1>2. o \in {"users", "events"} /\ walk.offset \in Nat /\ x.offset = walk.offset
  BY <1>1 DEF ApiInv, WalkRest
<1>3. /\ IsCall(Sent(o, x)) /\ Sent(o, x).op = o /\ Sent(o, x).arg = x
      /\ Sent(o, x).stage = "sent"
  BY <1>2, SentCall DEF Changes
<1>4. IsTrue(Sent(o, x)) /\ Sent(o, x).op # "create"
  BY <1>2, <1>3 DEF IsTrue, Changes
<1>5. call'[s] = Sent(o, x) /\ \A t \in Slots \ {s} : call'[t] = call[t]
  BY <1>1, PutFacts
<1>6. TypeOK'
  BY <1>1, <1>3, TypeFrame DEF ApiInv, TypeOK
<1>7. UserRows' /\ ChangeCalls'
  BY <1>1, <1>4, ChangeFrame
<1>8. RotationCalls'
  <2>1. \A t \in Slots : SameRotation(t)
    BY <1>1, <1>2, <1>3, <1>5 DEF SameRotation
  <2>2. SameMind
    BY <1>1 DEF SameMind, WellFormed
  <2>. QED
    BY <1>1, <2>1, <2>2, RotationFrame
<1>9. PageCalls' /\ WalkRest'
  <2>1. \A t \in Slots : ~PageArrived(t)'
    BY <1>1, <1>3, <1>5 DEF PageArrived
  <2>2. PageCalls'
    BY <1>1, <1>2, <1>3, <1>5, <2>1 DEF PageCalls
  <2>3. \A n : Rest(n)' = Rest(n)
    BY <1>1, SameRest
  <2>4. Rest(walk.offset)' = Rest(walk.offset)
    BY <1>1, <2>3
  <2>5. WalkRest'
    BY <1>1, <2>1, <2>4 DEF ApiInv, WalkRest
  <2>. QED
    BY <2>2, <2>5
<1>. QED
  BY <1>6, <1>7, <1>8, <1>9 DEF ApiInv

\* A rotation is begun: early, or alone.
LEMMA BeginRotateInv ==
  ASSUME WellFormed, ApiInv, NEW s \in Slots, BeginRotate(s)
  PROVE  ApiInv'
<1>1. /\ Puts(s, Sent("rotate", "own")) /\ awaits = None /\ awaits' = s
      /\ early' = (Rotating # {})
      /\ UNCHANGED <<users, gone, events, live, held, token, mind, walk>>
  BY DEF BeginRotate, Send, Puts, Sent, tables
<1>2. /\ IsCall(Sent("rotate", "own")) /\ Sent("rotate", "own").op = "rotate"
      /\ Sent("rotate", "own").arg = "own" /\ Sent("rotate", "own").stage = "sent"
  BY SentCall DEF Changes
<1>3. IsTrue(Sent("rotate", "own"))
  BY <1>2 DEF IsTrue, Changes
<1>4. call'[s] = Sent("rotate", "own") /\ \A t \in Slots \ {s} : call'[t] = call[t]
  BY <1>1, PutFacts
<1>5. TypeOK'
  <2>1. early' \in BOOLEAN
    BY <1>1
  <2>. QED
    BY <1>1, <1>2, <2>1, TypeFrame DEF ApiInv, TypeOK
<1>6. UserRows' /\ ChangeCalls'
  BY <1>1, <1>2, <1>3, ChangeFrame
<1>7. RotationCalls'
  <2>1. Rotating' \subseteq Rotating \cup {s}
    BY <1>1, <1>4 DEF Rotating, WellFormed
  <2>. QED
    BY <1>1, <1>2, <1>4, <2>1 DEF RotationCalls
<1>8. PageCalls' /\ WalkRest'
  <2>1. \A t \in Slots : SamePage(t)
    BY <1>1, <1>2, <1>4 DEF SamePage
  <2>2. \A n \in Nat \cup {None} : Rest(n) \subseteq Rest(n)'
    BY <1>1, SameRest
  <2>. QED
    BY <1>1, <2>1, <2>2, WalkFrame
<1>. QED
  BY <1>5, <1>6, <1>7, <1>8 DEF ApiInv

-----------------------------------------------------------------------------
(* Changes of the tables.                                                  *)

\* Entries that are no further up than they were are still to come.
LEMMA RestGrows ==
  ASSUME WellFormed, ApiInv, walk' = walk, users' \in Seq(UserIDs), events' \in Seq(Nat),
         \A j \in DOMAIN users : \E k \in DOMAIN users' : k >= j /\ users'[k] = users[j],
         \A j \in DOMAIN events : \E k \in DOMAIN events' : k >= j /\ events'[k] = events[j]
  PROVE  \A n \in Nat \cup {None} : Rest(n) \subseteq Rest(n)'
<1>. DEFINE list == IF walk.kind = "users" THEN users ELSE events
            new == IF walk.kind = "users" THEN users' ELSE events'
<1>1. \A j \in DOMAIN list : \E k \in DOMAIN new : k >= j /\ new[k] = list[j]
  OBVIOUS
<1>2. DOMAIN list \subseteq Nat /\ DOMAIN new \subseteq Nat
  BY DEF ApiInv, TypeOK
<1>3. ASSUME NEW n \in Nat
      PROVE  /\ Rest(n) = {list[i] : i \in {j \in DOMAIN list : j > n}}
             /\ Rest(n)' = {new[i] : i \in {j \in DOMAIN new : j > n}}
  <2>1. n # None
    BY DEF WellFormed
  <2>2. CASE walk.kind = "users"
    BY <2>1, <2>2 DEF Rest
  <2>3. CASE walk.kind # "users"
    BY <2>1, <2>3 DEF Rest
  <2>. QED
    BY <2>2, <2>3
<1>4. Rest(None) = {}
  BY DEF Rest
<1>. HIDE DEF list, new
<1>5. ASSUME NEW n \in Nat, NEW j \in DOMAIN list, j > n
      PROVE  \E k \in DOMAIN new : k > n /\ new[k] = list[j]
  BY <1>1, <1>2, <1>5
<1>6. ASSUME NEW n \in Nat
      PROVE  Rest(n) \subseteq Rest(n)'
  BY <1>3, <1>5
<1>. QED
  BY <1>4, <1>6

\* A call to change a user goes on: nothing for the rotations and the pages.
LEMMA ChangeMoves ==
  ASSUME ApiInv, NEW s \in Slots, call[s].op \in Changes, NEW c, Puts(s, c), c.op = call[s].op,
         UNCHANGED <<live, operator>>
  PROVE  /\ RotationCalls'
         /\ \A t \in Slots : SamePage(t)
<1>1. call'[s] = c /\ \A t \in Slots \ {s} : call'[t] = call[t]
  BY PutFacts
<1>2. \A t \in Slots : SameRotation(t) /\ SamePage(t)
  BY <1>1 DEF SameRotation, SamePage, PageArrived, operator, Changes
<1>3. SameMind
  BY <1>1 DEF SameMind, operator, Changes
<1>. QED
  BY <1>2, <1>3, RotationFrame DEF operator

\* A user is created: the others move down, if they move.
LEMMA CreateInv ==
  ASSUME WellFormed, ApiInv, NEW s \in Slots, CreatePasswordUser(s)
  PROVE  ApiInv'
<1>. DEFINE c == Moved(s, "audit", TRUE, call[s].answer)
            u == call[s].arg
<1>1. /\ call[s].op = "create" /\ call[s].stage = "sent" /\ call[s].op # "none"
      /\ call[s].op \in Changes
      /\ UNCHANGED <<gone, events, live, operator>>
  BY DEF CreatePasswordUser, At, Changes
<1>2. PICK i \in 1..(Len(users) + 1) : users' = InsertAt(users, i, u)
  BY DEF CreatePasswordUser
<1>3. Puts(s, c)
  BY <1>1, Moves DEF CreatePasswordUser
<1>4. /\ c.op = "create" /\ c.arg = u /\ c.stage = "audit" /\ c.did = TRUE
      /\ c.answer = call[s].answer
      /\ c = [op |-> c.op, arg |-> c.arg, stage |-> c.stage,
              did |-> c.did, answer |-> c.answer, page |-> c.page]
  BY <1>1 DEF Moved
<1>5. /\ users \in Seq(UserIDs) /\ u \in UserIDs /\ u \notin ToSet(users) \cup gone
      /\ call[s].answer \in Answers
  BY <1>1, CallFacts, OpenCall DEF ApiInv, TypeOK, IsCall, IsTrue
<1>6. call'[s] = c /\ \A t \in Slots \ {s} : call'[t] = call[t]
  BY <1>3, PutFacts
<1>. HIDE DEF c
<1>7. IsCall(c)
  BY <1>4, <1>5 DEF IsCall, Changes
<1>8. /\ users' \in Seq(UserIDs)
      /\ ToSet(users') = ToSet(users) \cup {u}
      /\ \A j \in DOMAIN users : \E k \in DOMAIN users' : k >= j /\ users'[k] = users[j]
  <2>1. users' \in Seq(UserIDs)
    BY <1>2, <1>5, InsertedRow
  <2>. QED
    BY <1>2, <1>5, <2>1, InsertKeepsRest
<1>9. TypeOK'
  BY <1>1, <1>3, <1>7, <1>8, TypeFrame DEF ApiInv, TypeOK, operator
<1>10. UserRows'
  <2>1. \A i_1, j \in DOMAIN users : users[i_1] = users[j] => i_1 = j
    BY DEF ApiInv, UserRows
  <2>2. \A i_1, j \in DOMAIN users' : users'[i_1] = users'[j] => i_1 = j
    BY <1>2, <1>5, <2>1, InsertOnce
  <2>3. ToSet(users') \cap gone' = {}
    BY <1>1, <1>5, <1>8 DEF ApiInv, UserRows
  <2>4. ToSet(users)' = ToSet(users')
    BY DEF ToSet
  <2>. QED
    BY <2>2, <2>3, <2>4 DEF UserRows
<1>11. ChangeCalls'
  <2>0. ToSet(users)' = ToSet(users) \cup {u}
    BY <1>8 DEF ToSet
  <2>1. IsTrue(call[s])'
    BY <1>4, <1>6 DEF IsTrue
  <2>2. ASSUME NEW t \in Slots \ {s}
        PROVE  IsTrue(call[t])'
    <3>1. IsTrue(call[t]) /\ (call[t].op = "create" => call[t].arg # u)
      BY <1>1 DEF ApiInv, ChangeCalls
    <3>. QED
      BY <1>1, <1>6, <2>0, <3>1 DEF IsTrue
  <2>3. ASSUME NEW t \in Slots, NEW q \in Slots, call'[t].op = "create", call'[q].op = "create",
               call'[t].arg = call'[q].arg
        PROVE  t = q
    BY <1>1, <1>4, <1>6, <2>3 DEF ApiInv, ChangeCalls
  <2>. QED
    BY <2>1, <2>2, <2>3 DEF ChangeCalls
<1>12. RotationCalls' /\ \A t \in Slots : SamePage(t)
  BY <1>1, <1>3, <1>4, ChangeMoves
<1>13. \A n \in Nat \cup {None} : Rest(n) \subseteq Rest(n)'
  <2>1. events \in Seq(Nat) /\ events' = events /\ walk' = walk
    BY <1>1 DEF ApiInv, TypeOK, operator
  <2>2. \A j \in DOMAIN events : \E k \in DOMAIN events' : k >= j /\ events'[k] = events[j]
    BY <2>1
  <2>. QED
    BY <1>8, <2>1, <2>2, RestGrows
<1>14. PageCalls' /\ WalkRest'
  BY <1>1, <1>12, <1>13, WalkFrame DEF operator
<1>. QED
  BY <1>9, <1>10, <1>11, <1>12, <1>14 DEF ApiInv

\* A user is deleted: a walk through the users is no longer told to be complete.
LEMMA DeleteInv ==
  ASSUME WellFormed, ApiInv, NEW s \in Slots, DeleteUser(s)
  PROVE  ApiInv'
<1>. DEFINE u == call[s].arg
<1>1. /\ call[s].op = "delete" /\ call[s].stage = "sent" /\ call[s].op # "none"
      /\ call[s].op \in Changes
      /\ UNCHANGED <<events, live, operator>>
  BY DEF DeleteUser, At, Changes
<1>2. /\ u \in ToSet(users) \cup gone /\ users \in Seq(UserIDs) /\ u \in UserIDs
      /\ call[s].answer \in Answers
  BY <1>1, CallFacts, OpenCall DEF ApiInv, TypeOK, IsCall, IsTrue
<1>3. CASE u \notin ToSet(users) /\ Answer(s, "not_found") /\ UNCHANGED <<users, gone>>
  <2>1. Puts(s, Moved(s, "answered", call[s].did, "not_found"))
    BY <1>1, <1>3, Moves
  <2>2. IsTrue(Moved(s, "answered", call[s].did, "not_found"))
    BY <1>1, <1>2, <1>3 DEF IsTrue, Moved
  <2>3. UNCHANGED <<tables, operator>>
    BY <1>1, <1>3 DEF tables
  <2>. QED
    BY <1>1, <2>1, <2>2, <2>3, OpenCall, HandlerStep DEF Answers
<1>4. ASSUME NEW i \in DOMAIN users, users[i] = u, users' = RemoveAt(users, i),
             gone' = gone \cup {u}, Did(s, "audit")
      PROVE  ApiInv'
  <2>. DEFINE c == Moved(s, "audit", TRUE, call[s].answer)
  <2>1. Puts(s, c)
    BY <1>1, <1>4, Moves
  <2>2. /\ c.op = "delete" /\ c.arg = u /\ c.stage = "audit" /\ c.did = TRUE
        /\ c.answer = call[s].answer
        /\ c = [op |-> c.op, arg |-> c.arg, stage |-> c.stage,
                did |-> c.did, answer |-> c.answer, page |-> c.page]
    BY <1>1 DEF Moved
  <2>3. call'[s] = c /\ \A t \in Slots \ {s} : call'[t] = call[t]
    BY <2>1, PutFacts
  <2>. HIDE DEF c
  <2>4. IsCall(c)
    BY <1>2, <2>2 DEF IsCall, Changes
  <2>5. \A j, k \in DOMAIN users : users[j] = users[k] => j = k
    BY DEF ApiInv, UserRows
  <2>6. /\ users' \in Seq(UserIDs)
        /\ \A j, k \in DOMAIN users' : users'[j] = users'[k] => j = k
        /\ ToSet(users') = ToSet(users) \ {u}
    BY <1>2, <1>4, <2>5, RemoveOnce
  <2>7. ToSet(users)' = ToSet(users) \ {u} /\ u \in ToSet(users) /\ u \notin gone
    BY <1>4, <2>6 DEF ToSet, ApiInv, UserRows
  <2>8. TypeOK'
    <3>1. gone' \subseteq UserIDs
      BY <1>2, <1>4 DEF ApiInv, TypeOK
    <3>. QED
      BY <1>1, <2>1, <2>4, <2>6, <3>1, TypeFrame DEF ApiInv, TypeOK, operator
  <2>9. UserRows'
    BY <1>4, <2>6, <2>7 DEF ApiInv, UserRows
  <2>10. ChangeCalls'
    <3>1. IsTrue(call[s])'
      BY <1>4, <2>2, <2>3 DEF IsTrue
    <3>2. ASSUME NEW t \in Slots \ {s}
          PROVE  IsTrue(call[t])'
      <4>1. IsTrue(call[t])
        BY DEF ApiInv, ChangeCalls
      <4>. QED
        BY <1>4, <2>3, <2>7, <4>1 DEF IsTrue
    <3>3. ASSUME NEW t \in Slots, NEW q \in Slots, call'[t].op = "create", call'[q].op = "create",
                 call'[t].arg = call'[q].arg
          PROVE  t = q
      BY <2>2, <2>3, <3>3 DEF ApiInv, ChangeCalls
    <3>. QED
      BY <3>1, <3>2, <3>3 DEF ChangeCalls
  <2>11. RotationCalls' /\ \A t \in Slots : SamePage(t)
    BY <1>1, <2>1, <2>2, ChangeMoves
  <2>12. PageCalls' /\ WalkRest'
    <3>1. CASE walk.kind = "users" /\ walk # NoWalk
      <4>1. gone' # walk.gone
        BY <1>4, <2>7, <3>1 DEF ApiInv, WalkRest
      <4>. QED
        BY <1>1, <1>4, <2>11, <3>1, <4>1, WalkFrame DEF operator
    <3>2. CASE ~(walk.kind = "users" /\ walk # NoWalk)
      <4>1. walk.kind # "users"
        BY <3>2 DEF NoWalk
      <4>2. \A n : Rest(n)' = Rest(n)
        BY <1>1, <4>1 DEF Rest, operator
      <4>. QED
        BY <1>1, <1>4, <2>11, <4>1, <4>2, WalkFrame DEF operator
    <3>. QED
      BY <3>1, <3>2
  <2>. QED
    BY <2>8, <2>9, <2>10, <2>11, <2>12 DEF ApiInv
<1>. QED
  BY <1>3, <1>4 DEF DeleteUser

\* The event of a change or of a rotation is recorded, or is not, and the call is
\* answered.
LEMMA RecordAuditInv ==
  ASSUME WellFormed, ApiInv, NEW s \in Slots, RecordManagementAudit(s)
  PROVE  ApiInv'
<1>. DEFINE x == IF call[s].op = "rotate" THEN call[s].answer ELSE "ok"
            c == Moved(s, "answered", call[s].did, x)
<1>1. /\ call[s].op # "none" /\ call[s].stage = "audit"
      /\ UNCHANGED <<users, gone, live, operator>>
  BY DEF RecordManagementAudit
<1>2. IsCall(call[s]) /\ call[s].op \in Changes \cup {"rotate"} /\ IsTrue(call[s])
  BY <1>1, CallFacts, OpenCall DEF IsCall
<1>3. Puts(s, c)
  BY <1>1, Moves DEF RecordManagementAudit
<1>4. x \in Answers /\ (call[s].op = "rotate" => x \in Secrets)
  BY <1>1, <1>2 DEF IsCall, Answers
<1>5. /\ c.op = call[s].op /\ c.arg = call[s].arg /\ c.stage = "answered"
      /\ c.did = call[s].did /\ c.answer = x
      /\ c = [op |-> c.op, arg |-> c.arg, stage |-> c.stage,
              did |-> c.did, answer |-> c.answer, page |-> c.page]
  BY DEF Moved
<1>6. call'[s] = c /\ \A t \in Slots \ {s} : call'[t] = call[t]
  BY <1>3, PutFacts
<1>7. call[s].op = "rotate" => x = call[s].answer
  OBVIOUS
<1>8. IsTrue(c)
  BY <1>1, <1>2, <1>5 DEF IsTrue, Changes
<1>. HIDE DEF c, x
<1>9. IsCall(c)
  BY <1>2, <1>4, <1>5 DEF IsCall, Changes
<1>10. /\ events' \in Seq(Nat) /\ Len(events') <= MaxEvents
       /\ \A j \in DOMAIN events : \E k \in DOMAIN events' : k >= j /\ events'[k] = events[j]
  <2>1. events \in Seq(Nat) /\ Len(events) \in Nat /\ Len(events) <= MaxEvents
    BY DEF ApiInv, TypeOK
  <2>2. CASE UNCHANGED events
    BY <2>1, <2>2
  <2>3. ASSUME Len(events) < MaxEvents, NEW i \in 1..(Len(events) + 1),
               events' = InsertAt(events, i, Len(events) + 1)
        PROVE  /\ events' \in Seq(Nat) /\ Len(events') <= MaxEvents
               /\ \A j \in DOMAIN events : \E k \in DOMAIN events' :
                    k >= j /\ events'[k] = events[j]
    <3>1. Len(events) + 1 \in Nat
      BY <2>1
    <3>2. events' \in Seq(Nat) /\ Len(events') = Len(events) + 1
      BY <2>1, <2>3, <3>1, InsertedRow
    <3>3. \A j \in DOMAIN events : \E k \in DOMAIN events' : k >= j /\ events'[k] = events[j]
      BY <2>1, <2>3, <3>1, InsertKeepsRest
    <3>4. Len(events) + 1 <= MaxEvents
      BY <2>1, <2>3 DEF WellFormed
    <3>. QED
      BY <3>2, <3>3, <3>4
  <2>. QED
    BY <2>2, <2>3 DEF RecordManagementAudit
<1>11. TypeOK'
  BY <1>1, <1>3, <1>9, <1>10, TypeFrame DEF ApiInv, TypeOK, operator
<1>12. UserRows' /\ ChangeCalls'
  BY <1>1, <1>3, <1>5, <1>8, ChangeFrame
<1>13. RotationCalls'
  <2>1. \A t \in Slots : SameRotation(t)
    BY <1>1, <1>5, <1>6, <1>7 DEF SameRotation, operator
  <2>2. SameMind
    BY <1>1, <1>5, <1>6 DEF SameMind, operator
  <2>. QED
    BY <1>1, <2>1, <2>2, RotationFrame DEF operator
<1>14. PageCalls' /\ WalkRest'
  <2>1. \A t \in Slots : SamePage(t)
    BY <1>1, <1>2, <1>5, <1>6 DEF SamePage, PageArrived, operator, Changes
  <2>2. \A n \in Nat \cup {None} : Rest(n) \subseteq Rest(n)'
    <3>1. \A j \in DOMAIN users : \E k \in DOMAIN users' : k >= j /\ users'[k] = users[j]
      BY <1>1 DEF ApiInv, TypeOK
    <3>2. users' \in Seq(UserIDs) /\ walk' = walk
      BY <1>1 DEF ApiInv, TypeOK, operator
    <3>. QED
      BY <1>10, <3>1, <3>2, RestGrows
  <2>. QED
    BY <1>1, <2>1, <2>2, WalkFrame DEF operator
<1>. QED
  BY <1>11, <1>12, <1>13, <1>14 DEF ApiInv

-----------------------------------------------------------------------------
(* Pages.                                                                  *)

\* A page of the listing is answered: between what it shows and what comes after
\* its token nothing is left out.
LEMMA AnswerPageInv ==
  ASSUME WellFormed, ApiInv, NEW s \in Slots, call[s].op \in {"users", "events"},
         call[s].stage = "sent", UNCHANGED <<tables, operator>>,
         NEW S, NEW list \in Seq(S), list = (IF call[s].op = "users" THEN users ELSE events),
         NEW n, AnswerPage(s, list, call[s].arg.offset, n)
  PROVE  ApiInv'
<1>1. /\ call[s].op # "none" /\ call[s].op \notin Changes /\ call[s].op # "rotate"
      /\ call[s].stage # "answered"
  BY DEF Changes
<1>2. CASE n \notin 1..MaxPage
  <2>1. Puts(s, Moved(s, "answered", call[s].did, "refused"))
    BY <1>1, <1>2, Moves DEF AnswerPage
  <2>. QED
    BY <1>1, <2>1, OpenCall, HandlerStep DEF Answers
<1>3. CASE n \in 1..MaxPage
  <2>. DEFINE p == Page(list, call[s].arg.offset, n)
              c == [op |-> call[s].op, arg |-> call[s].arg, stage |-> "answered",
                    did |-> call[s].did, answer |-> "ok", page |-> p]
  <2>1. IsCall(call[s])
    BY <1>1, CallFacts
  <2>2. Puts(s, c)
    <3>1. call[s] = Moved(s, call[s].stage, call[s].did, call[s].answer)
      BY <2>1 DEF IsCall, Moved
    <3>2. [call[s] EXCEPT !.stage = "answered"] = Moved(s, "answered", call[s].did, call[s].answer)
      BY <3>1 DEF Moved
    <3>3. [Moved(s, "answered", call[s].did, call[s].answer) EXCEPT !.answer = "ok"]
            = Moved(s, "answered", call[s].did, "ok")
      BY DEF Moved
    <3>4. \A q : [Moved(s, "answered", call[s].did, "ok") EXCEPT !.page = q]
                   = [op |-> call[s].op, arg |-> call[s].arg, stage |-> "answered",
                      did |-> call[s].did, answer |-> "ok", page |-> q]
      BY DEF Moved
    <3>5. [call[s] EXCEPT !.stage = "answered", !.answer = "ok", !.page = p]
            = [[[call[s] EXCEPT !.stage = "answered"] EXCEPT !.answer = "ok"] EXCEPT !.page = p]
      BY <3>1 DEF Moved
    <3>6. call = [t \in Slots |-> call[t]]
      BY DEF ApiInv, TypeOK
    <3>7. call' = [call EXCEPT ![s] = [@ EXCEPT !.stage = "answered", !.answer = "ok", !.page = p]]
      BY <1>3 DEF AnswerPage
    <3>. HIDE DEF p
    <3>. QED
      BY <3>2, <3>3, <3>4, <3>5, <3>6, <3>7 DEF Puts
  <2>3. /\ c.op = call[s].op /\ c.arg = call[s].arg /\ c.stage = "answered" /\ c.answer = "ok"
        /\ c.did = call[s].did /\ c.page = p
        /\ c = [op |-> c.op, arg |-> c.arg, stage |-> c.stage,
                did |-> c.did, answer |-> c.answer, page |-> c.page]
    OBVIOUS
  <2>. HIDE DEF p, c
  <2>4. call'[s] = c /\ \A t \in Slots \ {s} : call'[t] = call[t]
    BY <2>2, PutFacts
  <2>5. IsCall(c) /\ IsTrue(c) /\ c.op # "create"
    BY <1>1, <2>1, <2>3 DEF IsCall, IsTrue, Changes, Answers
  <2>6. UNCHANGED <<users, gone, events, live, held, token, awaits, mind, walk, early>>
    BY DEF tables, operator
  <2>7. TypeOK'
    BY <2>2, <2>5, <2>6, TypeFrame DEF ApiInv, TypeOK
  <2>8. UserRows' /\ ChangeCalls'
    BY <2>2, <2>5, <2>6, ChangeFrame
  <2>9. RotationCalls'
    <3>1. \A t \in Slots : SameRotation(t)
      BY <1>1, <2>3, <2>4, <2>6 DEF SameRotation
    <3>2. SameMind
      BY <1>1, <2>4, <2>6 DEF SameMind
    <3>. QED
      BY <2>6, <3>1, <3>2, RotationFrame
  <2>10. ASSUME awaits = s
         PROVE  /\ p.next \in Nat \cup {None}
                /\ Rest(walk.offset) \subseteq ToSet(p.rows) \cup Rest(p.next)
    <3>1. /\ walk.kind = call[s].op /\ walk.offset \in Nat /\ walk.offset # None
          /\ call[s].arg.offset = walk.offset
      BY <2>10 DEF ApiInv, PageCalls, WellFormed
    <3>2. n \in Nat \ {0} /\ None \notin Nat
      BY <1>3 DEF WellFormed
    <3>3. /\ p.next \in Nat \cup {None}
          /\ \A i \in DOMAIN list : i > walk.offset =>
               list[i] \in ToSet(p.rows) \/ (p.next # None /\ i > p.next)
      BY <3>1, <3>2, PageCovers DEF p
    <3>4. Rest(walk.offset) = {list[i] : i \in {j \in DOMAIN list : j > walk.offset}}
      BY <3>1 DEF Rest
    <3>5. p.next # None => Rest(p.next) = {list[i] : i \in {j \in DOMAIN list : j > p.next}}
      BY <3>1 DEF Rest
    <3>. QED
      BY <3>3, <3>4, <3>5
  <2>11. PageCalls'
    BY <2>3, <2>4, <2>6, <2>10 DEF ApiInv, PageCalls, PageArrived
  <2>12. WalkRest'
    <3>1. Rest(walk.offset)' = Rest(walk.offset)
      BY <2>6, SameRest
    <3>2. ASSUME NEW t \in Slots, PageArrived(t)', walk # NoWalk,
                 ~(walk.kind = "users" /\ walk.gone # gone)
          PROVE  walk.must \subseteq walk.seen \cup ToSet(call'[t].page.rows)
                                               \cup Rest(call[t].page.next)'
      <4>1. Rest(call[t].page.next)' = Rest(call'[t].page.next)
        BY <2>6 DEF Rest
      <4>2. walk.must \subseteq walk.seen \cup Rest(walk.offset)
        BY <3>2 DEF ApiInv, WalkRest
      <4>3. CASE t = s
        BY <2>3, <2>4, <2>6, <2>10, <3>2, <4>1, <4>2, <4>3 DEF PageArrived
      <4>4. CASE t # s
        BY <2>4, <2>6, <3>2, <4>1, <4>4 DEF ApiInv, WalkRest, PageArrived
      <4>. QED
        BY <4>3, <4>4
    <3>. QED
      BY <2>6, <3>1, <3>2 DEF ApiInv, WalkRest, ToSet
  <2>. QED
    BY <2>7, <2>8, <2>9, <2>11, <2>12 DEF ApiInv
<1>. QED
  BY <1>2, <1>3

\* ListUsers answers with a page of the users.
LEMMA ListUsersInv ==
  ASSUME WellFormed, ApiInv, NEW s \in Slots, ListUsers(s)
  PROVE  ApiInv'
BY AnswerPageInv DEF ListUsers, At, ApiInv, TypeOK

\* ListAuditEvents answers with a page of the events.
LEMMA ListAuditEventsInv ==
  ASSUME WellFormed, ApiInv, NEW s \in Slots, ListAuditEvents(s)
  PROVE  ApiInv'
BY AnswerPageInv DEF ListAuditEvents, At, ApiInv, TypeOK

\* The walk goes on, and no page is waited for any more.
LEMMA WalkMoves ==
  ASSUME WellFormed, ApiInv, WalkRest', walk'.kind \in {"none", "users", "events"},
         UNCHANGED <<tables, held, token, mind, early>>,
         \/ UNCHANGED <<call, awaits>> /\ \A s \in Slots : call[s] = NoCall
         \/ \E s \in Slots : /\ awaits = s /\ awaits' = None /\ Puts(s, NoCall)
                             /\ call[s].op \in {"users", "events"}
  PROVE  ApiInv'
<1>1. UNCHANGED <<users, gone, events, live, held, token, mind, early>>
  BY DEF tables
<1>2. IsTrue(NoCall) /\ NoCall.op = "none"
  BY DEF IsTrue, NoCall, Changes
<1>3. CASE UNCHANGED <<call, awaits>> /\ \A s \in Slots : call[s] = NoCall
  <2>1. TypeOK'
    BY <1>1, <1>3 DEF ApiInv, TypeOK
  <2>2. UserRows' /\ ChangeCalls'
    BY <1>1, <1>2, <1>3 DEF ApiInv, UserRows, ChangeCalls, ToSet, IsTrue
  <2>3. RotationCalls' /\ PageCalls'
    BY <1>1, <1>2, <1>3 DEF ApiInv, RotationCalls, PageCalls, Rotating
  <2>. QED
    BY <2>1, <2>2, <2>3 DEF ApiInv
<1>4. ASSUME NEW s \in Slots, awaits = s, awaits' = None, Puts(s, NoCall),
             call[s].op \in {"users", "events"}
      PROVE  ApiInv'
  <2>1. call'[s] = NoCall /\ \A t \in Slots \ {s} : call'[t] = call[t]
    BY <1>4, PutFacts
  <2>2. TypeOK'
    BY <1>1, <1>4, TypeFrame DEF ApiInv, TypeOK
  <2>3. UserRows' /\ ChangeCalls'
    BY <1>1, <1>2, <1>4, ChangeFrame
  <2>4. RotationCalls'
    <3>1. \A t \in Slots : SameRotation(t)
      BY <1>2, <1>4, <2>1 DEF SameRotation, WellFormed
    <3>2. SameMind
      BY <1>1, <1>4 DEF SameMind
    <3>. QED
      BY <1>1, <3>1, <3>2, RotationFrame
  <2>5. PageCalls'
    BY <1>4 DEF PageCalls, WellFormed
  <2>. QED
    BY <2>2, <2>3, <2>4, <2>5 DEF ApiInv
<1>. QED
  BY <1>3, <1>4

\* A page is read: what it shows is seen, and the walk goes on at its token.
LEMMA PrintPageInv ==
  ASSUME WellFormed, ApiInv, NEW s \in Slots, PrintPage(s)
  PROVE  ApiInv'
<1>1. /\ awaits = s /\ call[s].op \in {"users", "events"} /\ call[s].stage = "answered"
      /\ awaits' = None /\ Puts(s, NoCall) /\ UNCHANGED <<tables, held, token, mind, early>>
  BY DEF PrintPage, Puts
<1>2. /\ walk # NoWalk /\ walk.kind \in {"users", "events"}
      /\ PageArrived(s) => call[s].page.next \in Nat \cup {None}
  BY <1>1 DEF ApiInv, PageCalls, NoWalk
<1>3. UNCHANGED <<users, gone, events, live>> /\ \A t \in Slots : ~PageArrived(t)'
  BY <1>1 DEF tables, PageArrived, WellFormed
<1>4. /\ walk = [kind |-> walk.kind, size |-> walk.size, offset |-> walk.offset,
                 seen |-> walk.seen, must |-> walk.must, gone |-> walk.gone]
      /\ walk.gone \subseteq gone /\ walk.offset \in Nat \cup {None}
      /\ \/ walk.kind = "users" /\ walk.gone # gone
         \/ walk.must \subseteq walk.seen \cup Rest(walk.offset)
  BY <1>2 DEF ApiInv, WalkRest
<1>5. CASE call[s].answer = "error"
  <2>1. walk' = walk
    BY <1>5 DEF PrintPage
  <2>2. Rest(walk.offset)' = Rest(walk.offset)
    BY <1>3, <2>1, SameRest
  <2>3. WalkRest'
    BY <1>2, <1>3, <1>4, <2>1, <2>2 DEF WalkRest
  <2>. QED
    BY <1>1, <1>2, <2>1, <2>3, WalkMoves
<1>6. CASE call[s].answer = "refused"
  <2>1. walk' = [walk EXCEPT !.must = {}, !.offset = None]
    BY <1>6 DEF PrintPage
  <2>2. walk' = [kind |-> walk.kind, size |-> walk.size, offset |-> None,
                 seen |-> walk.seen, must |-> {}, gone |-> walk.gone]
    BY <1>4, <2>1
  <2>3. /\ walk'.kind = walk.kind /\ walk'.size = walk.size /\ walk'.offset = None
        /\ walk'.seen = walk.seen /\ walk'.must = {} /\ walk'.gone = walk.gone
    BY <2>2
  <2>4. WalkRest'
    BY <1>2, <1>3, <1>4, <2>2, <2>3 DEF WalkRest
  <2>. QED
    BY <1>1, <1>2, <2>3, <2>4, WalkMoves
<1>7. CASE call[s].answer \notin {"error", "refused"}
  <2>. DEFINE p == call[s].page
  <2>1. walk' = [walk EXCEPT !.seen = @ \cup ToSet(p.rows), !.offset = p.next]
    BY <1>7 DEF PrintPage
  <2>2. PageArrived(s)
    BY <1>1, <1>7 DEF PageArrived
  <2>3. /\ walk'.kind = walk.kind /\ walk'.size = walk.size /\ walk'.offset = p.next
        /\ walk'.seen = walk.seen \cup ToSet(p.rows) /\ walk'.must = walk.must
        /\ walk'.gone = walk.gone
        /\ walk' = [kind |-> walk'.kind, size |-> walk'.size, offset |-> walk'.offset,
                    seen |-> walk'.seen, must |-> walk'.must, gone |-> walk'.gone]
    <3>. HIDE DEF p
    <3>1. walk' = [kind |-> walk.kind, size |-> walk.size, offset |-> p.next,
                   seen |-> walk.seen \cup ToSet(p.rows), must |-> walk.must, gone |-> walk.gone]
      BY <1>4, <2>1
    <3>. QED
      BY <3>1
  <2>4. \/ walk.kind = "users" /\ walk.gone # gone
        \/ walk.must \subseteq walk.seen \cup ToSet(p.rows) \cup Rest(p.next)
    BY <1>2, <2>2 DEF ApiInv, WalkRest
  <2>5. Rest(walk.offset)' = Rest(p.next)
    BY <1>3, <2>3 DEF Rest
  <2>6. WalkRest'
    <3>. HIDE DEF p
    <3>1. p.next \in Nat \cup {None}
      BY <1>2, <2>2 DEF p
    <3>. QED
      BY <1>2, <1>3, <1>4, <2>3, <2>4, <2>5, <3>1 DEF WalkRest
  <2>. QED
    BY <1>1, <1>2, <2>3, <2>6, WalkMoves
<1>. QED
  BY <1>5, <1>6, <1>7

\* At the beginning of a walk everything is still to come.
LEMMA NewWalk ==
  ASSUME users \in Seq(UserIDs), events \in Seq(Nat), NEW kind \in {"users", "events"}, NEW n,
         NEW w, w = BeginWalk(kind, n), NEW list, list = IF kind = "users" THEN users ELSE events
  PROVE  /\ w = [kind |-> w.kind, size |-> w.size, offset |-> w.offset,
                 seen |-> w.seen, must |-> w.must, gone |-> w.gone]
         /\ w.kind = kind /\ w.offset = 0 /\ w.gone = gone
         /\ w.must = {list[i] : i \in {j \in DOMAIN list : j > 0}}
<1>. DEFINE size == IF kind = "events" THEN n % Wrap ELSE n
            must == IF kind = "users" THEN ToSet(users) ELSE ToSet(events)
<1>1. w = [kind |-> kind, size |-> size, offset |-> 0, seen |-> {}, must |-> must, gone |-> gone]
  BY DEF BeginWalk
<1>2. must = {list[i] : i \in DOMAIN list} /\ DOMAIN list \subseteq Nat \ {0}
  BY DEF ToSet
<1>. HIDE DEF size, must
<1>3. {j \in DOMAIN list : j > 0} = DOMAIN list
  BY <1>2
<1>. QED
  BY <1>1, <1>2, <1>3

\* The next walk begins, with all the entries to come.
LEMMA WalkAgainInv ==
  ASSUME WellFormed, ApiInv, WalkAgain
  PROVE  ApiInv'
<1>. DEFINE list == IF walk.kind = "users" THEN users ELSE events
<1>1. /\ \A s \in Slots : call[s] = NoCall
      /\ UNCHANGED <<call, awaits>> /\ UNCHANGED <<tables, held, token, mind, early>>
      /\ UNCHANGED <<users, gone, events>> /\ walk' = BeginWalk(walk.kind, walk.size)
  BY DEF WalkAgain, tables
<1>2. walk.kind \in {"users", "events"} /\ users \in Seq(UserIDs) /\ events \in Seq(Nat)
  BY DEF WalkAgain, ApiInv, WalkRest, TypeOK
<1>3. /\ walk' = [kind |-> walk'.kind, size |-> walk'.size, offset |-> walk'.offset,
                  seen |-> walk'.seen, must |-> walk'.must, gone |-> walk'.gone]
      /\ walk'.kind = walk.kind /\ walk'.offset = 0 /\ walk'.gone = gone
      /\ walk'.must = {list[i] : i \in {j \in DOMAIN list : j > 0}}
  BY <1>1, <1>2, NewWalk
<1>4. Rest(walk.offset)' = {list[i] : i \in {j \in DOMAIN list : j > 0}}
  BY <1>1, <1>3 DEF Rest, WellFormed
<1>5. \A s \in Slots : ~PageArrived(s)'
  BY <1>1 DEF PageArrived, NoCall
<1>. HIDE DEF list
<1>6. WalkRest'
  BY <1>1, <1>2, <1>3, <1>4, <1>5 DEF WalkRest
<1>. QED
  BY <1>1, <1>2, <1>3, <1>6, WalkMoves

-----------------------------------------------------------------------------
(* The operator's secret.                                                  *)

\* A new secret is one, as there is always another.
LEMMA NewSecretIsSecret ==
  ASSUME WellFormed, ApiInv
  PROVE  NewSecret \in Secrets
<1>. DEFINE f == [s \in Slots |-> IF call[s].op = "rotate" /\ call[s].answer \in Secrets
                                    THEN call[s].answer
                                    ELSE IF call[s].op = "exchange" THEN call[s].arg ELSE None]
<1>1. \A s \in Slots : call[s].op = "exchange" => call[s].arg \in Secrets
  BY CallFacts DEF IsCall
<1>2. f \in [Slots -> Secrets \cup {None}]
  BY <1>1
<1>3. held \in Secrets /\ live \in Secrets
  BY DEF ApiInv, TypeOK
<1>4. PICK z \in Secrets : z \notin {held, live} /\ \A s \in Slots : z # f[s]
  <2>. HIDE DEF f
  <2>. QED
    BY <1>2, <1>3 DEF WellFormed
<1>5. \A s \in Slots : /\ call[s].op = "rotate" => call[s].answer # z
                       /\ call[s].op = "exchange" => call[s].arg # z
  BY <1>4
<1>. QED
  BY <1>4, <1>5 DEF NewSecret

\* The rotation is carried out: the answer that is waited for has the secret.
LEMMA RotateInv ==
  ASSUME WellFormed, ApiInv, NEW s \in Slots, RotateServiceAccountSecret(s)
  PROVE  ApiInv'
<1>. DEFINE x == NewSecret
            c == Moved(s, "audit", TRUE, x)
<1>1. /\ call[s].op = "rotate" /\ call[s].stage = "sent" /\ call[s].op # "none"
      /\ live' = IF call[s].arg = "own" THEN x ELSE live
      /\ UNCHANGED <<users, gone, events, held, token, awaits, mind, walk, early>>
  BY DEF RotateServiceAccountSecret, At, operator
<1>2. x \in Secrets
  BY NewSecretIsSecret
<1>3. call' = [call EXCEPT ![s] = [@ EXCEPT !.stage = "audit", !.did = TRUE, !.answer = x]]
  BY DEF RotateServiceAccountSecret
<1>. HIDE DEF x
<1>4. IsCall(call[s])
  BY <1>1, CallFacts
<1>5. Puts(s, c)
  <2>1. call[s] = Moved(s, call[s].stage, call[s].did, call[s].answer)
    BY <1>4 DEF IsCall, Moved
  <2>2. [call[s] EXCEPT !.stage = "audit"] = Moved(s, "audit", call[s].did, call[s].answer)
    BY <2>1 DEF Moved
  <2>3. \A y : [Moved(s, "audit", call[s].did, call[s].answer) EXCEPT !.did = y]
                 = Moved(s, "audit", y, call[s].answer)
    BY DEF Moved
  <2>4. \A y, z : [Moved(s, "audit", y, call[s].answer) EXCEPT !.answer = z]
                    = Moved(s, "audit", y, z)
    BY DEF Moved
  <2>5. \A y : [call[s] EXCEPT !.stage = "audit", !.did = y, !.answer = x]
                 = [[[call[s] EXCEPT !.stage = "audit"] EXCEPT !.did = y] EXCEPT !.answer = x]
    BY <2>1 DEF Moved
  <2>6. \A y : [call[s] EXCEPT !.stage = "audit", !.did = y, !.answer = x]
                 = Moved(s, "audit", y, x)
    <3>1. TAKE y
    <3>2. [[call[s] EXCEPT !.stage = "audit"] EXCEPT !.did = y]
            = Moved(s, "audit", y, call[s].answer)
      BY <2>2, <2>3, Zenon
    <3>3. [[[call[s] EXCEPT !.stage = "audit"] EXCEPT !.did = y] EXCEPT !.answer = x]
            = Moved(s, "audit", y, x)
      BY <2>4, <3>2, Zenon
    <3>. QED
      BY <2>5, <3>3, Zenon
  <2>7. [call[s] EXCEPT !.stage = "audit", !.did = TRUE, !.answer = x] = c
    BY <2>6, Zenon
  <2>8. call' = [call EXCEPT ![s] = c]
    BY <1>3, <2>7, Zenon
  <2>. QED
    BY <2>8 DEF Puts
<1>6. /\ c.op = "rotate" /\ c.arg = call[s].arg /\ c.stage = "audit" /\ c.did = TRUE
      /\ c.answer = x
      /\ c = [op |-> c.op, arg |-> c.arg, stage |-> c.stage,
              did |-> c.did, answer |-> c.answer, page |-> c.page]
  BY <1>1 DEF Moved
<1>. HIDE DEF c
<1>7. call'[s] = c /\ \A t \in Slots \ {s} : call'[t] = call[t]
  BY <1>5, PutFacts
<1>8. IsCall(c) /\ IsTrue(c) /\ c.op # "create"
  BY <1>1, <1>2, <1>4, <1>6 DEF IsCall, IsTrue, Changes, Answers
<1>9. TypeOK'
  <2>1. live' \in Secrets
    BY <1>1, <1>2 DEF ApiInv, TypeOK
  <2>. QED
    BY <1>1, <1>5, <1>8, <2>1, TypeFrame DEF ApiInv, TypeOK
<1>10. UserRows' /\ ChangeCalls'
  BY <1>1, <1>5, <1>8, ChangeFrame
<1>11. RotationCalls'
  <2>1. Rotating' = Rotating
    BY <1>1, <1>6, <1>7 DEF Rotating
  <2>2. \A t \in Slots : awaits = t /\ call[t].op = "rotate" =>
          call[t].arg = "own" /\ t \in Rotating
    BY DEF ApiInv, RotationCalls, Rotating
  <2>3. \A t \in Slots : awaits' = t /\ call'[t].op = "rotate" => call'[t].arg = "own"
    BY <1>1, <1>6, <1>7, <2>2
  <2>4. ASSUME ~early
        PROVE  /\ \A t, q \in Rotating : t = q
               /\ \A t \in Slots : awaits = t /\ call[t].op = "rotate" =>
                    /\ call[t].stage = "audit" => call[t].answer = live
                    /\ call[t].stage = "answered" => call[t].answer \in {live, "error"}
               /\ mind = "sure" /\ (\A t \in Slots : awaits = t => call[t].op # "rotate") =>
                    Rotating = {} /\ live = held
    BY <2>4 DEF ApiInv, RotationCalls
  <2>5. CASE call[s].arg = "own"
    <3>1. s \in Rotating /\ live' = x
      BY <1>1, <2>5 DEF Rotating
    <3>2. ASSUME ~early, NEW t \in Slots, awaits = t, call'[t].op = "rotate"
          PROVE  t = s
      BY <1>1, <1>7, <2>2, <2>4, <3>1, <3>2
    <3>. QED
      BY <1>1, <1>6, <1>7, <2>1, <2>3, <2>4, <3>1, <3>2 DEF RotationCalls
  <2>6. CASE call[s].arg # "own"
    <3>1. awaits # s /\ live' = live
      BY <1>1, <2>2, <2>6
    <3>. QED
      BY <1>1, <1>6, <1>7, <2>1, <2>3, <2>4, <3>1 DEF RotationCalls
  <2>. QED
    BY <2>5, <2>6
<1>12. PageCalls' /\ WalkRest'
  <2>1. \A t \in Slots : SamePage(t)
    BY <1>1, <1>6, <1>7 DEF SamePage, PageArrived
  <2>2. \A n \in Nat \cup {None} : Rest(n) \subseteq Rest(n)'
    BY <1>1, SameRest
  <2>. QED
    BY <1>1, <2>1, <2>2, WalkFrame
<1>. QED
  BY <1>9, <1>10, <1>11, <1>12 DEF ApiInv

\* The operator reads the answer of his rotation.
LEMMA PrintSecretInv ==
  ASSUME WellFormed, ApiInv, NEW s \in Slots, PrintSecret(s)
  PROVE  ApiInv'
<1>1. /\ awaits = s /\ call[s].op = "rotate" /\ call[s].stage = "answered" /\ awaits' = None
      /\ Puts(s, NoCall) /\ UNCHANGED <<tables, token, walk, early>>
      /\ UNCHANGED <<users, gone, events, live>> /\ call[s].op # "none"
  BY DEF PrintSecret, Puts, tables
<1>2. token \in BOOLEAN
  BY DEF ApiInv, TypeOK
<1>3. CASE call[s].answer = "error"
  <2>1. mind' = "unsure" /\ held' = held
    BY <1>3 DEF PrintSecret
  <2>. QED
    BY <1>1, <1>2, <2>1, SlotFreed
<1>4. CASE call[s].answer # "error"
  <2>1. mind' = "sure" /\ held' = call[s].answer
    BY <1>4 DEF PrintSecret
  <2>2. held' \in Secrets
    BY <1>1, <1>4, <2>1, CallFacts DEF IsCall
  <2>3. IsTrue(NoCall) /\ NoCall.op = "none"
    BY DEF IsTrue, NoCall, Changes
  <2>4. call'[s] = NoCall /\ \A t \in Slots \ {s} : call'[t] = call[t]
    BY <1>1, PutFacts
  <2>5. TypeOK'
    BY <1>1, <2>1, <2>2, TypeFrame DEF ApiInv, TypeOK
  <2>6. UserRows' /\ ChangeCalls'
    BY <1>1, <2>3, ChangeFrame
  <2>7. RotationCalls'
    <3>1. Rotating' \subseteq Rotating \ {s}
      BY <1>1, <2>3, <2>4 DEF Rotating, WellFormed
    <3>2. s \in Rotating
      BY <1>1 DEF ApiInv, RotationCalls, Rotating
    <3>3. ~early => live = held' /\ Rotating' = {}
      BY <1>1, <1>4, <2>1, <3>1, <3>2 DEF ApiInv, RotationCalls
    <3>. QED
      BY <1>1, <3>3 DEF RotationCalls, WellFormed
  <2>8. PageCalls' /\ WalkRest'
    <3>1. \A t \in Slots : SamePage(t)
      BY <1>1 DEF SamePage, WellFormed
    <3>2. \A n \in Nat \cup {None} : Rest(n) \subseteq Rest(n)'
      BY <1>1, SameRest
    <3>. QED
      BY <1>1, <3>1, <3>2, WalkFrame
  <2>. QED
    BY <2>5, <2>6, <2>7, <2>8 DEF ApiInv
<1>. QED
  BY <1>3, <1>4

\* The calls stay, and the tables.
LEMMA CallsStay ==
  ASSUME WellFormed, ApiInv, UNCHANGED <<tables, call, held, walk, early>>, token' \in BOOLEAN,
         mind' \in {"sure", "unsure", "locked"}, awaits' \in {awaits, None}, SameMind
  PROVE  ApiInv'
<1>1. UNCHANGED <<users, gone, events, live, call, held, walk, early>>
  BY DEF tables
<1>2. TypeOK'
  BY <1>1 DEF ApiInv, TypeOK
<1>3. UserRows' /\ ChangeCalls'
  BY <1>1 DEF ApiInv, UserRows, ChangeCalls, IsTrue, ToSet
<1>4. \A t \in Slots : SameRotation(t) /\ SamePage(t)
  BY <1>1 DEF SameRotation, SamePage, PageArrived, WellFormed
<1>5. RotationCalls'
  BY <1>1, <1>4, RotationFrame
<1>6. \A n \in Nat \cup {None} : Rest(n) \subseteq Rest(n)'
  BY <1>1, SameRest
<1>7. PageCalls' /\ WalkRest'
  BY <1>1, <1>4, <1>6, WalkFrame
<1>. QED
  BY <1>2, <1>3, <1>5, <1>7 DEF ApiInv

\* A command gives up: an operator who gives up a rotation is unsure.
LEMMA TimeoutInv ==
  ASSUME WellFormed, ApiInv, Timeout
  PROVE  ApiInv'
<1>1. mind' \in {"sure", "unsure", "locked"} /\ token' \in BOOLEAN
  BY DEF Timeout, ApiInv, TypeOK
<1>2. SameMind
  BY DEF Timeout, SameMind
<1>. QED
  BY <1>1, <1>2, CallsStay DEF Timeout

\* The token expires.
LEMMA ExpireTokenInv ==
  ASSUME WellFormed, ApiInv, ExpireToken
  PROVE  ApiInv'
<1>1. mind' \in {"sure", "unsure", "locked"} /\ token' \in BOOLEAN
  BY DEF ExpireToken, ApiInv, TypeOK
<1>2. SameMind
  BY DEF ExpireToken, SameMind
<1>. QED
  BY <1>1, <1>2, CallsStay DEF ExpireToken

\* Another account: no call is about its secret.
LEMMA BootstrapInv ==
  ASSUME WellFormed, ApiInv, Bootstrap
  PROVE  ApiInv'
<1>1. /\ awaits = None /\ live' = NewSecret /\ held' = NewSecret /\ mind' = "sure"
      /\ early' = FALSE /\ token' = FALSE
      /\ call' = [s \in Slots |-> IF call[s].op = "rotate" THEN [call[s] EXCEPT !.arg = "old"]
                                                           ELSE call[s]]
      /\ UNCHANGED <<users, gone, events, awaits, walk>>
  BY DEF Bootstrap
<1>2. NewSecret \in Secrets
  BY NewSecretIsSecret
<1>3. call' = [s \in Slots |-> call'[s]]
  BY <1>1
<1>4. ASSUME NEW s \in Slots, call[s].op = "rotate"
      PROVE  /\ IsCall(call'[s]) /\ call'[s].op = "rotate" /\ call'[s].arg = "old"
  <2>1. IsCall(call[s])
    BY <1>4, CallFacts
  <2>2. call'[s] = [op |-> call[s].op, arg |-> "old", stage |-> call[s].stage,
                    did |-> call[s].did, answer |-> call[s].answer, page |-> call[s].page]
    BY <1>1, <1>4, <2>1 DEF IsCall
  <2>3. /\ call'[s].op = "rotate" /\ call'[s].arg = "old" /\ call'[s].stage = call[s].stage
        /\ call'[s].did = call[s].did /\ call'[s].answer = call[s].answer
        /\ call'[s] = [op |-> call'[s].op, arg |-> call'[s].arg, stage |-> call'[s].stage,
                       did |-> call'[s].did, answer |-> call'[s].answer, page |-> call'[s].page]
    BY <1>4, <2>2
  <2>. QED
    BY <1>4, <2>1, <2>3 DEF IsCall, Changes
<1>5. \A s \in Slots : call[s].op # "rotate" => call'[s] = call[s]
  BY <1>1
<1>6. TypeOK'
  <2>1. \A s \in Slots : call'[s] = NoCall \/ IsCall(call'[s])
    BY <1>4, <1>5 DEF ApiInv, TypeOK
  <2>. QED
    BY <1>1, <1>2, <1>3, <2>1 DEF ApiInv, TypeOK
<1>7. UserRows'
  BY <1>1 DEF ApiInv, UserRows, ToSet
<1>8. ChangeCalls'
  <2>1. \A s \in Slots : call'[s] = call[s] \/ (call'[s].op = "rotate" /\ call[s].op = "rotate")
    BY <1>4, <1>5
  <2>2. \A s \in Slots : IsTrue(call[s])'
    BY <1>1, <2>1 DEF ApiInv, ChangeCalls, IsTrue, Changes, ToSet
  <2>3. ASSUME NEW s \in Slots, NEW t \in Slots, call'[s].op = "create", call'[t].op = "create",
               call'[s].arg = call'[t].arg
        PROVE  s = t
    BY <2>1, <2>3 DEF ApiInv, ChangeCalls
  <2>. QED
    BY <2>2, <2>3 DEF ChangeCalls
<1>9. RotationCalls'
  <2>1. Rotating' = {}
    BY <1>4, <1>5 DEF Rotating
  <2>2. \A s \in Slots : awaits' # s
    BY <1>1 DEF WellFormed
  <2>. QED
    BY <1>1, <2>1, <2>2 DEF RotationCalls
<1>10. PageCalls' /\ WalkRest'
  <2>1. \A t \in Slots : SamePage(t)
    BY <1>1 DEF SamePage, WellFormed
  <2>2. \A n \in Nat \cup {None} : Rest(n) \subseteq Rest(n)'
    BY <1>1, SameRest
  <2>. QED
    BY <1>1, <2>1, <2>2, WalkFrame
<1>. QED
  BY <1>6, <1>7, <1>8, <1>9, <1>10 DEF ApiInv

-----------------------------------------------------------------------------
(* The theorems.                                                           *)

\* The invariant holds when the story begins.
LEMMA InitApiInv ==
  ASSUME WellFormed, Init
  PROVE  ApiInv
<1>1. /\ users = OldUsers /\ gone = {} /\ events = [i \in 1..OldEvents |-> i]
      /\ held \in Secrets /\ live = held /\ call = [s \in Slots |-> NoCall]
      /\ token = FALSE /\ awaits = None /\ mind = "sure" /\ early = FALSE
  BY DEF Init, WellFormed
<1>2. /\ users \in Seq(UserIDs) /\ events \in Seq(Nat) /\ Len(events) = OldEvents
      /\ OldEvents <= MaxEvents
  BY <1>1 DEF WellFormed
<1>3. /\ \A s \in Slots : call[s] = NoCall /\ awaits # s
      /\ NoCall.op = "none" /\ IsTrue(NoCall)
  BY <1>1 DEF WellFormed, NoCall, IsTrue, Changes
<1>4. walk.kind \in {"none", "users", "events"} /\ WalkRest
  <2>1. CASE walk = NoWalk
    BY <2>1 DEF NoWalk, WalkRest
  <2>2. ASSUME NEW kind \in {"users", "events"}, NEW n \in PageSizes, walk = BeginWalk(kind, n)
        PROVE  walk.kind \in {"none", "users", "events"} /\ WalkRest
    <3>. DEFINE list == IF kind = "users" THEN users ELSE events
    <3>1. /\ walk = [kind |-> walk.kind, size |-> walk.size, offset |-> walk.offset,
                     seen |-> walk.seen, must |-> walk.must, gone |-> walk.gone]
          /\ walk.kind = kind /\ walk.offset = 0 /\ walk.gone = gone
          /\ walk.must = {list[i] : i \in {j \in DOMAIN list : j > 0}}
      BY <1>2, <2>2, NewWalk
    <3>2. Rest(walk.offset) = {list[i] : i \in {j \in DOMAIN list : j > 0}}
      BY <3>1 DEF Rest, WellFormed
    <3>3. \A s \in Slots : ~PageArrived(s)
      BY <1>3 DEF PageArrived
    <3>. HIDE DEF list
    <3>. QED
      BY <3>1, <3>2, <3>3 DEF WalkRest
  <2>. QED
    BY <2>1, <2>2 DEF Init
<1>5. TypeOK
  BY <1>1, <1>2, <1>3, <1>4 DEF TypeOK
<1>6. UserRows /\ ChangeCalls
  BY <1>1, <1>3 DEF UserRows, ChangeCalls, WellFormed
<1>7. RotationCalls /\ PageCalls
  BY <1>1, <1>3 DEF RotationCalls, PageCalls, Rotating
<1>. QED
  BY <1>4, <1>5, <1>6, <1>7 DEF ApiInv

\* Every step preserves the invariant.
LEMMA NextApiInv ==
  ASSUME WellFormed, ApiInv, [Next]_vars
  PROVE  ApiInv'
<1>1. CASE UNCHANGED vars
  <2>1. UNCHANGED <<users, gone, events, live, call, held, token, awaits, mind, walk, early>>
    BY <1>1 DEF vars, tables, operator
  <2>2. UNCHANGED <<tables, call, held, walk, early>> /\ SameMind
    BY <2>1 DEF tables, SameMind
  <2>. QED
    BY <2>1, <2>2, CallsStay DEF ApiInv, TypeOK
<1>2. ASSUME NEW s \in Slots, Handle(s)
      PROVE  ApiInv'
  BY <1>2, CreateInv, DeleteInv, ResetUserPasswordInv, RereadUserInv, RecordAuditInv,
     DropAnswerInv, ListUsersInv, ListAuditEventsInv, ExchangeInv, RotateInv DEF Handle
<1>3. ASSUME NEW s \in Slots, Receive(s)
      PROVE  ApiInv'
  BY <1>3, PrintPageInv, PrintTokenInv, PrintSecretInv DEF Receive
<1>4. ASSUME NEW s \in Slots, CutShort(s) \/ Recover(s) \/ BeginRotate(s) \/ AskPage(s)
      PROVE  ApiInv'
  BY <1>4, CutShortInv, BeginExchangeInv, BeginRotateInv, BootstrapInv, AskPageInv DEF Recover
<1>5. ASSUME NEW s \in Slots, NEW o \in Changes, NEW u \in UserIDs, BeginChange(s, o, u)
      PROVE  ApiInv'
  BY <1>5, BeginChangeInv
<1>6. ASSUME WalkAgain \/ ExpireToken \/ Timeout
      PROVE  ApiInv'
  BY <1>6, WalkAgainInv, ExpireTokenInv, TimeoutInv
<1>. QED
  BY <1>1, <1>2, <1>3, <1>4, <1>5, <1>6 DEF Next

\* The tables, the calls on their way, the operator's secret and the walk fit
\* together in every state, for any number of calls at a time, whatever is given
\* up, cut short or carried out late.
THEOREM ApiInvariant == Spec => []ApiInv
<1>1. Init => ApiInv
  BY InitApiInv, ManagementAssumption
<1>2. ApiInv /\ [Next]_vars => ApiInv'
  BY NextApiInv, ManagementAssumption
<1>. QED
  BY <1>1, <1>2, PTL DEF Spec

\* A client that is told "ok" by CreatePasswordUser, DeleteUser or
\* ResetUserPassword had its change carried out by this call, and a user "not
\* found" is gone for good.
THEOREM ClientsAreToldTruth == Spec => []AnswersAreTrue
<1>1. ApiInv => AnswersAreTrue
  BY DEF ApiInv, ChangeCalls, IsTrue, UserRows, AnswersAreTrue
<1>. QED
  BY <1>1, ApiInvariant, PTL

\* An operator whose rotations do not overlap has written down the secret that
\* RotateServiceAccountSecret stored last, after any number of lost answers.
THEOREM SecretIsKnown == Spec => []KnownSecretWorks
<1>1. ApiInv => KnownSecretWorks
  <2>1. SUFFICES ASSUME ApiInv, mind = "sure", ~early, Rotating = {}
                 PROVE  live = held
    BY DEF KnownSecretWorks
  <2>2. ASSUME NEW s \in Slots, awaits = s
        PROVE  call[s].op # "rotate"
    BY <2>1, <2>2 DEF Rotating, ApiInv, RotationCalls
  <2>. QED
    BY <2>1, <2>2 DEF ApiInv, RotationCalls
<1>. QED
  BY <1>1, ApiInvariant, PTL

\* The pages of ListAuditEvents and ListUsers add up to what was there when the
\* walk began, for any page size and any number of changes in between.
THEOREM WalksAreComplete == Spec => []WalkComplete
<1>1. ApiInv => WalkComplete
  <2>1. SUFFICES ASSUME ApiInv, walk.kind \in {"users", "events"}, walk.offset = None
                 PROVE  walk.must \subseteq walk.seen \/ (walk.kind = "users" /\ gone # walk.gone)
    BY DEF WalkComplete, AuditWalkComplete, UserWalkComplete
  <2>2. walk # NoWalk /\ Rest(walk.offset) = {}
    BY <2>1 DEF NoWalk, Rest
  <2>. QED
    BY <2>1, <2>2 DEF ApiInv, WalkRest
<1>. QED
  BY <1>1, ApiInvariant, PTL
=============================================================================
