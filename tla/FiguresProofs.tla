---------------------------- MODULE FiguresProofs ---------------------------
(* Theorems about figures: what tags of unplanned work take of a work        *)
(* order's cost, what an invoice comes to by work order, by day and by       *)
(* category, and what is flagged for its budget, for any lines, rates and    *)
(* caps.  They rest on sums over finite sets, which come first: what a sum   *)
(* is when an element is taken out, of two sets that are apart, of the       *)
(* classes of a partition, and how sums compare.                             *)
EXTENDS UnplannedWork, SpendPolicy, FiniteFacts

-----------------------------------------------------------------------------
(* Unplanned work *)

IsLine(r) ==
    r = [kind |-> r.kind, id |-> r.id, line |-> r.line, born |-> r.born,
         tags |-> r.tags, wasted |-> r.wasted, by |-> r.by]

IsButton(b) ==
    b = [kind |-> b.kind, id |-> b.id, born |-> b.born, tags |-> b.tags,
         wasted |-> b.wasted, amount |-> b.amount]

\* A line, a button or a PATCH speaks of an id that was given out, ...
Given(x) == x.kind \in Kinds /\ x.id \in 1..lastId[x.kind]

\* ... and two that speak of one id speak of one line.
Agree(x, y) == x.kind = y.kind /\ x.id = y.id => x.born = y.born

Alike(x, y) == x.kind = y.kind /\ x.id = y.id /\ x.born = y.born

GivenInv ==
    /\ lastId \in [Kinds -> Nat]
    /\ \A r \in rows : IsLine(r) /\ Given(r)
    /\ button = [m \in Taggers |-> button[m]]
    /\ \A m \in Taggers : button[m] # Unset => IsButton(button[m]) /\ Given(button[m])
    /\ \A p \in patches : Given(p) /\ p.by \in Taggers

AgreeInv ==
    \A r \in rows :
        /\ \A q \in rows : Agree(r, q)
        /\ \A m \in Taggers : button[m] # Unset => Agree(r, button[m])
        /\ \A p \in patches : Agree(r, p)

TagInv == GivenInv /\ AgreeInv

\* Steps that make no new line.
LEMMA NoNewLine ==
    ASSUME TagInv, lastId' = lastId,
           \A r \in rows' : IsLine(r) /\ \E q \in rows : Alike(r, q),
           button' = [m \in Taggers |-> button'[m]],
           \A m \in Taggers : button'[m] # Unset =>
              IsButton(button'[m]) /\ ((button[m] # Unset /\ Alike(button'[m], button[m]))
                                       \/ \E q \in rows : Alike(button'[m], q)),
           \A p \in patches' : /\ p.by \in Taggers
                               /\ \/ p \in patches
                                  \/ \E m \in Taggers : button[m] # Unset /\ Alike(p, button[m])
    PROVE  TagInv'
<1>1. \A r \in rows' : Given(r)'
  BY DEF TagInv, GivenInv, Given, Alike
<1>2. \A m \in Taggers : button'[m] # Unset => Given(button[m])'
  BY DEF TagInv, GivenInv, Given, Alike
<1>3. \A p \in patches' : Given(p)'
  BY DEF TagInv, GivenInv, Given, Alike
<1>4. GivenInv'
  BY <1>1, <1>2, <1>3 DEF TagInv, GivenInv
<1>5. \A r \in rows' : \A q \in rows' : Agree(r, q)
  BY DEF TagInv, AgreeInv, Agree, Alike
<1>6. \A r \in rows' : \A m \in Taggers : button'[m] # Unset => Agree(r, button'[m])
  BY DEF TagInv, AgreeInv, Agree, Alike
<1>7. \A r \in rows' : \A p \in patches' : Agree(r, p)
  BY DEF TagInv, AgreeInv, Agree, Alike
<1>8. AgreeInv'
  BY <1>5, <1>6, <1>7 DEF AgreeInv
<1>9. QED
  BY <1>4, <1>8 DEF TagInv

\* A new line has an id that nobody speaks of yet.
LEMMA NewLine ==
    ASSUME TagInv, NEW line \in TaggedLines, line.kind \in Kinds, LogLine(line)
    PROVE  TagInv'
<1> DEFINE k == line.kind
<1>0. PICK n : n = 1 + lastId[k]
  OBVIOUS
<1>1. PICK b : rows' = rows \cup {[kind |-> k, id |-> n, line |-> line, born |-> b,
                                   tags |-> {}, wasted |-> Unset, by |-> Unset]}
  BY <1>0, Zenon DEF LogLine, NextId
<1>2. UNCHANGED <<button, patches>> /\ lastId' = [lastId EXCEPT ![k] = @ + 1]
  BY DEF LogLine
<1> DEFINE new == [kind |-> k, id |-> n, line |-> line, born |-> b,
                   tags |-> {}, wasted |-> Unset, by |-> Unset]
<1>3. IsLine(new) /\ new.kind = k /\ new.id = 1 + lastId[k] /\ rows' = rows \cup {new}
  BY <1>0, <1>1 DEF IsLine
<1> HIDE DEF new
<1>4. k \in Kinds /\ lastId[k] \in Nat /\ lastId'[k] = lastId[k] + 1
  BY <1>2 DEF TagInv, GivenInv
<1>5. \A j \in Kinds : lastId'[j] \in Nat /\ lastId'[j] >= lastId[j]
  BY <1>2, <1>4 DEF TagInv, GivenInv
<1>6. ASSUME NEW x, Given(x) PROVE Given(x)' /\ ~(x.kind = k /\ x.id = 1 + lastId[k])
  BY <1>4, <1>5, <1>6 DEF Given, TagInv, GivenInv
<1>7. Given(new)'
  BY <1>3, <1>4 DEF Given
<1>8. GivenInv'
  BY <1>2, <1>3, <1>6, <1>7 DEF TagInv, GivenInv
<1>9. AgreeInv'
  BY <1>2, <1>3, <1>6 DEF TagInv, GivenInv, AgreeInv, Agree
<1>10. QED
  BY <1>8, <1>9 DEF TagInv

\* Steps on one line that leave it the line it is, or take it away.
LEMMA LineChanged ==
    ASSUME TagInv, NEW r \in rows, NEW x, rows' \subseteq (rows \ {r}) \cup {x},
           x \in rows' => IsLine(x) /\ Alike(x, r), UNCHANGED <<lastId, button, patches>>
    PROVE  TagInv'
<1>1. \A q \in rows' : IsLine(q) /\ \E s \in rows : Alike(q, s)
  BY DEF TagInv, GivenInv, Alike
<1>2. \A m \in Taggers : button'[m] # Unset => IsButton(button'[m]) /\ button[m] # Unset /\ Alike(button'[m], button[m])
  BY DEF TagInv, GivenInv, Alike
<1>3. \A p \in patches' : p.by \in Taggers /\ p \in patches
  BY DEF TagInv, GivenInv
<1>4. button' = [m \in Taggers |-> button'[m]]
  BY DEF TagInv, GivenInv
<1>5. QED
  BY <1>1, <1>2, <1>3, <1>4, NoNewLine

LEMMA EditKeeps ==
    ASSUME TagInv, NEW r \in rows, NEW cost, NEW w, DeleteLine(r) \/ EditLine(r, cost, w) \/ ClockOut(r)
    PROVE  TagInv'
<1>1. /\ r = [kind |-> r.kind, id |-> r.id, line |-> r.line, born |-> r.born,
              tags |-> r.tags, wasted |-> r.wasted, by |-> r.by]
      /\ IsLine(r)
  BY DEF TagInv, GivenInv, IsLine
<1>2. CASE DeleteLine(r)
  BY <1>1, <1>2, LineChanged DEF DeleteLine, Alike
<1>3. ASSUME NEW line, rows' = (rows \ {r}) \cup {[r EXCEPT !.line = line]},
             UNCHANGED <<lastId, button, patches>>
      PROVE  TagInv'
  <2> DEFINE x == [r EXCEPT !.line = line]
  <2>1. x = [kind |-> r.kind, id |-> r.id, line |-> line, born |-> r.born,
             tags |-> r.tags, wasted |-> r.wasted, by |-> r.by]
    BY <1>1
  <2> HIDE DEF x
  <2>2. IsLine(x) /\ Alike(x, r)
    BY <2>1 DEF IsLine, Alike
  <2>3. QED
    BY <1>3, <2>2, LineChanged DEF x
<1>4. CASE EditLine(r, cost, w)
  <2>1. [r EXCEPT !.line.cost = cost, !.line.wo = w]
          = [r EXCEPT !.line = [r.line EXCEPT !.cost = cost, !.wo = w]]
    BY <1>1
  <2>2. QED
    BY <1>3, <1>4, <2>1 DEF EditLine
<1>5. CASE ClockOut(r)
  <2>1. [r EXCEPT !.line.open = FALSE] = [r EXCEPT !.line = [r.line EXCEPT !.open = FALSE]]
    BY <1>1
  <2>2. QED
    BY <1>3, <1>5, <2>1 DEF ClockOut
<1>6. QED
  BY <1>2, <1>4, <1>5

LEMMA SheetStepKeeps ==
    ASSUME TagInv, NEW m \in Taggers, NEW r \in rows, NEW priced, Draw(m, r, priced)
    PROVE  TagInv'
<1>1. PICK b : /\ b = [kind |-> r.kind, id |-> r.id, born |-> r.born, tags |-> r.tags,
                       wasted |-> r.wasted,
                       amount |-> IF priced /\ r.kind # "wo" THEN r.line.cost ELSE Unset]
               /\ button' = [button EXCEPT ![m] = b]
               /\ UNCHANGED <<rows, lastId, patches>>
  BY DEF Draw
<1>2. IsButton(b) /\ Alike(b, r)
  BY <1>1 DEF IsButton, Alike
<1>3. button = [k \in Taggers |-> button[k]]
  BY DEF TagInv, GivenInv
<1>4. /\ button' = [k \in Taggers |-> button'[k]]
      /\ \A k \in Taggers : button'[k] = IF k = m THEN b ELSE button[k]
  BY <1>1, <1>3
<1>5. \A q \in rows' : IsLine(q) /\ \E s \in rows : Alike(q, s)
  BY <1>1 DEF TagInv, GivenInv, Alike
<1>6. \A p \in patches' : p.by \in Taggers /\ p \in patches
  BY <1>1 DEF TagInv, GivenInv
<1>7. \A k \in Taggers : button'[k] # Unset =>
         IsButton(button'[k]) /\ ((button[k] # Unset /\ Alike(button'[k], button[k]))
                                  \/ \E q \in rows : Alike(button'[k], q))
  BY <1>2, <1>4 DEF TagInv, GivenInv, Alike
<1>8. QED
  BY <1>1, <1>4, <1>5, <1>6, <1>7, NoNewLine

LEMMA SendKeepsTags ==
    ASSUME TagInv, NEW m \in Taggers, NEW tags, NEW typed, SaveTags(m, tags, typed)
    PROVE  TagInv'
<1>0. PICK w : patches' = patches \cup {[by |-> m, kind |-> button[m].kind, id |-> button[m].id,
                                         born |-> button[m].born, tags |-> tags, wasted |-> w]}
  BY Zenon DEF SaveTags
<1>1. PICK x : /\ x.kind = button[m].kind /\ x.id = button[m].id /\ x.born = button[m].born
               /\ x.by = m /\ patches' = patches \cup {x}
  BY <1>0
<1>2. button[m] # Unset /\ UNCHANGED <<rows, lastId, button>>
  BY DEF SaveTags
<1>3. \A q \in rows' : IsLine(q) /\ \E s \in rows : Alike(q, s)
  BY <1>2 DEF TagInv, GivenInv, Alike
<1>4. \A k \in Taggers : button'[k] # Unset => IsButton(button'[k]) /\ button[k] # Unset /\ Alike(button'[k], button[k])
  BY <1>2 DEF TagInv, GivenInv, Alike
<1>5. \A p \in patches' : /\ p.by \in Taggers
                          /\ \/ p \in patches
                             \/ \E k \in Taggers : button[k] # Unset /\ Alike(p, button[k])
  BY <1>1, <1>2 DEF TagInv, GivenInv, Alike
<1>6. button' = [k \in Taggers |-> button'[k]]
  BY <1>2 DEF TagInv, GivenInv
<1>7. QED
  BY <1>2, <1>3, <1>4, <1>5, <1>6, NoNewLine

LEMMA PatchKeeps ==
    ASSUME TagInv, NEW p \in patches, Patch(p) \/ Lose(p)
    PROVE  TagInv'
<1>1. lastId' = lastId /\ patches' \subseteq patches
  BY DEF Patch, Lose
<1>2. \A x \in patches' : x.by \in Taggers /\ x \in patches
  BY <1>1 DEF TagInv, GivenInv
<1>3. \A q \in rows' : IsLine(q) /\ \E s \in rows : Alike(q, s)
  <2>1. ASSUME NEW q \in rows PROVE IsLine(q) /\ \E s \in rows : Alike(q, s)
    BY DEF TagInv, GivenInv, Alike
  <2>2. ASSUME NEW r \in rows
        PROVE  IsLine(Retagged(r, p)) /\ Alike(Retagged(r, p), r)
    <3>1. r = [kind |-> r.kind, id |-> r.id, line |-> r.line, born |-> r.born,
               tags |-> r.tags, wasted |-> r.wasted, by |-> r.by]
      BY DEF TagInv, GivenInv, IsLine
    <3>2. ASSUME NEW t, NEW w, NEW b
          PROVE  [r EXCEPT !.tags = t, !.wasted = w, !.by = b]
                   = [kind |-> r.kind, id |-> r.id, line |-> r.line, born |-> r.born,
                      tags |-> t, wasted |-> w, by |-> b]
      <4> DEFINE r1 == [r EXCEPT !.tags = t]
                 r2 == [r1 EXCEPT !.wasted = w]
      <4>1. [r EXCEPT !.tags = t, !.wasted = w, !.by = b] = [r2 EXCEPT !.by = b]
        OBVIOUS
      <4>2. r1 = [kind |-> r.kind, id |-> r.id, line |-> r.line, born |-> r.born,
                  tags |-> t, wasted |-> r.wasted, by |-> r.by]
        BY <3>1
      <4> HIDE DEF r1
      <4>3. r2 = [kind |-> r.kind, id |-> r.id, line |-> r.line, born |-> r.born,
                  tags |-> t, wasted |-> w, by |-> r.by]
        BY <4>2
      <4> HIDE DEF r2
      <4>4. QED
        BY <4>1, <4>3
    <3>3. PICK w, b : Retagged(r, p) = [r EXCEPT !.tags = p.tags, !.wasted = w, !.by = b]
      BY Zenon DEF Retagged
    <3>4. Retagged(r, p) = [kind |-> r.kind, id |-> r.id, line |-> r.line, born |-> r.born,
                              tags |-> p.tags, wasted |-> w, by |-> b]
      BY <3>2, <3>3
    <3>5. QED
      BY <3>4 DEF IsLine, Alike
  <2>3. \A q \in rows' : q \in rows \/ \E r \in rows : q = Retagged(r, p)
    BY DEF Patch, Lose, Matches
  <2>4. QED
    BY <2>1, <2>2, <2>3
<1>4. /\ button' = [k \in Taggers |-> button'[k]]
      /\ \A k \in Taggers : button'[k] # Unset =>
            IsButton(button'[k]) /\ button[k] # Unset /\ Alike(button'[k], button[k])
  <2>0. button = [k \in Taggers |-> button[k]]
    BY DEF TagInv, GivenInv
  <2>1. CASE button' = button
    BY <2>0, <2>1 DEF TagInv, GivenInv, Alike
  <2>2. CASE button[p.by] # Unset /\ button' = [button EXCEPT ![p.by].tags = p.tags]
    <3> DEFINE b == button[p.by]
               new == [b EXCEPT !.tags = p.tags]
    <3>1. p.by \in Taggers /\ b = [kind |-> b.kind, id |-> b.id, born |-> b.born, tags |-> b.tags,
                                    wasted |-> b.wasted, amount |-> b.amount]
      BY <2>2 DEF TagInv, GivenInv, IsButton
    <3>2. new = [kind |-> b.kind, id |-> b.id, born |-> b.born, tags |-> p.tags,
                 wasted |-> b.wasted, amount |-> b.amount]
      BY <3>1
    <3>3. button' = [button EXCEPT ![p.by] = new]
      BY <2>2
    <3> HIDE DEF new
    <3>4. IsButton(new) /\ Alike(new, b)
      BY <3>2 DEF IsButton, Alike
    <3>5. \A k \in Taggers : button'[k] = IF k = p.by THEN new ELSE button[k]
      BY <2>0, <3>3
    <3>6. button' = [k \in Taggers |-> button'[k]]
      BY <2>0, <3>3
    <3>7. QED
      BY <2>2, <3>4, <3>5, <3>6 DEF TagInv, GivenInv, Alike
  <2>3. QED
    BY <2>1, <2>2 DEF Patch, Lose, Redrawn
<1>5. QED
  BY <1>1, <1>2, <1>3, <1>4, NoNewLine

LEMMA TagInvStep ==
    ASSUME TagInv, [TagNext]_tagVars
    PROVE  TagInv'
<1>1. CASE UNCHANGED tagVars
  BY <1>1 DEF tagVars, TagInv, GivenInv, AgreeInv, Given
<1>2. ASSUME NEW line \in TaggedLines, LogLine(line) PROVE TagInv'
  BY <1>2, NewLine, LinesAssumption
<1>3. ASSUME NEW r \in rows, NEW cost, NEW w, DeleteLine(r) \/ EditLine(r, cost, w) \/ ClockOut(r)
      PROVE  TagInv'
  BY <1>3, EditKeeps
<1>4. ASSUME NEW m \in Taggers, NEW r \in rows, NEW priced, Draw(m, r, priced) PROVE TagInv'
  BY <1>4, SheetStepKeeps
<1>5. ASSUME NEW m \in Taggers, NEW tags, NEW typed, SaveTags(m, tags, typed) PROVE TagInv'
  BY <1>5, SendKeepsTags
<1>6. ASSUME NEW p \in patches, Patch(p) \/ Lose(p) PROVE TagInv'
  BY <1>6, PatchKeeps
<1>7. QED
  BY <1>1, <1>2, <1>3, <1>4, <1>5, <1>6 DEF TagNext

\* A late PATCH never lands on a line its author had not in front of him: for
\* any lines and managers, and however many of them are deleted, pulled anew
\* and tagged meanwhile.
THEOREM TagsStayOnTheirLine == TagSpec => TagOnSeenLine
<1>1. TagInit => TagInv
  BY DEF TagInit, TagInv, GivenInv, AgreeInv
<1>2. TagInv /\ [TagNext]_tagVars => TagInv'
  BY TagInvStep
<1>3. TagInv /\ [TagNext]_tagVars =>
        [\A p \in patches \ patches' :
          \A r \in rows : r \notin rows' /\ r.kind = p.kind /\ r.id = p.id => r.born = p.born]_tagVars
  BY DEF TagInv, AgreeInv, Agree
<1>4. QED
  BY <1>1, <1>2, <1>3, PTL DEF TagSpec, TagOnSeenLine

\* What a line costs and what of it is taken for wasted.
Worth(x) == x = Unset \/ x \in Nat

LineType == [kind : Kinds, wo : DOMAIN TypeOf \cup {Unset}, mode : STRING, open : BOOLEAN, cost : Nat]

PriceInv ==
    /\ IsFiniteSet(rows)
    /\ \A r \in rows : r.line \in LineType /\ Worth(r.wasted) /\ r.tags \subseteq Reasons
    /\ \A m \in Taggers : button[m] # Unset => Worth(button[m].wasted) /\ Worth(button[m].amount)
    /\ \A p \in patches : Worth(p.wasted) /\ p.tags \subseteq Reasons

LEMMA LogKeepsPrices ==
    ASSUME PriceInv, NEW line \in TaggedLines, LogLine(line)
    PROVE  PriceInv'
<1>1. PICK k, n, b : rows' = rows \cup {[kind |-> k, id |-> n, line |-> line, born |-> b,
                                         tags |-> {}, wasted |-> Unset, by |-> Unset]}
  BY Zenon DEF LogLine
<1>2. PICK new : new = [kind |-> k, id |-> n, line |-> line, born |-> b,
                        tags |-> {}, wasted |-> Unset, by |-> Unset]
  OBVIOUS
<1>3. new.line \in LineType /\ Worth(new.wasted) /\ new.tags \subseteq Reasons
  BY <1>2, LinesAssumption DEF LineType, Worth
<1>4. IsFiniteSet(rows')
  BY <1>1, <1>2, FS_AddElement DEF PriceInv
<1>5. UNCHANGED <<button, patches>>
  BY DEF LogLine
<1>6. QED
  BY <1>1, <1>2, <1>3, <1>4, <1>5 DEF PriceInv

\* One line changes its cost, its clock or its order, or goes.
LEMMA OneLineKeepsPrices ==
    ASSUME PriceInv, GivenInv, NEW r \in rows, NEW line \in LineType,
           rows' \subseteq (rows \ {r}) \cup {[r EXCEPT !.line = line]},
           UNCHANGED <<button, patches>>
    PROVE  PriceInv'
<1>1. r = [kind |-> r.kind, id |-> r.id, line |-> r.line, born |-> r.born,
           tags |-> r.tags, wasted |-> r.wasted, by |-> r.by]
  BY DEF GivenInv, IsLine
<1>2. PICK x : x = [r EXCEPT !.line = line]
  OBVIOUS
<1>3. x.line = line /\ x.wasted = r.wasted /\ x.tags = r.tags
  BY <1>1, <1>2
<1>4. IsFiniteSet((rows \ {r}) \cup {x})
  <2>1. IsFiniteSet(rows \ {r})
    BY FS_Subset DEF PriceInv
  <2>2. QED
    BY <2>1, FS_AddElement
<1>5. IsFiniteSet(rows')
  BY <1>2, <1>4, FS_Subset
<1>6. QED
  BY <1>2, <1>3, <1>5 DEF PriceInv

LEMMA EditKeepsPrices ==
    ASSUME PriceInv, GivenInv, NEW r \in rows, NEW cost \in Amounts, NEW w \in DOMAIN TypeOf,
           EditLine(r, cost, w)
    PROVE  PriceInv'
<1>1. r = [kind |-> r.kind, id |-> r.id, line |-> r.line, born |-> r.born,
           tags |-> r.tags, wasted |-> r.wasted, by |-> r.by]
  BY DEF GivenInv, IsLine
<1>2. PICK l : l = r.line
  OBVIOUS
<1>3. l \in LineType /\ l = [kind |-> l.kind, wo |-> l.wo, mode |-> l.mode, open |-> l.open, cost |-> l.cost]
  BY <1>2 DEF PriceInv, LineType
<1>4. PICK m : m = [kind |-> l.kind, wo |-> w, mode |-> l.mode, open |-> l.open, cost |-> cost]
  OBVIOUS
<1>5. m \in LineType
  BY <1>3, <1>4, LinesAssumption DEF LineType
<1>6. [r EXCEPT !.line.cost = cost, !.line.wo = w] = [r EXCEPT !.line = m]
  <2>1. [r EXCEPT !.line.cost = cost, !.line.wo = w]
          = [r EXCEPT !.line = [l EXCEPT !.cost = cost, !.wo = w]]
    BY <1>1, <1>2
  <2>2. PICK c : c = [kind |-> l.kind, wo |-> l.wo, mode |-> l.mode, open |-> l.open, cost |-> cost]
    OBVIOUS
  <2>3. [l EXCEPT !.cost = cost] = c
    BY <1>3, <2>2
  <2>4. [c EXCEPT !.wo = w] = m
    BY <1>4, <2>2
  <2>5. [l EXCEPT !.cost = cost, !.wo = w] = [[l EXCEPT !.cost = cost] EXCEPT !.wo = w]
    BY <1>3
  <2>6. QED
    BY <2>1, <2>3, <2>4, <2>5
<1>7. QED
  BY <1>5, <1>6, OneLineKeepsPrices DEF EditLine

LEMMA DrawKeepsPrices ==
    ASSUME PriceInv, GivenInv, NEW m \in Taggers, NEW r \in rows, NEW priced, Draw(m, r, priced)
    PROVE  PriceInv'
<1>1. PICK b : /\ b = [kind |-> r.kind, id |-> r.id, born |-> r.born, tags |-> r.tags,
                       wasted |-> r.wasted,
                       amount |-> IF priced /\ r.kind # "wo" THEN r.line.cost ELSE Unset]
               /\ button' = [button EXCEPT ![m] = b]
               /\ UNCHANGED <<rows, lastId, patches>>
  BY DEF Draw
<1>2. Worth(b.wasted) /\ Worth(b.amount)
  BY <1>1 DEF PriceInv, LineType, Worth
<1>3. \A k \in Taggers : button'[k] = IF k = m THEN b ELSE button[k]
  BY <1>1 DEF GivenInv
<1>4. QED
  BY <1>1, <1>2, <1>3 DEF PriceInv

LEMMA SaveKeepsPrices ==
    ASSUME PriceInv, NEW m \in Taggers, NEW tags \in SUBSET Reasons, NEW typed, SaveTags(m, tags, typed)
    PROVE  PriceInv'
<1>1. PICK b : b = button[m]
  OBVIOUS
<1>2. PICK p : /\ p = [by |-> m, kind |-> b.kind, id |-> b.id, born |-> b.born, tags |-> tags,
                       wasted |-> IF b.amount = Unset \/ b.amount = 0 THEN Unset ELSE Lesser(typed, b.amount)]
               /\ patches' = patches \cup {p}
  BY <1>1 DEF SaveTags
<1>3. b # Unset /\ typed \in Amounts \cup {Prefilled(b)} /\ UNCHANGED <<rows, button>>
  BY <1>1 DEF SaveTags
<1>4. typed \in Nat
  <2>1. Worth(b.wasted)
    BY <1>1, <1>3 DEF PriceInv
  <2>2. Prefilled(b) \in Nat
    BY <2>1 DEF Prefilled, Worth
  <2>3. QED
    BY <1>3, <2>2, LinesAssumption
<1>5. Worth(p.wasted) /\ p.tags \subseteq Reasons
  BY <1>1, <1>2, <1>3, <1>4 DEF PriceInv, Lesser, Worth
<1>6. QED
  BY <1>2, <1>3, <1>5 DEF PriceInv

LEMMA PatchKeepsPrices ==
    ASSUME PriceInv, GivenInv, NEW p \in patches, Patch(p) \/ Lose(p)
    PROVE  PriceInv'
<1>1. patches' \subseteq patches
  BY DEF Patch, Lose
<1>2. ASSUME NEW r \in rows
      PROVE  LET x == Retagged(r, p)
             IN  x.line \in LineType /\ Worth(x.wasted) /\ x.tags \subseteq Reasons
  <2>1. r = [kind |-> r.kind, id |-> r.id, line |-> r.line, born |-> r.born,
             tags |-> r.tags, wasted |-> r.wasted, by |-> r.by]
    BY DEF GivenInv, IsLine
  <2>2. PICK w, b : /\ Retagged(r, p) = [r EXCEPT !.tags = p.tags, !.wasted = w, !.by = b]
                    /\ w \in {Unset, p.wasted}
    BY Zenon DEF Retagged
  <2>3. PICK r1 : r1 = [kind |-> r.kind, id |-> r.id, line |-> r.line, born |-> r.born,
                        tags |-> p.tags, wasted |-> r.wasted, by |-> r.by]
    OBVIOUS
  <2>4. PICK r2 : r2 = [kind |-> r.kind, id |-> r.id, line |-> r.line, born |-> r.born,
                        tags |-> p.tags, wasted |-> w, by |-> r.by]
    OBVIOUS
  <2>5. [r EXCEPT !.tags = p.tags] = r1
    BY <2>1, <2>3
  <2>6. [r1 EXCEPT !.wasted = w] = r2
    BY <2>3, <2>4
  <2>7. [r EXCEPT !.tags = p.tags, !.wasted = w, !.by = b] = [r2 EXCEPT !.by = b]
    BY <2>5, <2>6
  <2>8. Retagged(r, p).line = r.line /\ Retagged(r, p).wasted = w /\ Retagged(r, p).tags = p.tags
    BY <2>2, <2>4, <2>7
  <2>9. QED
    BY <2>2, <2>8 DEF PriceInv, Worth
<1>3. IsFiniteSet(rows')
  <2>1. IsFiniteSet(Matches(p)) /\ IsFiniteSet(rows \ Matches(p))
    BY FS_Subset DEF PriceInv, Matches
  <2>2. IsFiniteSet({Retagged(r, p) : r \in Matches(p)})
    <3> PICK f : f = [r \in Matches(p) |-> Retagged(r, p)]
      OBVIOUS
    <3>1. {f[r] : r \in Matches(p)} = {Retagged(r, p) : r \in Matches(p)}
      OBVIOUS
    <3>2. QED
      BY <2>1, <3>1, ImageFinite
  <2>3. IsFiniteSet((rows \ Matches(p)) \cup {Retagged(r, p) : r \in Matches(p)})
    BY <2>1, <2>2, FS_Union
  <2>4. QED
    BY <2>3 DEF Patch, Lose, PriceInv
<1>4. \A r \in rows' : r.line \in LineType /\ Worth(r.wasted) /\ r.tags \subseteq Reasons
  <2>1. \A q \in rows' : q \in rows \/ \E r \in rows : q = Retagged(r, p)
    BY DEF Patch, Lose, Matches
  <2>2. QED
    BY <1>2, <2>1 DEF PriceInv
<1>5. \A m \in Taggers : button'[m] # Unset => Worth(button'[m].wasted) /\ Worth(button'[m].amount)
  <2>1. CASE button' = button
    BY <2>1 DEF PriceInv
  <2>2. CASE button[p.by] # Unset /\ button' = [button EXCEPT ![p.by].tags = p.tags]
    <3>1. PICK b : b = button[p.by]
      OBVIOUS
    <3>2. p.by \in Taggers /\ b = [kind |-> b.kind, id |-> b.id, born |-> b.born, tags |-> b.tags,
                                    wasted |-> b.wasted, amount |-> b.amount]
      BY <2>2, <3>1 DEF GivenInv, IsButton
    <3>3. PICK new : new = [kind |-> b.kind, id |-> b.id, born |-> b.born, tags |-> p.tags,
                            wasted |-> b.wasted, amount |-> b.amount]
      OBVIOUS
    <3>4. [b EXCEPT !.tags = p.tags] = new
      BY <3>2, <3>3
    <3>5. button' = [button EXCEPT ![p.by] = new]
      BY <2>2, <3>1, <3>4
    <3>6. \A k \in Taggers : button'[k] = IF k = p.by THEN new ELSE button[k]
      BY <3>5 DEF GivenInv
    <3>7. Worth(new.wasted) /\ Worth(new.amount)
      BY <2>2, <3>1, <3>2, <3>3 DEF PriceInv
    <3>8. QED
      BY <3>6, <3>7 DEF PriceInv
  <2>3. QED
    BY <2>1, <2>2 DEF Patch, Lose, Redrawn
<1>6. QED
  BY <1>1, <1>3, <1>4, <1>5 DEF PriceInv

LEMMA PriceInvStep ==
    ASSUME PriceInv, GivenInv, [TagNext]_tagVars
    PROVE  PriceInv'
<1>1. CASE UNCHANGED tagVars
  BY <1>1 DEF PriceInv, tagVars
<1>2. ASSUME NEW line \in TaggedLines, LogLine(line) PROVE PriceInv'
  BY <1>2, LogKeepsPrices
<1>3. ASSUME NEW r \in rows, DeleteLine(r) \/ ClockOut(r) PROVE PriceInv'
  <2>1. r.line \in LineType /\ r.line = [kind |-> r.line.kind, wo |-> r.line.wo, mode |-> r.line.mode,
                                         open |-> r.line.open, cost |-> r.line.cost]
    BY DEF PriceInv, LineType
  <2>2. r = [kind |-> r.kind, id |-> r.id, line |-> r.line, born |-> r.born,
             tags |-> r.tags, wasted |-> r.wasted, by |-> r.by]
    BY DEF GivenInv, IsLine
  <2>3. CASE DeleteLine(r)
    BY <2>1, <2>3, OneLineKeepsPrices DEF DeleteLine
  <2>4. CASE ClockOut(r)
    <3>0. PICK shut : shut = FALSE
      OBVIOUS
    <3>1. PICK m : m = [kind |-> r.line.kind, wo |-> r.line.wo, mode |-> r.line.mode,
                        open |-> shut, cost |-> r.line.cost]
      OBVIOUS
    <3>2. m \in LineType
      BY <2>1, <3>0, <3>1 DEF LineType
    <3>3. PICK l : l = r.line
      OBVIOUS
    <3>4. l = [kind |-> l.kind, wo |-> l.wo, mode |-> l.mode, open |-> l.open, cost |-> l.cost]
          /\ m = [kind |-> l.kind, wo |-> l.wo, mode |-> l.mode, open |-> shut, cost |-> l.cost]
      BY <2>1, <3>1, <3>3
    <3>5. [l EXCEPT !.open = shut] = m
      BY <3>4
    <3>6. [r EXCEPT !.line.open = FALSE] = [r EXCEPT !.line = m]
      <4>1. [r EXCEPT !.line.open = shut] = [r EXCEPT !.line = m]
        BY <2>2, <3>3, <3>5
      <4>2. QED
        BY <3>0, <4>1
    <3>7. QED
      BY <2>4, <3>2, <3>6, OneLineKeepsPrices DEF ClockOut
  <2>5. QED
    BY <1>3, <2>3, <2>4
<1>4. ASSUME NEW r \in rows, NEW cost \in Amounts, NEW w \in DOMAIN TypeOf, EditLine(r, cost, w) PROVE PriceInv'
  BY <1>4, EditKeepsPrices
<1>5. ASSUME NEW m \in Taggers, NEW r \in rows, NEW priced, Draw(m, r, priced) PROVE PriceInv'
  BY <1>5, DrawKeepsPrices
<1>6. ASSUME NEW m \in Taggers, NEW tags \in SUBSET Reasons, NEW typed, SaveTags(m, tags, typed) PROVE PriceInv'
  BY <1>6, SaveKeepsPrices
<1>7. ASSUME NEW p \in patches, Patch(p) \/ Lose(p) PROVE PriceInv'
  BY <1>7, PatchKeepsPrices
<1>8. QED
  BY <1>1, <1>2, <1>3, <1>4, <1>5, <1>6, <1>7 DEF TagNext

\* The sums of the summary are sums over lines that each cost what they waste, at least.
LEMMA WasteAndCost ==
    ASSUME PriceInv, NEW S \in SUBSET rows
    PROVE  /\ IsFiniteSet(S)
           /\ \A r \in S : Waste(r) \in Nat /\ r.line.cost \in Nat /\ Waste(r) <= r.line.cost
           /\ WasteOf(S) = SumFunctionOnSet([r \in rows |-> Waste(r)], S) /\ WasteOf(S) \in Nat
           /\ CostOf(S) = SumFunctionOnSet([r \in rows |-> r.line.cost], S) /\ CostOf(S) \in Nat
           /\ WasteOf(S) <= CostOf(S)
<1>1. IsFiniteSet(S)
  BY FS_Subset DEF PriceInv
<1>2. \A r \in rows : Waste(r) \in Nat /\ r.line.cost \in Nat /\ Waste(r) <= r.line.cost
  BY DEF PriceInv, LineType, Waste, Worth, Lesser
<1>3. PICK W : W = [r \in rows |-> Waste(r)]
  OBVIOUS
<1>4. PICK K : K = [r \in rows |-> r.line.cost]
  OBVIOUS
<1>5. PICK w : w = [r \in S |-> Waste(r)]
  OBVIOUS
<1>6. PICK k : k = [r \in S |-> r.line.cost]
  OBVIOUS
<1>7. \A r \in S : W[r] \in Nat /\ K[r] \in Nat /\ W[r] <= K[r] /\ w[r] = W[r] /\ k[r] = K[r]
  BY <1>2, <1>3, <1>4, <1>5, <1>6
<1>8. SumFunction(w) = SumFunctionOnSet(W, S)
  BY <1>1, <1>5, <1>7, SumWithin
<1>9. SumFunction(k) = SumFunctionOnSet(K, S)
  BY <1>1, <1>6, <1>7, SumWithin
<1>10. /\ SumFunctionOnSet(W, S) \in Nat /\ SumFunctionOnSet(K, S) \in Nat
       /\ SumFunctionOnSet(W, S) <= SumFunctionOnSet(K, S)
  BY <1>1, <1>7, SumNat, SumMonotone
<1>11. WasteOf(S) = SumFunction(w) /\ CostOf(S) = SumFunction(k)
  BY <1>5, <1>6 DEF WasteOf, CostOf
<1>12. QED
  BY <1>1, <1>2, <1>3, <1>4, <1>8, <1>9, <1>10, <1>11

\* What is wasted of the classes of a partition of the priced lines.
LEMMA BreakdownExplains ==
    ASSUME PriceInv, NEW key, NEW g, DOMAIN g = {key[r] : r \in Priced},
           \A k \in DOMAIN g : g[k] = WasteOf({r \in Priced : key[r] = k})
    PROVE  SumFunction(g) = TotalWasted
<1>1. Priced \in SUBSET rows
  BY DEF Priced, Tagged
<1>2. PICK W : W = [r \in rows |-> Waste(r)]
  OBVIOUS
<1>3. IsFiniteSet(Priced) /\ \A r \in Priced : W[r] \in Nat
  BY <1>1, <1>2, WasteAndCost
<1>4. PICK K : K = {key[r] : r \in Priced}
  OBVIOUS
<1>5. IsFiniteSet(K)
  BY <1>3, <1>4, ImageFinite
<1>p. PICK part : part = [k \in K |-> {r \in Priced : key[r] = k}]
  OBVIOUS
<1>6. \A k \in K : g[k] = SumFunctionOnSet(W, part[k])
  <2> SUFFICES ASSUME NEW k \in K PROVE g[k] = SumFunctionOnSet(W, part[k])
    OBVIOUS
  <2>1. PICK S : S = {r \in Priced : key[r] = k} /\ S = part[k]
    BY <1>p
  <2>2. S \in SUBSET rows
    BY <1>1, <2>1
  <2>3. WasteOf(S) = SumFunctionOnSet(W, S)
    BY <1>2, <2>2, WasteAndCost
  <2>4. QED
    BY <1>4, <2>1, <2>3
<1>7. (\A r \in Priced : key[r] \in K) /\ Parts(part, key, Priced, K)
  BY <1>4, <1>p DEF Parts
<1>8. SumFunctionOnSet(g, K) = SumFunctionOnSet(W, Priced)
  BY <1>3, <1>5, <1>6, <1>7, SumPartition
<1>9. SumFunction(g) = SumFunctionOnSet(g, K)
  BY <1>4, Zenon DEF SumFunction
<1>10. QED
  BY <1>1, <1>2, <1>8, <1>9, WasteAndCost DEF TotalWasted

LEMMA SliceHolds ==
    ASSUME PriceInv, GivenInv
    PROVE  SliceWithinTotal
<1>1. Priced \in SUBSET rows
  BY DEF Priced, Tagged
<1>2. TotalActual >= 0
  <2>1. WasteOf(Priced) \in Nat /\ CostOf(Priced) \in Nat /\ WasteOf(Priced) <= CostOf(Priced)
    BY <1>1, WasteAndCost
  <2>2. QED
    BY <2>1 DEF TotalActual, TotalOriginal, TotalWasted
<1>3. SumFunction([t \in {TypeOfLine(r) : r \in Priced} |-> ByWorkType(t)]) = TotalWasted
  <2>1. PICK key : key = [r \in rows |-> TypeOfLine(r)]
    OBVIOUS
  <2>2. PICK g : g = [t \in {TypeOfLine(r) : r \in Priced} |-> ByWorkType(t)]
    OBVIOUS
  <2>3. \A r \in Priced : key[r] = TypeOfLine(r)
    BY <1>1, <2>1
  <2>4. DOMAIN g = {key[r] : r \in Priced}
    BY <2>2, <2>3
  <2>5. \A t : {r \in Priced : TypeOfLine(r) = t} = {r \in Priced : key[r] = t}
    BY <2>3
  <2>6. \A t \in DOMAIN g : g[t] = WasteOf({r \in Priced : key[r] = t})
    BY <2>2, <2>5 DEF ByWorkType
  <2>7. QED
    BY <2>2, <2>4, <2>6, BreakdownExplains
<1>4. SumFunction([s \in {StoreOfLine(r) : r \in Priced} |-> ByStore(s)]) = TotalWasted
  <2>1. PICK key : key = [r \in rows |-> StoreOfLine(r)]
    OBVIOUS
  <2>2. PICK g : g = [s \in {StoreOfLine(r) : r \in Priced} |-> ByStore(s)]
    OBVIOUS
  <2>3. \A r \in Priced : key[r] = StoreOfLine(r)
    BY <1>1, <2>1
  <2>4. DOMAIN g = {key[r] : r \in Priced}
    BY <2>2, <2>3
  <2>5. \A s : {r \in Priced : StoreOfLine(r) = s} = {r \in Priced : key[r] = s}
    BY <2>3
  <2>6. \A s \in DOMAIN g : g[s] = WasteOf({r \in Priced : key[r] = s})
    BY <2>2, <2>5 DEF ByStore
  <2>7. QED
    BY <2>2, <2>4, <2>6, BreakdownExplains
<1>5. SumFunction([reason \in Reasons |-> ByTag(reason)]) >= TotalWasted
  <2>1. PICK W : W = [r \in rows |-> Waste(r)]
    OBVIOUS
  <2>2. PICK g : g = [reason \in Reasons |-> ByTag(reason)]
    OBVIOUS
  <2>3. PICK C : C = [reason \in Reasons |-> {r \in Priced : reason \in r.tags}]
    OBVIOUS
  <2>4. IsFiniteSet(Priced) /\ \A r \in Priced : W[r] \in Nat
    BY <1>1, <2>1, WasteAndCost
  <2>5. \A k \in Reasons : C[k] \in SUBSET Priced
    BY <2>3
  <2>6. \A r \in Priced : \E k \in Reasons : r \in C[k]
    <3> SUFFICES ASSUME NEW r \in Priced PROVE \E k \in Reasons : r \in C[k]
      OBVIOUS
    <3>1. r.tags # {} /\ r.tags \subseteq Reasons
      BY DEF Priced, Tagged, PriceInv
    <3>2. QED
      BY <2>3, <3>1
  <2>7. \A k \in Reasons : g[k] = SumFunctionOnSet(W, C[k])
    <3> SUFFICES ASSUME NEW k \in Reasons PROVE g[k] = SumFunctionOnSet(W, C[k])
      OBVIOUS
    <3>1. C[k] \in SUBSET rows
      BY <1>1, <2>5
    <3>2. g[k] = WasteOf(C[k])
      BY <2>2, <2>3 DEF ByTag
    <3>3. QED
      BY <2>1, <3>1, <3>2, WasteAndCost
  <2>8. SumFunctionOnSet(g, Reasons) >= SumFunctionOnSet(W, Priced)
    BY <2>4, <2>5, <2>6, <2>7, LinesAssumption, SumCovered
  <2>9. SumFunction(g) = SumFunctionOnSet(g, Reasons)
    BY <2>2, Zenon DEF SumFunction
  <2>10. QED
    BY <1>1, <2>1, <2>2, <2>8, <2>9, WasteAndCost DEF TotalWasted
<1>6. ASSUME NEW w \in DOMAIN ByWorkOrder, \A r \in Priced \cap Of(w) : r.kind = "entry" => Counts(r)
      PROVE  ByWorkOrder[w].unplanned <= ByWorkOrder[w].total
  <2>1. PICK S : S = {r \in Priced \cap Of(w) : InSlice(r)}
    OBVIOUS
  <2>2. PICK T : T = {r \in Of(w) : Counts(r)}
    OBVIOUS
  <2>3. T \in SUBSET rows /\ S \in SUBSET T
    <3>1. ASSUME NEW r \in S PROVE Counts(r)
      <4>1. r \in Priced \cap Of(w) /\ InSlice(r) /\ r.kind \in Kinds /\ r.kind # "wo"
        BY <1>1, <2>1 DEF Priced, GivenInv, Given
      <4>2. QED
        BY <1>6, <4>1 DEF Kinds, InSlice, Counts
    <3>2. QED
      BY <2>1, <2>2, <3>1 DEF Of
  <2>4. WasteOf(S) <= CostOf(S) /\ WasteOf(S) \in Nat /\ CostOf(S) \in Nat
    BY <2>3, WasteAndCost
  <2>5. CostOf(S) <= CostOf(T) /\ CostOf(T) \in Nat
    <3>1. PICK K : K = [r \in rows |-> r.line.cost]
      OBVIOUS
    <3>2. IsFiniteSet(T) /\ \A r \in T : K[r] \in Nat
      BY <2>3, <3>1, WasteAndCost
    <3>3. SumFunctionOnSet(K, S) <= SumFunctionOnSet(K, T)
      BY <2>3, <3>2, SumSubset
    <3>4. QED
      BY <2>3, <3>1, <3>3, WasteAndCost
  <2>6. ByWorkOrder[w].unplanned = WasteOf(S) /\ ByWorkOrder[w].total = CostOf(T)
    BY <2>1, <2>2 DEF ByWorkOrder, TotalCost
  <2>7. QED
    BY <2>4, <2>5, <2>6
<1>7. QED
  BY <1>2, <1>3, <1>4, <1>5, <1>6 DEF SliceWithinTotal

(* What leadership reads of unplanned work adds up, for any lines, reasons   *)
(* and managers and whatever is edited after the tagging: GET                *)
(* /unplanned/summary, which cuts the wasted part to today's cost.           *)
THEOREM WasteWithinCost == TagSpec => []SliceWithinTotal
<1>1. TagInit => TagInv /\ PriceInv
  BY FS_EmptySet DEF TagInit, TagInv, GivenInv, AgreeInv, PriceInv
<1>2. (TagInv /\ PriceInv) /\ [TagNext]_tagVars => (TagInv /\ PriceInv)'
  BY TagInvStep, PriceInvStep DEF TagInv
<1>3. TagInv /\ PriceInv => SliceWithinTotal
  BY SliceHolds DEF TagInv
<1>4. QED
  BY <1>1, <1>2, <1>3, PTL DEF TagSpec

-----------------------------------------------------------------------------
(* Computation and policy *)

SpendInv ==
    /\ lines \subseteq LineChoices /\ IsFiniteSet(lines)
    /\ rate \in Nat
    /\ budgets \in [WorkOrders \X Categories -> Caps \cup {None}]

LEMMA SpendInvStep ==
    ASSUME SpendInv, [Next]_vars
    PROVE  SpendInv'
<1>1. CASE UNCHANGED vars
  BY <1>1 DEF SpendInv, vars, policy
<1>2. ASSUME NEW l \in LineChoices, Log(l) \/ Unlog(l) PROVE SpendInv'
  <2>1. IsFiniteSet(lines \cup {l}) /\ IsFiniteSet(lines \ {l})
    BY FS_AddElement, FS_Subset DEF SpendInv
  <2>2. QED
    BY <1>2, <2>1 DEF Log, Unlog, SpendInv, policy
<1>3. ASSUME NEW r \in Rates, SetRate(r) PROVE SpendInv'
  BY <1>3, PolicyAssumption DEF SetRate, SpendInv, policy
<1>4. ASSUME NEW i, NEW manager, NEW noted, Submit(i, manager, noted) PROVE SpendInv'
  BY <1>4 DEF Submit, SpendInv, policy
<1>5. ASSUME NEW r, ToggleRule(r) PROVE SpendInv'
  BY <1>5 DEF ToggleRule, SpendInv
<1>6. ASSUME NEW t, NEW h, SetBaseline(t, h) PROVE SpendInv'
  BY <1>6 DEF SetBaseline, SpendInv
<1>7. ASSUME NEW c, NEW a, SetCap(c, a) \/ SetReceipt(c, a) PROVE SpendInv'
  BY <1>7 DEF SetCap, SetReceipt, SpendInv
<1>8. ASSUME NEW w \in WorkOrders, NEW c \in Categories, NEW a \in Caps \cup {None}, SetBudget(w, c, a)
      PROVE  SpendInv'
  BY <1>8 DEF SetBudget, SpendInv
<1>9. ASSUME NEW k, Archive(k) \/ Unarchive(k) \/ Charge(k) PROVE SpendInv'
  BY <1>9 DEF Archive, Unarchive, Charge, SpendInv, policy
<1>10. ASSUME NEW m, NEW x, NEW y, EditCharge(m, x, y) \/ DeleteCharge(m, x) PROVE SpendInv'
  BY <1>10 DEF EditCharge, DeleteCharge, SpendInv, policy
<1>11. QED
  BY <1>1, <1>2, <1>3, <1>4, <1>5, <1>6, <1>7, <1>8, <1>9, <1>10 DEF Next

\* A category is over its budget on the invoice only if it is over it anywhere:
\* the invoice's expenses are some of everybody's.
LEMMA OverBudgetEverywhere ==
    ASSUME SpendInv, NEW i \in Invoices, NEW w \in OnInvoice(i), NEW c \in Categories,
           budgets[<<w, c>>] # None, Spend(c, w, Line(i, w)) > budgets[<<w, c>>]
    PROVE  <<w, c>> \in OverBudget
<1>1. w \in WorkOrders
  <2>1. OnInvoice(i) \subseteq {l.wo : l \in lines}
    BY DEF OnInvoice, Counted, LinesOf, Entries, Expenses
  <2>2. QED
    BY <2>1, PolicyAssumption DEF SpendInv
<1>2. PICK b : b = budgets[<<w, c>>]
  OBVIOUS
<1>3. b \in Nat
  BY <1>1, <1>2, PolicyAssumption DEF SpendInv
<1>4. PICK all : all = {l \in Expenses(lines) : l.wo = w}
  OBVIOUS
<1>5. Spend(c, w, all) > b
  <2>1. CASE c.source = "corp_card"
    BY <1>2, <2>1 DEF Spend
  <2>2. CASE c.source # "corp_card"
    <3>1. PICK S : S = {l \in Expenses(Line(i, w)) : l.subcategory = c.key}
      OBVIOUS
    <3>2. PICK T : T = {l \in Expenses(all) : l.subcategory = c.key}
      OBVIOUS
    <3>3. S \in SUBSET T /\ T \in SUBSET lines
      BY <1>4, <3>1, <3>2 DEF Line, Counted, LinesOf, Expenses, Entries
    <3>4. IsFiniteSet(S) /\ IsFiniteSet(T)
      BY <3>3, FS_Subset DEF SpendInv
    <3>5. \A l \in T : l.amount \in Nat
      BY <3>2, <3>3, PolicyAssumption DEF Expenses, SpendInv
    <3>6. PICK M : M = [l \in T |-> l.amount]
      OBVIOUS
    <3>7. PICK f : f = [l \in S |-> l.amount]
      OBVIOUS
    <3>8. \A l \in T : M[l] \in Nat
      BY <3>5, <3>6
    <3>9. \A l \in S : f[l] \in Nat /\ f[l] = M[l]
      BY <3>3, <3>5, <3>6, <3>7
    <3>10. SumFunction(M) = SumFunctionOnSet(M, T)
      BY <3>6, Zenon DEF SumFunction
    <3>11. SumFunction(f) = SumFunctionOnSet(M, S)
      BY <3>4, <3>7, <3>9, SumWithin
    <3>12. SumFunction(f) <= SumFunction(M) /\ SumFunction(f) \in Nat /\ SumFunction(M) \in Nat
      BY <3>3, <3>4, <3>8, <3>10, <3>11, SumSubset, SumNat
    <3>13. Spend(c, w, Line(i, w)) = SumFunction(f) /\ Spend(c, w, all) = SumFunction(M)
      BY <2>2, <3>1, <3>2, <3>6, <3>7, Zenon DEF Spend
    <3>14. QED
      BY <1>2, <1>3, <3>12, <3>13
  <2>3. QED
    BY <2>1, <2>2
<1>6. QED
  BY <1>1, <1>2, <1>4, <1>5 DEF OverBudget

LEMMA BudgetFlagsMean ==
    ASSUME NEW i, NEW w, NEW c,
           [rule |-> "wo_category_budget", severity |-> "flag", category |-> c] \in Flags(i, w)
    PROVE  c \in Categories /\ budgets[<<w, c>>] # None /\ Spend(c, w, Line(i, w)) > budgets[<<w, c>>]
<1> PICK f : f = [rule |-> "wo_category_budget", severity |-> "flag", category |-> c]
  OBVIOUS
<1>1. f.rule = "wo_category_budget" /\ f.category = c /\ "category" \in DOMAIN f
  OBVIOUS
<1>2. f \notin CustomFlags(w, Line(i, w))
  BY <1>1 DEF CustomFlags
<1>3. f \notin ReceiptFlags(Line(i, w)) /\ f \notin BaselineFlags(w, Line(i, w))
  BY <1>1 DEF ReceiptFlags, BaselineFlags
<1>4. f \in BudgetFlags(w, Line(i, w))
  BY <1>2, <1>3 DEF Flags
<1>5. QED
  BY <1>1, <1>4 DEF BudgetFlags

LEMMA FlagsDeserved ==
    ASSUME SpendInv
    PROVE  FlagsAreDeserved
<1>1. FlaggedIsOverBudget
  BY BudgetFlagsMean, OverBudgetEverywhere DEF FlaggedIsOverBudget
<1>2. OverrunsFlagged
  <2> SUFFICES ASSUME NEW i \in Invoices, NEW w \in OnInvoice(i),
                      baseline[WorkTypeOf[w]] > 0 /\ CartsOf[w] > 0,
                      LaborHours(Line(i, w)) * 10 > baseline[WorkTypeOf[w]] * CartsOf[w],
                      \A r \in rules : r.work_type_filter \notin {None, WorkTypeOf[w]}
               PROVE  Flags(i, w) # {}
    BY Zenon DEF OverrunsFlagged
  <2>1. ~\E r \in rules : r.rule_type \in HoursRules /\ Applies(r, w)
    BY DEF Applies
  <2>2. BaselineFlags(w, Line(i, w)) = {[rule |-> "baseline_hours_per_10_carts", severity |-> "flag"]}
    BY <2>1, Zenon DEF BaselineFlags
  <2>3. QED
    BY <2>2, Zenon DEF Flags
<1>3. QED
  BY <1>1, <1>2 DEF FlagsAreDeserved

(* Whatever managers set and whatever lines move, a line flagged for its     *)
(* budget is over budget on the dashboard, and hours beyond the baseline are *)
(* flagged where no rule of a manager covers them: evaluateBudgets, GET      *)
(* /category-dashboard, and the baselines of computeInvoice.                 *)
THEOREM FlagsHold == Spec => []FlagsAreDeserved
<1>1. Init => SpendInv
  BY PolicyAssumption, FS_EmptySet DEF Init, SpendInv
<1>2. SpendInv /\ [Next]_vars => SpendInv'
  BY SpendInvStep
<1>3. SpendInv => FlagsAreDeserved
  BY FlagsDeserved
<1>4. QED
  BY <1>1, <1>2, <1>3, PTL DEF Spec

-----------------------------------------------------------------------------
(* Totals *)

\* What a line comes to, in hundredths of a cent.
Due == [l \in LineChoices |-> Amount(l, rate)]

\* Sums of lines, in the three parts that are rounded apart.
LabourOf(G) == {l \in G : IsLabor(l)}
DriveOf(G) == {l \in G : IsDrive(l)}
RestOf(G) == {l \in Expenses(G) : ~IsLabor(l) /\ ~IsDrive(l)}

LEMMA LineAmounts ==
    ASSUME rate \in Nat
    PROVE  \A l \in LineChoices : Due[l] \in Nat /\ Due[l] = Amount(l, rate)
<1> SUFFICES ASSUME NEW l \in LineChoices PROVE Amount(l, rate) \in Nat
  BY DEF Due
<1>1. CASE l.kind = "entry"
  <2>1. l.hours \in Nat
    BY <1>1, PolicyAssumption
  <2>2. PICK h \in Nat : h = l.hours
    BY <2>1
  <2>3. h * rate \in Nat
    OBVIOUS
  <2>4. QED
    BY <1>1, <2>2, <2>3 DEF Amount
<1>2. CASE l.kind # "entry"
  BY <1>2, PolicyAssumption DEF Amount
<1>3. QED
  BY <1>1, <1>2

LEMMA SumOfLines ==
    ASSUME rate \in Nat, NEW G \in SUBSET LineChoices, IsFiniteSet(G)
    PROVE  Sum(G, rate) = SumFunctionOnSet(Due, G) /\ Sum(G, rate) \in Nat
<1>1. PICK f : f = [l \in G |-> Amount(l, rate)]
  OBVIOUS
<1>2. \A l \in G : f[l] \in Nat /\ Due[l] \in Nat /\ f[l] = Due[l]
  BY <1>1, LineAmounts
<1>3. SumFunction(f) = SumFunctionOnSet(Due, G) /\ SumFunctionOnSet(Due, G) \in Nat
  BY <1>1, <1>2, SumWithin, SumNat
<1>4. QED
  BY <1>1, <1>3, Zenon DEF Sum

\* Expenses are whole cents: dividing their sum loses nothing.
LEMMA SumOfExpenses ==
    ASSUME rate \in Nat, NEW G \in SUBSET LineChoices, IsFiniteSet(G), \A l \in G : l.kind = "expense",
           NEW M, \A l \in G : M[l] = l.amount
    PROVE  /\ Sum(G, rate) \div 100 = SumFunctionOnSet(M, G)
           /\ Sum(G, rate) = 100 * SumFunctionOnSet(M, G)
           /\ SumFunctionOnSet(M, G) \in Nat
<1>1. \A l \in G : M[l] \in Nat /\ Due[l] = 100 * M[l]
  BY PolicyAssumption DEF Due, Amount
<1>2. SumFunctionOnSet(Due, G) = 100 * SumFunctionOnSet(M, G) /\ SumFunctionOnSet(M, G) \in Nat
  BY <1>1, SumHundredfold, SumNat
<1>3. PICK n \in Nat : n = SumFunctionOnSet(M, G)
  BY <1>2
<1>4. (100 * n) \div 100 = n
  OBVIOUS
<1>5. QED
  BY <1>2, <1>3, <1>4, SumOfLines

\* Labour, drives and the other expenses are all of it.
LEMMA ThreeParts ==
    ASSUME NEW G \in SUBSET LineChoices
    PROVE  /\ G = (LabourOf(G) \cup DriveOf(G)) \cup RestOf(G)
           /\ LabourOf(G) \cap DriveOf(G) = {}
           /\ (LabourOf(G) \cup DriveOf(G)) \cap RestOf(G) = {}
           /\ \A l \in RestOf(G) : l.kind = "expense"
BY PolicyAssumption DEF LabourOf, DriveOf, RestOf, Expenses, IsLabor, IsDrive

LEMMA GroupNear ==
    ASSUME rate \in Nat, NEW G \in SUBSET LineChoices, IsFiniteSet(G)
    PROVE  /\ GroupTotal(G, rate) \in Nat
           /\ 100 * GroupTotal(G, rate) <= SumFunctionOnSet(Due, G) + 100
           /\ SumFunctionOnSet(Due, G) <= 100 * GroupTotal(G, rate) + 100
<1>1. PICK A, D, R : A = LabourOf(G) /\ D = DriveOf(G) /\ R = RestOf(G)
  OBVIOUS
<1>2. /\ A \in SUBSET LineChoices /\ D \in SUBSET LineChoices /\ R \in SUBSET LineChoices
      /\ IsFiniteSet(A) /\ IsFiniteSet(D) /\ IsFiniteSet(R)
  <2>1. A \in SUBSET G /\ D \in SUBSET G /\ R \in SUBSET G
    BY <1>1 DEF LabourOf, DriveOf, RestOf, Expenses
  <2>2. QED
    BY <2>1, FS_Subset
<1>3. G = (A \cup D) \cup R /\ A \cap D = {} /\ (A \cup D) \cap R = {} /\ \A l \in R : l.kind = "expense"
  BY <1>1, ThreeParts
<1>4. /\ SumFunctionOnSet(Due, A \cup D) = SumFunctionOnSet(Due, A) + SumFunctionOnSet(Due, D)
      /\ SumFunctionOnSet(Due, G) = SumFunctionOnSet(Due, A \cup D) + SumFunctionOnSet(Due, R)
  <2>1. \A l \in G : Due[l] \in Nat
    BY LineAmounts
  <2>2. IsFiniteSet(A \cup D)
    BY <1>2, FS_Union
  <2>3. SumFunctionOnSet(Due, A \cup D) = SumFunctionOnSet(Due, A) + SumFunctionOnSet(Due, D)
    BY <1>2, <1>3, <2>1, SumUnion
  <2>4. SumFunctionOnSet(Due, (A \cup D) \cup R) = SumFunctionOnSet(Due, A \cup D) + SumFunctionOnSet(Due, R)
    BY <1>2, <1>3, <2>1, <2>2, SumUnion
  <2>5. QED
    BY <1>3, <2>3, <2>4
<1>5. PICK a, d, r : a = Sum(A, rate) /\ d = Sum(D, rate) /\ r = Sum(R, rate)
  OBVIOUS
<1>6. /\ a = SumFunctionOnSet(Due, A) /\ d = SumFunctionOnSet(Due, D) /\ r = SumFunctionOnSet(Due, R)
      /\ a \in Nat /\ d \in Nat /\ r \in Nat
  BY <1>2, <1>5, SumOfLines
<1>7. r \div 100 \in Nat /\ r = 100 * (r \div 100)
  <2>1. PICK M : M = [l \in R |-> l.amount]
    OBVIOUS
  <2>2. \A l \in R : M[l] = l.amount
    BY <2>1
  <2>3. QED
    BY <1>2, <1>3, <1>5, <2>2, SumOfExpenses
<1>8. GroupTotal(G, rate) = Cents(a) + Cents(d) + (r \div 100)
  BY <1>1, <1>5, Zenon DEF GroupTotal, LabourOf, DriveOf, RestOf
<1>9. ASSUME NEW x \in Nat PROVE Cents(x) \in Nat /\ 100 * Cents(x) <= x + 50 /\ x <= 100 * Cents(x) + 50
  BY DEF Cents
<1>10. /\ Cents(a) \in Nat /\ 100 * Cents(a) <= a + 50 /\ a <= 100 * Cents(a) + 50
       /\ Cents(d) \in Nat /\ 100 * Cents(d) <= d + 50 /\ d <= 100 * Cents(d) + 50
  BY <1>6, <1>9
<1>11. PICK q \in Nat : q = r \div 100
  BY <1>7
<1>12. QED
  BY <1>4, <1>6, <1>7, <1>8, <1>10, <1>11

\* A breakdown by any key is within a cent per group of what the lines come to.
LEMMA BreakdownNear ==
    ASSUME rate \in Nat, NEW C \in SUBSET LineChoices, IsFiniteSet(C),
           NEW K, IsFiniteSet(K), NEW D \in SUBSET K, NEW key, \A l \in C : key[l] \in D,
           NEW part, Parts(part, key, C, D),
           NEW g, \A k \in D : g[k] = GroupTotal(part[k], rate)
    PROVE  /\ SumFunctionOnSet(g, D) * 100 <= Sum(C, rate) + 100 * Cardinality(K)
           /\ Sum(C, rate) <= SumFunctionOnSet(g, D) * 100 + 100 * Cardinality(K)
<1>1. IsFiniteSet(D) /\ Cardinality(D) <= Cardinality(K) /\ Cardinality(D) \in Nat /\ Cardinality(K) \in Nat
  BY FS_Subset, FS_CardinalityType
<1>2. PICK h : h = [k \in D |-> SumFunctionOnSet(Due, part[k])]
  OBVIOUS
<1>3. \A k \in D : h[k] = SumFunctionOnSet(Due, part[k])
  BY <1>2
<1>4. \A k \in D : g[k] \in Nat /\ h[k] \in Nat /\ 100 * g[k] <= h[k] + 100 /\ h[k] <= 100 * g[k] + 100
  <2> SUFFICES ASSUME NEW k \in D
               PROVE  g[k] \in Nat /\ h[k] \in Nat /\ 100 * g[k] <= h[k] + 100 /\ h[k] <= 100 * g[k] + 100
    OBVIOUS
  <2>1. PICK G : G = part[k]
    OBVIOUS
  <2>2. G \in SUBSET LineChoices /\ IsFiniteSet(G)
    <3>1. G \in SUBSET C
      BY <2>1 DEF Parts
    <3>2. QED
      BY <3>1, FS_Subset
  <2>3. g[k] = GroupTotal(G, rate) /\ h[k] = SumFunctionOnSet(Due, G)
    BY <1>3, <2>1
  <2>4. SumFunctionOnSet(Due, G) \in Nat
    BY <2>2, SumOfLines
  <2>5. QED
    BY <2>2, <2>3, <2>4, GroupNear
<1>5. /\ 100 * SumFunctionOnSet(g, D) <= SumFunctionOnSet(h, D) + 100 * Cardinality(D)
      /\ SumFunctionOnSet(h, D) <= 100 * SumFunctionOnSet(g, D) + 100 * Cardinality(D)
  BY <1>1, <1>4, SumNear
<1>6. SumFunctionOnSet(g, D) \in Nat /\ SumFunctionOnSet(h, D) \in Nat
  BY <1>1, <1>4, SumNat
<1>7. SumFunctionOnSet(h, D) = SumFunctionOnSet(Due, C)
  <2>1. \A l \in C : Due[l] \in Nat
    BY LineAmounts
  <2>2. QED
    BY <1>1, <1>3, <2>1, SumPartition
<1>8. SumFunctionOnSet(Due, C) = Sum(C, rate)
  BY SumOfLines
<1>9. QED
  BY <1>1, <1>5, <1>6, <1>7, <1>8

\* Rounded per work order over the work orders that have such lines, or over all.
LEMMA PerWorkOrder ==
    ASSUME rate \in Nat, NEW C \in SUBSET LineChoices, IsFiniteSet(C), NEW S \in SUBSET C,
           NEW K, IsFiniteSet(K), NEW D \in SUBSET K, NEW key, \A l \in S : key[l] \in D,
           NEW part, Parts(part, key, S, K),
           NEW a, \A k \in K : a[k] = Cents(Sum(part[k], rate))
    PROVE  /\ SumFunctionOnSet(a, K) = SumFunctionOnSet(a, D)
           /\ SumFunctionOnSet(a, D) \in Nat
           /\ \A k \in K : a[k] \in Nat
<1>1. \A k \in K : a[k] \in Nat
  <2> SUFFICES ASSUME NEW k \in K PROVE a[k] \in Nat
    OBVIOUS
  <2>1. PICK G : G = part[k]
    OBVIOUS
  <2>2. G \in SUBSET LineChoices /\ IsFiniteSet(G)
    <3>1. G \in SUBSET C
      BY <2>1 DEF Parts
    <3>2. QED
      BY <3>1, FS_Subset
  <2>3. PICK x \in Nat : x = Sum(G, rate)
    BY <2>2, SumOfLines
  <2>4. Cents(x) \in Nat
    BY DEF Cents
  <2>5. QED
    BY <2>1, <2>3, <2>4
<1>2. \A k \in K \ D : a[k] = 0
  <2> SUFFICES ASSUME NEW k \in K \ D PROVE a[k] = 0
    OBVIOUS
  <2>1. part[k] = {}
    BY DEF Parts
  <2>2. Sum({}, rate) = 0
    <3>1. {} \in SUBSET LineChoices /\ IsFiniteSet({})
      BY FS_EmptySet
    <3>2. QED
      BY <3>1, SumOfLines, SumEmpty
  <2>3. a[k] = Cents(0)
    BY <2>1, <2>2
  <2>4. QED
    BY <2>3 DEF Cents
<1>3. IsFiniteSet(D)
  BY FS_Subset
<1>4. SumFunctionOnSet(a, K) = SumFunctionOnSet(a, D) /\ SumFunctionOnSet(a, D) \in Nat
  BY <1>1, <1>2, <1>3, SumOfPart, SumNat
<1>5. QED
  BY <1>1, <1>4

\* The fields of the summary of computeInvoice.
SummaryParts ==
    {"labor_amount", "drive_amount", "mileage", "tolls_parking", "meals", "tools", "other"}

LEMMA SumOfSeven ==
    ASSUME NEW p, DOMAIN p = SummaryParts, \A x \in SummaryParts : p[x] \in Nat
    PROVE  SumFunction(p) = p["labor_amount"] + p["drive_amount"] + p["mileage"] + p["tolls_parking"]
                              + p["meals"] + p["tools"] + p["other"]
<1>1. PICK a, b, c, d, e, m, o :
         /\ p["labor_amount"] = a /\ p["drive_amount"] = b /\ p["mileage"] = c /\ p["tolls_parking"] = d
         /\ p["meals"] = e /\ p["tools"] = m /\ p["other"] = o
  OBVIOUS
<1>2. /\ p["labor_amount"] = a /\ p["drive_amount"] = b /\ p["mileage"] = c /\ p["tolls_parking"] = d
      /\ p["meals"] = e /\ p["tools"] = m /\ p["other"] = o
      /\ a \in Nat /\ b \in Nat /\ c \in Nat /\ d \in Nat /\ e \in Nat /\ m \in Nat /\ o \in Nat
  BY <1>1 DEF SummaryParts
<1>3. PICK s1, s2, s3, s4, s5, s6, s7 :
         /\ s1 = {} \cup {"labor_amount"} /\ s2 = s1 \cup {"drive_amount"} /\ s3 = s2 \cup {"mileage"}
         /\ s4 = s3 \cup {"tolls_parking"} /\ s5 = s4 \cup {"meals"} /\ s6 = s5 \cup {"tools"}
         /\ s7 = s6 \cup {"other"}
  OBVIOUS
<1>4. s7 = DOMAIN p
  BY <1>3 DEF SummaryParts
<1>5. \A x \in s7 : p[x] \in Nat
  BY <1>2, <1>3
<1>6. IsFiniteSet(s1) /\ SumFunctionOnSet(p, s1) = a
  <2>1. SumFunctionOnSet(p, {} \cup {"labor_amount"}) = p["labor_amount"] + SumFunctionOnSet(p, {})
    BY <1>2, FS_EmptySet, SumAdd
  <2>2. QED
    BY <1>2, <1>3, <2>1, SumEmpty, FS_EmptySet, FS_AddElement
<1>7. IsFiniteSet(s2) /\ SumFunctionOnSet(p, s2) = a + b
  <2>1. SumFunctionOnSet(p, s2) = b + SumFunctionOnSet(p, s1)
    <3>1. "drive_amount" \notin s1 /\ \A x \in s1 : p[x] \in Nat
      BY <1>3, <1>5
    <3>2. QED
      BY <1>2, <1>3, <1>6, <3>1, SumAdd
  <2>2. QED
    BY <1>2, <1>3, <1>6, <2>1, FS_AddElement
<1>8. IsFiniteSet(s3) /\ SumFunctionOnSet(p, s3) = a + b + c
  <2>1. SumFunctionOnSet(p, s3) = c + SumFunctionOnSet(p, s2)
    <3>1. "mileage" \notin s2 /\ \A x \in s2 : p[x] \in Nat
      BY <1>3, <1>5
    <3>2. QED
      BY <1>2, <1>3, <1>7, <3>1, SumAdd
  <2>2. QED
    BY <1>2, <1>3, <1>7, <2>1, FS_AddElement
<1>9. IsFiniteSet(s4) /\ SumFunctionOnSet(p, s4) = a + b + c + d
  <2>1. SumFunctionOnSet(p, s4) = d + SumFunctionOnSet(p, s3)
    <3>1. "tolls_parking" \notin s3 /\ \A x \in s3 : p[x] \in Nat
      BY <1>3, <1>5
    <3>2. QED
      BY <1>2, <1>3, <1>8, <3>1, SumAdd
  <2>2. QED
    BY <1>2, <1>3, <1>8, <2>1, FS_AddElement
<1>10. IsFiniteSet(s5) /\ SumFunctionOnSet(p, s5) = a + b + c + d + e
  <2>1. SumFunctionOnSet(p, s5) = e + SumFunctionOnSet(p, s4)
    <3>1. "meals" \notin s4 /\ \A x \in s4 : p[x] \in Nat
      BY <1>3, <1>5
    <3>2. QED
      BY <1>2, <1>3, <1>9, <3>1, SumAdd
  <2>2. QED
    BY <1>2, <1>3, <1>9, <2>1, FS_AddElement
<1>11. IsFiniteSet(s6) /\ SumFunctionOnSet(p, s6) = a + b + c + d + e + m
  <2>1. SumFunctionOnSet(p, s6) = m + SumFunctionOnSet(p, s5)
    <3>1. "tools" \notin s5 /\ \A x \in s5 : p[x] \in Nat
      BY <1>3, <1>5
    <3>2. QED
      BY <1>2, <1>3, <1>10, <3>1, SumAdd
  <2>2. QED
    BY <1>2, <1>3, <1>10, <2>1, FS_AddElement
<1>12. SumFunctionOnSet(p, s7) = a + b + c + d + e + m + o
  <2>1. SumFunctionOnSet(p, s7) = o + SumFunctionOnSet(p, s6)
    <3>1. "other" \notin s6 /\ \A x \in s6 : p[x] \in Nat
      BY <1>3, <1>5
    <3>2. QED
      BY <1>2, <1>3, <1>11, <3>1, SumAdd
  <2>2. QED
    BY <1>2, <1>11, <2>1
<1>13. SumFunction(p) = a + b + c + d + e + m + o
  BY <1>4, <1>12, Zenon DEF SumFunction
<1>14. QED
  BY <1>1, <1>13

\* The expenses, as the summary sorts them.
MileageOf(E) == {l \in E : l.category \in {"mileage"}}
TollsOf(E) == {l \in E : l.category \in {"tolls", "parking"}}
OtherNamed(E, sub) == {l \in {k \in E : k.category \in {"other"}} : l.subcategory = sub}
RemainderOf(E) ==
    {l \in E : l.category \in {"vendor", "other"}} \ (OtherNamed(E, "Meal") \cup OtherNamed(E, "Tools"))

LEMMA RestSorted ==
    ASSUME NEW E, IsFiniteSet(E), E \in SUBSET LineChoices, \A l \in E : l.kind = "expense",
           NEW M, \A l \in E : M[l] \in Nat,
           NEW R, \A l : l \in R <=> l \in E /\ ~IsLabor(l) /\ ~IsDrive(l)
    PROVE  SumFunctionOnSet(M, R)
             = SumFunctionOnSet(M, MileageOf(E)) + SumFunctionOnSet(M, TollsOf(E))
               + SumFunctionOnSet(M, OtherNamed(E, "Meal")) + SumFunctionOnSet(M, OtherNamed(E, "Tools"))
               + SumFunctionOnSet(M, RemainderOf(E))
<1>0. PICK A, B, C, D, F : /\ A = MileageOf(E) /\ B = TollsOf(E) /\ C = OtherNamed(E, "Meal")
                           /\ D = OtherNamed(E, "Tools") /\ F = RemainderOf(E)
  OBVIOUS
<1>1. R = (((A \cup B) \cup C) \cup D) \cup F
  BY <1>0, PolicyAssumption
     DEF IsLabor, IsDrive, ExpenseCategories, MileageOf, TollsOf, OtherNamed, RemainderOf
<1>2. /\ A \cap B = {} /\ (A \cup B) \cap C = {} /\ ((A \cup B) \cup C) \cap D = {}
      /\ (((A \cup B) \cup C) \cup D) \cap F = {}
  BY <1>0 DEF MileageOf, TollsOf, OtherNamed, RemainderOf
<1>3. A \in SUBSET E /\ B \in SUBSET E /\ C \in SUBSET E /\ D \in SUBSET E /\ F \in SUBSET E
  BY <1>0 DEF MileageOf, TollsOf, OtherNamed, RemainderOf
<1>4. \A S, T \in SUBSET E : S \cap T = {} =>
         SumFunctionOnSet(M, S \cup T) = SumFunctionOnSet(M, S) + SumFunctionOnSet(M, T)
  <2> SUFFICES ASSUME NEW S \in SUBSET E, NEW T \in SUBSET E, S \cap T = {}
               PROVE  SumFunctionOnSet(M, S \cup T) = SumFunctionOnSet(M, S) + SumFunctionOnSet(M, T)
    OBVIOUS
  <2>1. IsFiniteSet(S) /\ IsFiniteSet(T) /\ \A x \in S \cup T : M[x] \in Nat
    BY FS_Subset
  <2>2. QED
    BY <2>1, SumUnion
<1>5. PICK S2, S3, S4 : S2 = A \cup B /\ S3 = S2 \cup C /\ S4 = S3 \cup D
  OBVIOUS
<1>6. S2 \in SUBSET E /\ S3 \in SUBSET E /\ S4 \in SUBSET E
  BY <1>3, <1>5
<1>7. S2 \cap C = {} /\ S3 \cap D = {} /\ S4 \cap F = {}
  BY <1>2, <1>5
<1>8. /\ SumFunctionOnSet(M, S2) = SumFunctionOnSet(M, A) + SumFunctionOnSet(M, B)
      /\ SumFunctionOnSet(M, S3) = SumFunctionOnSet(M, S2) + SumFunctionOnSet(M, C)
      /\ SumFunctionOnSet(M, S4) = SumFunctionOnSet(M, S3) + SumFunctionOnSet(M, D)
      /\ SumFunctionOnSet(M, S4 \cup F) = SumFunctionOnSet(M, S4) + SumFunctionOnSet(M, F)
  BY <1>2, <1>3, <1>4, <1>5, <1>6, <1>7
<1>9. \A S \in SUBSET E : SumFunctionOnSet(M, S) \in Nat
  BY FS_Subset, SumNat
<1>10. SumFunctionOnSet(M, S4 \cup F) = SumFunctionOnSet(M, A) + SumFunctionOnSet(M, B)
          + SumFunctionOnSet(M, C) + SumFunctionOnSet(M, D) + SumFunctionOnSet(M, F)
  BY <1>3, <1>8, <1>9
<1>11. R = S4 \cup F
  BY <1>1, <1>5
<1>12. QED
  BY <1>0, <1>10, <1>11

\* The total of the work order is the total of its labour, its drives and the rest.
LEMMA TotalOfGroup ==
    ASSUME rate \in Nat, NEW G \in SUBSET LineChoices, IsFiniteSet(G),
           NEW M, \A l \in Expenses(G) : M[l] = l.amount,
           NEW A, \A l : l \in A <=> l \in G /\ IsLabor(l),
           NEW D, \A l : l \in D <=> l \in G /\ IsDrive(l),
           NEW R, \A l : l \in R <=> l \in Expenses(G) /\ ~IsLabor(l) /\ ~IsDrive(l)
    PROVE  /\ GroupTotal(G, rate) = Cents(Sum(A, rate)) + Cents(Sum(D, rate)) + SumFunctionOnSet(M, R)
           /\ SumFunctionOnSet(M, R) \in Nat
<1>1. {l \in G : IsLabor(l)} = A /\ {l \in G : IsDrive(l)} = D
      /\ {l \in Expenses(G) : ~IsLabor(l) /\ ~IsDrive(l)} = R
  OBVIOUS
<1>2. GroupTotal(G, rate) = Cents(Sum(A, rate)) + Cents(Sum(D, rate)) + (Sum(R, rate) \div 100)
  BY <1>1, Zenon DEF GroupTotal
<1>3. R \in SUBSET G /\ \A l \in R : l.kind = "expense" /\ M[l] = l.amount
  BY DEF Expenses
<1>4. R \in SUBSET LineChoices /\ IsFiniteSet(R)
  BY <1>3, FS_Subset
<1>5. Sum(R, rate) \div 100 = SumFunctionOnSet(M, R) /\ SumFunctionOnSet(M, R) \in Nat
  BY <1>3, <1>4, SumOfExpenses
<1>6. QED
  BY <1>2, <1>5

\* The parts of the work orders, added up part by part.
LEMMA TotalInParts ==
    ASSUME NEW K, IsFiniteSet(K), NEW a, NEW d, NEW r, NEW t,
           \A k \in K : a[k] \in Nat /\ d[k] \in Nat /\ r[k] \in Nat /\ t[k] = a[k] + d[k] + r[k]
    PROVE  SumFunctionOnSet(t, K) = SumFunctionOnSet(a, K) + SumFunctionOnSet(d, K) + SumFunctionOnSet(r, K)
<1>1. PICK b : b = [k \in K |-> a[k] + d[k]]
  OBVIOUS
<1>2. \A k \in K : a[k] \in Nat /\ d[k] \in Nat /\ b[k] = a[k] + d[k]
  BY <1>1
<1>3. \A k \in K : b[k] \in Nat /\ r[k] \in Nat /\ t[k] = b[k] + r[k]
  BY <1>1
<1>4. SumFunctionOnSet(b, K) = SumFunctionOnSet(a, K) + SumFunctionOnSet(d, K)
  BY <1>2, SumPlus
<1>5. SumFunctionOnSet(t, K) = SumFunctionOnSet(b, K) + SumFunctionOnSet(r, K)
  BY <1>3, SumPlus
<1>6. QED
  BY <1>4, <1>5

\* The parts of the summary are the parts of the work orders, added up another way.
LEMMA SummaryAdds ==
    ASSUME rate \in Nat, NEW L \in SUBSET LineChoices, IsFiniteSet(L)
    PROVE  SumFunction(Summary(L, rate)) = TotalByWorkOrder(L, rate)
<1>1. PICK C, E : C = Counted(L) /\ E = Expenses(L)
  OBVIOUS
<1>2. /\ C \in SUBSET L /\ C \in SUBSET LineChoices /\ E \in SUBSET L /\ E \in SUBSET LineChoices
      /\ Expenses(C) = E /\ \A l \in E : l.kind = "expense"
  BY <1>1 DEF Counted, Entries, Expenses
<1>3. PICK wo : wo = [l \in C |-> l.wo]
  OBVIOUS
<1>4. PICK K : K = {wo[l] : l \in C} /\ K = {l.wo : l \in C}
  BY <1>3
<1>5. IsFiniteSet(C) /\ IsFiniteSet(E) /\ IsFiniteSet(K)
  <2>1. IsFiniteSet(C) /\ IsFiniteSet(E)
    BY <1>2, FS_Subset
  <2>2. IsFiniteSet({wo[l] : l \in C})
    BY <2>1, ImageFinite
  <2>3. QED
    BY <1>4, <2>1, <2>2
<1>6. PICK A, B, R : /\ A = {l \in C : IsLabor(l)} /\ B = {l \in C : IsDrive(l)}
                     /\ R = {l \in E : ~IsLabor(l) /\ ~IsDrive(l)}
  OBVIOUS
<1>7. PICK DA, DB : DA = {l.wo : l \in A} /\ DB = {l.wo : l \in B}
  OBVIOUS
<1>8. PICK pa, pb, pr, pc : /\ pa = [k \in K |-> {l \in A : l.wo = k}]
                            /\ pb = [k \in K |-> {l \in B : l.wo = k}]
                            /\ pr = [k \in K |-> {l \in R : l.wo = k}]
                            /\ pc = [k \in K |-> {l \in C : l.wo = k}]
  OBVIOUS
<1>9. PICK M : M = [l \in LineChoices |-> l.amount]
  OBVIOUS
<1>10. PICK a, b : /\ a = [k \in K |-> Cents(Sum(pa[k], rate))]
                   /\ b = [k \in K |-> Cents(Sum(pb[k], rate))]
  OBVIOUS
<1>11. PICK r, t : /\ r = [k \in K |-> SumFunctionOnSet(M, pr[k])]
                   /\ t = [k \in K |-> GroupTotal(pc[k], rate)]
  OBVIOUS
<1>12. A \in SUBSET C /\ B \in SUBSET C /\ R \in SUBSET C /\ R \in SUBSET E
  BY <1>2, <1>6 DEF Expenses
<1>13. /\ DA \in SUBSET K /\ DB \in SUBSET K /\ IsFiniteSet(DA) /\ IsFiniteSet(DB)
       /\ (\A l \in A : wo[l] \in DA) /\ (\A l \in B : wo[l] \in DB) /\ (\A l \in R : wo[l] \in K)
  <2>1. DA \in SUBSET K /\ DB \in SUBSET K
    BY <1>4, <1>7, <1>12
  <2>2. (\A l \in A : wo[l] \in DA) /\ (\A l \in B : wo[l] \in DB) /\ (\A l \in R : wo[l] \in K)
    BY <1>3, <1>4, <1>7, <1>12
  <2>3. QED
    BY <1>5, <2>1, <2>2, FS_Subset
<1>14. Parts(pa, wo, A, K) /\ Parts(pb, wo, B, K) /\ Parts(pr, wo, R, K) /\ Parts(pc, wo, C, K)
  BY <1>3, <1>8, <1>12 DEF Parts
<1>15. (\A k \in K : a[k] = Cents(Sum(pa[k], rate))) /\ \A k \in K : b[k] = Cents(Sum(pb[k], rate))
  BY <1>10
<1>16. /\ SumFunctionOnSet(a, K) = SumFunctionOnSet(a, DA) /\ SumFunctionOnSet(a, DA) \in Nat
       /\ \A k \in K : a[k] \in Nat
  <2>1. C \in SUBSET LineChoices /\ IsFiniteSet(C) /\ A \in SUBSET C /\ IsFiniteSet(K) /\ DA \in SUBSET K
    BY <1>2, <1>5, <1>12, <1>13
  <2>2. (\A l \in A : wo[l] \in DA) /\ Parts(pa, wo, A, K)
    BY <1>13, <1>14
  <2>3. \A k \in K : a[k] = Cents(Sum(pa[k], rate))
    BY <1>15
  <2>4. QED
    BY <2>1, <2>2, <2>3, PerWorkOrder
<1>17. /\ SumFunctionOnSet(b, K) = SumFunctionOnSet(b, DB) /\ SumFunctionOnSet(b, DB) \in Nat
       /\ \A k \in K : b[k] \in Nat
  <2>1. C \in SUBSET LineChoices /\ IsFiniteSet(C) /\ B \in SUBSET C /\ IsFiniteSet(K) /\ DB \in SUBSET K
    BY <1>2, <1>5, <1>12, <1>13
  <2>2. (\A l \in B : wo[l] \in DB) /\ Parts(pb, wo, B, K)
    BY <1>13, <1>14
  <2>3. \A k \in K : b[k] = Cents(Sum(pb[k], rate))
    BY <1>15
  <2>4. QED
    BY <2>1, <2>2, <2>3, PerWorkOrder
<1>18. \A l \in E : M[l] = l.amount /\ M[l] \in Nat
  BY <1>2, <1>9, PolicyAssumption
<1>19. \A k \in K : r[k] \in Nat /\ t[k] = a[k] + b[k] + r[k]
  <2> SUFFICES ASSUME NEW k \in K PROVE r[k] \in Nat /\ t[k] = a[k] + b[k] + r[k]
    OBVIOUS
  <2>1. pc[k] \in SUBSET C /\ pc[k] \in SUBSET LineChoices /\ IsFiniteSet(pc[k])
    <3>1. pc[k] \in SUBSET C
      BY <1>14 DEF Parts
    <3>2. QED
      BY <1>2, <1>5, <3>1, FS_Subset
  <2>2. \A l : l \in Expenses(pc[k]) <=> l \in E /\ l \in pc[k]
    BY <1>2, <2>1 DEF Expenses
  <2>3. /\ \A l : l \in pa[k] <=> l \in pc[k] /\ IsLabor(l)
        /\ \A l : l \in pb[k] <=> l \in pc[k] /\ IsDrive(l)
    BY <1>6, <1>8
  <2>4. \A l : l \in pr[k] <=> l \in Expenses(pc[k]) /\ ~IsLabor(l) /\ ~IsDrive(l)
    <3>1. \A l : l \in pr[k] <=> l \in R /\ l.wo = k
      BY <1>8
    <3>2. \A l : l \in R <=> l \in E /\ l \in C /\ ~IsLabor(l) /\ ~IsDrive(l)
      BY <1>6, <1>12
    <3>3. \A l : l \in pc[k] <=> l \in C /\ l.wo = k
      BY <1>8
    <3>4. QED
      BY <2>2, <3>1, <3>2, <3>3
  <2>5. \A l \in Expenses(pc[k]) : M[l] = l.amount
    BY <1>18, <2>2
  <2>6. /\ GroupTotal(pc[k], rate) = Cents(Sum(pa[k], rate)) + Cents(Sum(pb[k], rate)) + SumFunctionOnSet(M, pr[k])
        /\ SumFunctionOnSet(M, pr[k]) \in Nat
    BY <2>1, <2>3, <2>4, <2>5, TotalOfGroup
  <2>7. QED
    BY <1>11, <1>15, <2>6
<1>20. SumFunctionOnSet(t, K) = SumFunctionOnSet(a, K) + SumFunctionOnSet(b, K) + SumFunctionOnSet(r, K)
  BY <1>5, <1>16, <1>17, <1>19, TotalInParts
<1>21. SumFunctionOnSet(r, K) = SumFunctionOnSet(M, R)
  <2>1. IsFiniteSet(R) /\ \A l \in R : M[l] \in Nat
    BY <1>5, <1>12, <1>18, FS_Subset
  <2>2. \A k \in K : r[k] = SumFunctionOnSet(M, pr[k])
    BY <1>11
  <2>3. QED
    BY <1>5, <1>13, <1>14, <2>1, <2>2, SumPartition
<1>22. SumFunctionOnSet(M, R)
         = SumFunctionOnSet(M, MileageOf(E)) + SumFunctionOnSet(M, TollsOf(E))
           + SumFunctionOnSet(M, OtherNamed(E, "Meal")) + SumFunctionOnSet(M, OtherNamed(E, "Tools"))
           + SumFunctionOnSet(M, RemainderOf(E))
  <2>1. \A l : l \in R <=> l \in E /\ ~IsLabor(l) /\ ~IsDrive(l)
    BY <1>6
  <2>2. QED
    BY <1>2, <1>5, <1>18, <2>1, RestSorted
<1>23. TotalByWorkOrder(L, rate) = SumFunctionOnSet(t, K)
  <2>1. t = [k \in {l.wo : l \in C} |-> GroupTotal({l \in C : l.wo = k}, rate)]
    BY <1>4, <1>8, <1>11
  <2>2. TotalByWorkOrder(L, rate) = SumFunction(t)
    BY <1>1, <2>1, Zenon DEF TotalByWorkOrder, TotalBy
  <2>3. DOMAIN t = K
    BY <1>11
  <2>4. QED
    BY <2>2, <2>3, Zenon DEF SumFunction
<1>24. PICK f, g : /\ f = [w \in {l.wo : l \in A} |-> Cents(Sum({l \in A : l.wo = w}, rate))]
                   /\ g = [w \in {l.wo : l \in B} |-> Cents(Sum({l \in B : l.wo = w}, rate))]
  OBVIOUS
<1>25. SumFunction(f) = SumFunctionOnSet(a, DA) /\ SumFunction(g) = SumFunctionOnSet(b, DB)
  <2>1. DOMAIN f = DA /\ DOMAIN g = DB
    BY <1>7, <1>24
  <2>2. (\A k \in K : pa[k] = {l \in A : l.wo = k}) /\ \A k \in K : pb[k] = {l \in B : l.wo = k}
    BY <1>8
  <2>3. \A k \in DA : f[k] = Cents(Sum({l \in A : l.wo = k}, rate))
    BY <1>7, <1>24
  <2>4. \A k \in DB : g[k] = Cents(Sum({l \in B : l.wo = k}, rate))
    BY <1>7, <1>24
  <2>5. \A k \in DA : f[k] \in Nat /\ f[k] = a[k]
    BY <1>13, <1>15, <1>16, <2>2, <2>3
  <2>6. \A k \in DB : g[k] \in Nat /\ g[k] = b[k]
    BY <1>13, <1>15, <1>17, <2>2, <2>4
  <2>7. SumFunction(f) = SumFunctionOnSet(a, DA)
    BY <1>13, <2>1, <2>5, SumWithin
  <2>8. SumFunction(g) = SumFunctionOnSet(b, DB)
    BY <1>13, <2>1, <2>6, SumWithin
  <2>9. QED
    BY <2>7, <2>8
<1>26. \A S \in SUBSET E : Sum(S, rate) \div 100 = SumFunctionOnSet(M, S) /\ SumFunctionOnSet(M, S) \in Nat
  <2> SUFFICES ASSUME NEW S \in SUBSET E
               PROVE  Sum(S, rate) \div 100 = SumFunctionOnSet(M, S) /\ SumFunctionOnSet(M, S) \in Nat
    OBVIOUS
  <2>1. S \in SUBSET LineChoices /\ IsFiniteSet(S) /\ (\A l \in S : l.kind = "expense")
        /\ \A l \in S : M[l] = l.amount
    BY <1>2, <1>5, <1>18, FS_Subset
  <2>2. QED
    BY <2>1, SumOfExpenses
<1>27. PICK m1, m2, m3, m4, m5 :
         /\ m1 = SumFunctionOnSet(M, MileageOf(E)) /\ m2 = SumFunctionOnSet(M, TollsOf(E))
         /\ m3 = SumFunctionOnSet(M, OtherNamed(E, "Meal")) /\ m4 = SumFunctionOnSet(M, OtherNamed(E, "Tools"))
         /\ m5 = SumFunctionOnSet(M, RemainderOf(E))
  OBVIOUS
<1>28. /\ m1 \in Nat /\ m2 \in Nat /\ m3 \in Nat /\ m4 \in Nat /\ m5 \in Nat
       /\ Sum(MileageOf(E), rate) \div 100 = m1 /\ Sum(TollsOf(E), rate) \div 100 = m2
       /\ Sum(OtherNamed(E, "Meal"), rate) \div 100 = m3 /\ Sum(OtherNamed(E, "Tools"), rate) \div 100 = m4
       /\ Sum(RemainderOf(E), rate) \div 100 = m5
  <2>1. /\ MileageOf(E) \in SUBSET E /\ TollsOf(E) \in SUBSET E /\ OtherNamed(E, "Meal") \in SUBSET E
        /\ OtherNamed(E, "Tools") \in SUBSET E /\ RemainderOf(E) \in SUBSET E
    BY DEF MileageOf, TollsOf, OtherNamed, RemainderOf
  <2>2. QED
    BY <1>26, <1>27, <2>1
<1>29. Summary(L, rate) = [labor_amount |-> SumFunction(f), drive_amount |-> SumFunction(g),
                           mileage |-> m1, tolls_parking |-> m2, meals |-> m3, tools |-> m4, other |-> m5]
  <2>1. Summary(L, rate) = [labor_amount |-> SumFunction(f), drive_amount |-> SumFunction(g),
                            mileage |-> Sum(MileageOf(E), rate) \div 100,
                            tolls_parking |-> Sum(TollsOf(E), rate) \div 100,
                            meals |-> Sum(OtherNamed(E, "Meal"), rate) \div 100,
                            tools |-> Sum(OtherNamed(E, "Tools"), rate) \div 100,
                            other |-> Sum(RemainderOf(E), rate) \div 100]
    BY <1>1, <1>6, <1>24, Zenon DEF Summary, MileageOf, TollsOf, OtherNamed, RemainderOf
  <2>2. QED
    BY <1>28, <2>1, Zenon
<1>30. SumFunction(Summary(L, rate)) = SumFunction(f) + SumFunction(g) + m1 + m2 + m3 + m4 + m5
  <2>1. PICK x, y : x = SumFunction(f) /\ y = SumFunction(g)
    OBVIOUS
  <2>2. x \in Nat /\ y \in Nat
    BY <1>16, <1>17, <1>25, <2>1
  <2>3. PICK p : p = [labor_amount |-> x, drive_amount |-> y, mileage |-> m1, tolls_parking |-> m2,
                      meals |-> m3, tools |-> m4, other |-> m5]
    OBVIOUS
  <2>4. /\ DOMAIN p = SummaryParts /\ \A z \in SummaryParts : p[z] \in Nat
        /\ p["labor_amount"] = x /\ p["drive_amount"] = y /\ p["mileage"] = m1 /\ p["tolls_parking"] = m2
        /\ p["meals"] = m3 /\ p["tools"] = m4 /\ p["other"] = m5
    BY <1>28, <2>2, <2>3 DEF SummaryParts
  <2>5. SumFunction(p) = x + y + m1 + m2 + m3 + m4 + m5
    BY <2>4, SumOfSeven
  <2>6. Summary(L, rate) = p
    BY <1>29, <2>1, <2>3, Zenon
  <2>7. QED
    BY <2>1, <2>5, <2>6
<1>31. QED
  BY <1>16, <1>17, <1>20, <1>21, <1>22, <1>23, <1>25, <1>27, <1>28, <1>30

LEMMA TotalsOfLines ==
    ASSUME SpendInv
    PROVE  TotalsAgree
<1> SUFFICES ASSUME NEW i \in Invoices, NEW L, L = LinesOf(i), NEW due,
                    due = {l \in L : \/ l.kind = "expense"
                                     \/ /\ l.kind = "entry" /\ ~l.open
                                        /\ (l.mode = "drive" \/ l.source # "app")
                                     \/ /\ l.kind = "entry" /\ ~l.open
                                        /\ \A m \in L : m.kind = "entry" /\ m.wo = l.wo /\ m.mode = "work"
                                               => m.open \/ m.source # "maintainx_sync"},
                    NEW exact, exact = Sum(due, rate)
             PROVE  /\ TotalByWorkOrder(L, rate) * 100 <= exact + 100 * Cardinality({l.wo : l \in L})
                    /\ exact <= TotalByWorkOrder(L, rate) * 100 + 100 * Cardinality({l.wo : l \in L})
                    /\ TotalByDate(L, rate) * 100 <= exact + 100 * Cardinality({l.day : l \in L})
                    /\ exact <= TotalByDate(L, rate) * 100 + 100 * Cardinality({l.day : l \in L})
                    /\ SumFunction(Summary(L, rate)) = TotalByWorkOrder(L, rate)
  BY Zenon DEF TotalsAgree
<1>1. L \in SUBSET LineChoices /\ IsFiniteSet(L) /\ rate \in Nat
  BY FS_Subset DEF LinesOf, SpendInv
<1>2. PICK C : C = Counted(L)
  OBVIOUS
<1>3. due = C /\ C \in SUBSET L
  BY <1>1, <1>2, PolicyAssumption DEF Counted, Entries, Expenses, Superseded
<1>4. exact = Sum(C, rate)
  BY <1>3
<1>5. /\ TotalByWorkOrder(L, rate) * 100 <= exact + 100 * Cardinality({l.wo : l \in L})
      /\ exact <= TotalByWorkOrder(L, rate) * 100 + 100 * Cardinality({l.wo : l \in L})
  <2>1. PICK key : key = [l \in L |-> l.wo]
    OBVIOUS
  <2>2. PICK g : g = [k \in {l.wo : l \in C} |-> GroupTotal({l \in C : l.wo = k}, rate)]
    OBVIOUS
  <2>3. PICK K, D : K = {l.wo : l \in L} /\ D = {l.wo : l \in C}
    OBVIOUS
  <2>4. PICK part : part = [k \in D |-> {l \in C : l.wo = k}]
    OBVIOUS
  <2>5. D \in SUBSET K /\ IsFiniteSet(K) /\ (\A l \in C : key[l] \in D) /\ Parts(part, key, C, D)
    <3>1. D \in SUBSET K /\ (\A l \in C : key[l] \in D) /\ Parts(part, key, C, D)
      BY <1>3, <2>1, <2>3, <2>4 DEF Parts
    <3>2. K = {key[l] : l \in L}
      BY <2>1, <2>3
    <3>3. IsFiniteSet({key[l] : l \in L})
      BY <1>1, ImageFinite
    <3>4. QED
      BY <3>1, <3>2, <3>3
  <2>6. DOMAIN g = D /\ \A k \in D : g[k] = GroupTotal(part[k], rate)
    BY <2>2, <2>3, <2>4
  <2>0. SumFunction(g) = SumFunctionOnSet(g, D)
    BY <2>6, Zenon DEF SumFunction
  <2>7. /\ SumFunction(g) * 100 <= Sum(C, rate) + 100 * Cardinality(K)
        /\ Sum(C, rate) <= SumFunction(g) * 100 + 100 * Cardinality(K)
    <3>1. C \in SUBSET LineChoices /\ IsFiniteSet(C)
      BY <1>1, <1>3, FS_Subset
    <3>2. QED
      BY <1>1, <2>0, <2>5, <2>6, <3>1, BreakdownNear
  <2>8. TotalByWorkOrder(L, rate) = SumFunction(g)
    BY <1>2, <2>2, Zenon DEF TotalByWorkOrder, TotalBy
  <2>9. QED
    BY <1>4, <2>3, <2>7, <2>8
<1>6. /\ TotalByDate(L, rate) * 100 <= exact + 100 * Cardinality({l.day : l \in L})
      /\ exact <= TotalByDate(L, rate) * 100 + 100 * Cardinality({l.day : l \in L})
  <2>1. PICK key : key = [l \in L |-> l.day]
    OBVIOUS
  <2>2. PICK g : g = [k \in {l.day : l \in C} |-> GroupTotal({l \in C : l.day = k}, rate)]
    OBVIOUS
  <2>3. PICK K, D : K = {l.day : l \in L} /\ D = {l.day : l \in C}
    OBVIOUS
  <2>4. PICK part : part = [k \in D |-> {l \in C : l.day = k}]
    OBVIOUS
  <2>5. D \in SUBSET K /\ IsFiniteSet(K) /\ (\A l \in C : key[l] \in D) /\ Parts(part, key, C, D)
    <3>1. D \in SUBSET K /\ (\A l \in C : key[l] \in D) /\ Parts(part, key, C, D)
      BY <1>3, <2>1, <2>3, <2>4 DEF Parts
    <3>2. K = {key[l] : l \in L}
      BY <2>1, <2>3
    <3>3. IsFiniteSet({key[l] : l \in L})
      BY <1>1, ImageFinite
    <3>4. QED
      BY <3>1, <3>2, <3>3
  <2>6. DOMAIN g = D /\ \A k \in D : g[k] = GroupTotal(part[k], rate)
    BY <2>2, <2>3, <2>4
  <2>0. SumFunction(g) = SumFunctionOnSet(g, D)
    BY <2>6, Zenon DEF SumFunction
  <2>7. /\ SumFunction(g) * 100 <= Sum(C, rate) + 100 * Cardinality(K)
        /\ Sum(C, rate) <= SumFunction(g) * 100 + 100 * Cardinality(K)
    <3>1. C \in SUBSET LineChoices /\ IsFiniteSet(C)
      BY <1>1, <1>3, FS_Subset
    <3>2. QED
      BY <1>1, <2>0, <2>5, <2>6, <3>1, BreakdownNear
  <2>8. TotalByDate(L, rate) = SumFunction(g)
    BY <1>2, <2>2, Zenon DEF TotalByDate, TotalBy
  <2>9. QED
    BY <1>4, <2>3, <2>7, <2>8
<1>7. SumFunction(Summary(L, rate)) = TotalByWorkOrder(L, rate)
  BY <1>1, SummaryAdds
<1>8. QED
  BY <1>5, <1>6, <1>7

(* For any lines, rates and policy, the breakdowns of an invoice by work     *)
(* order and by day come to what its lines come to within the rounding of    *)
(* their groups, every line in one place, and the parts of the summary add   *)
(* up to the total: computeInvoice.                                          *)
THEOREM TotalsHold == Spec => []TotalsAgree
<1>1. Init => SpendInv
  BY PolicyAssumption, FS_EmptySet DEF Init, SpendInv
<1>2. SpendInv /\ [Next]_vars => SpendInv'
  BY SpendInvStep
<1>3. SpendInv => TotalsAgree
  BY TotalsOfLines
<1>4. QED
  BY <1>1, <1>2, <1>3, PTL DEF Spec
=============================================================================
