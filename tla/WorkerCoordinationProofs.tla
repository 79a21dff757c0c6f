--------------------- MODULE WorkerCoordinationProofs ---------------------
(***************************************************************************)
(* A wait is resumed at most once, with a complete batch, and a mailbox    *)
(* row is acknowledged only under the lane lease of the continuation that  *)
(* was given it: for any waits, groups, coordinators and children, any     *)
(* number of watchdog attempts, newer turns, crashes and readmissions.     *)
(***************************************************************************)
EXTENDS WorkerCoordination, TLAPS

USE ZenonT(60)

Intents ==
    [wait : Waits, state : {"enqueued", "consumed", "quarantined"}, rows : SUBSET Keys,
     cont : {"none", "job", "queued", "leased", "accepted", "done", "skipped"}]

Dogs ==
    [st : {"none", "pending", "observed", "committed", "succeeded", "canceled", "failed"},
     attempt : 0..MaxAttempts, wait : Waits \cup {None}, idle : BOOLEAN]

Running == {"leased", "accepted"}
Kept == {"claimed", "acked"}

\* a watchdog serves a wait of its group, and the children of a group are
\* owned by the coordinator of the wait that was admitted with the watchdog
ServedBy(g, d) ==
    /\ d.st = "none" => \A c \in Kids[g] : job[c] = "none"
    /\ d.st # "none" => /\ d.wait \in Waits /\ GroupOf[d.wait] = g
                        /\ \A c \in Kids[g] : job[c] # "none" /\ owner[c] = CoordOf[d.wait]

Served == \A g \in Groups : ServedBy(g, dog[g])

\* a child that has not ended has published nothing
Unpublished ==
    \A c \in Children : job[c] \in {"none", "active"} => mail[<<"result", c>>].state = "none"

\* an intent belongs to the coordinator of its wait, and the wait of a
\* continuation names the generation of its intent and is not open any more
BoundAt(k, i, x) ==
    /\ CoordOf[x.wait] = k
    /\ x.cont # "none" => /\ wait[x.wait].intent = i
                          /\ wait[x.wait].state \in {"scheduled", "consumed"}

Bound == \A k \in Coordinators : \A i \in DOMAIN intents[k] : BoundAt(k, i, intents[k][i])

\* one continuation runs in a lane, and leases it
Alone ==
    \A k \in Coordinators : \A i \in DOMAIN intents[k] : intents[k][i].cont \in Running =>
        /\ lane[k] = "continuation"
        /\ \A j \in DOMAIN intents[k] : intents[k][j].cont \in Running => j = i

\* a row that is claimed or acknowledged is in the batch of the continuation
\* of the wait whose token it carries
Batched ==
    \A r \in Keys : mail[r].state \in Kept =>
        \E k \in Coordinators : \E i \in DOMAIN intents[k] :
            /\ intents[k][i].cont # "none"
            /\ intents[k][i].wait = mail[r].token
            /\ r \in intents[k][i].rows

Resumption == TypeOK /\ Served /\ Unpublished /\ Bound /\ Alone /\ Batched /\ BatchComplete

\* every coordinator waits for one group at a time, and once
OneWait == \A v, w \in Waits : CoordOf[v] = CoordOf[w] => v = w

\* a batch is claimed for its wait until it is acknowledged as a whole, and
\* holds rows of its own coordinator only
WholeAt(x, m) ==
    x.cont # "none" =>
        \A r \in x.rows : /\ x.state = "consumed" => m[r].state = "acked"
                          /\ x.state # "consumed" => m[r].state = "claimed" /\ m[r].token = x.wait

Whole == \A k \in Coordinators : \A i \in DOMAIN intents[k] : WholeAt(intents[k][i], mail)

OwnedAt(k, x) == \A r \in x.rows : owner[r[2]] = k

Owned ==
    /\ \A c \in Children : job[c] = "none" => owner[c] = None
    /\ \A k \in Coordinators : \A i \in DOMAIN intents[k] : OwnedAt(k, intents[k][i])

---------------------------------------------------------------------------
(* The intents and the mailbox *)

Rows == [state : {"none", "unread", "claimed", "acked"}, token : Waits \cup {None}]
Mails == [Keys -> Rows]

\* a new generation leaves the earlier ones as they are
LEMMA Appends ==
    ASSUME intents \in [Coordinators -> Seq(Intents)], NEW k \in Coordinators, NEW x \in Intents,
           intents' = [intents EXCEPT ![k] = Append(@, x)]
    PROVE  /\ intents' \in [Coordinators -> Seq(Intents)]
           /\ Len(intents[k]) + 1 \in DOMAIN intents'[k] /\ intents'[k][Len(intents[k]) + 1] = x
           /\ \A i \in DOMAIN intents'[k] : i \in DOMAIN intents[k] \/ i = Len(intents[k]) + 1
           /\ \A i \in DOMAIN intents[k] :
                 i \in DOMAIN intents'[k] /\ intents'[k][i] = intents[k][i] /\ i # Len(intents[k]) + 1
           /\ \A l \in Coordinators : l # k => intents'[l] = intents[l]
  BY SMTT(30)

\* a step of a continuation changes one intent
LEMMA Moves ==
    ASSUME intents \in [Coordinators -> Seq(Intents)], NEW k \in Coordinators,
           NEW i \in 1..Len(intents[k]), NEW x \in Intents,
           intents' = [intents EXCEPT ![k][i] = x]
    PROVE  /\ intents' \in [Coordinators -> Seq(Intents)]
           /\ i \in DOMAIN intents[k]
           /\ \A l \in Coordinators : DOMAIN intents'[l] = DOMAIN intents[l]
           /\ intents'[k][i] = x
           /\ \A j \in DOMAIN intents[k] : j # i => intents'[k][j] = intents[k][j]
           /\ \A l \in Coordinators : l # k => intents'[l] = intents[l]
  BY SMTT(30)

\* the fields of an intent that ContTo leaves alone
LEMMA Goes ==
    ASSUME intents \in [Coordinators -> Seq(Intents)], NEW k \in Coordinators,
           NEW i \in 1..Len(intents[k]),
           NEW c \in {"none", "job", "queued", "leased", "accepted", "done", "skipped"}, ContTo(k, i, c)
    PROVE  /\ intents' \in [Coordinators -> Seq(Intents)]
           /\ i \in DOMAIN intents[k]
           /\ \A l \in Coordinators : DOMAIN intents'[l] = DOMAIN intents[l]
           /\ intents'[k][i].cont = c
           /\ intents'[k][i].wait = intents[k][i].wait
           /\ intents'[k][i].rows = intents[k][i].rows
           /\ intents'[k][i].state = intents[k][i].state
           /\ \A j \in DOMAIN intents[k] : j # i => intents'[k][j] = intents[k][j]
           /\ \A l \in Coordinators : l # k => intents'[l] = intents[l]
  <1> DEFINE x == [intents[k][i] EXCEPT !.cont = c]
  <1>1. intents[k][i] \in Intents
    BY SMTT(30)
  <1>2. /\ x \in Intents /\ x.cont = c /\ x.wait = intents[k][i].wait
        /\ x.rows = intents[k][i].rows /\ x.state = intents[k][i].state
    BY <1>1, SMTT(30) DEF Intents
  <1>3. intents' = [intents EXCEPT ![k][i] = x]
    BY SMTT(30) DEF ContTo
  <1> HIDE DEF x
  <1> QED
    BY <1>2, <1>3, Moves

\* rows appear unread, and the others stay as they are
Fresh(m, n) == \A r \in Keys : n[r] = m[r] \/ (m[r].state = "none" /\ n[r].state = "unread")

LEMMA EnsuredTyped ==
    ASSUME NEW w \in Waits, NEW m \in Mails
    PROVE  /\ EnsureExpected(w, m) \in Mails /\ Fresh(m, EnsureExpected(w, m))
           /\ \A c \in Kids[GroupOf[w]] : c \in Children =>
                 \E r \in Keys : r[2] = c /\ EnsureExpected(w, m)[r].state # "none"
  <1>1. \A r \in Keys : EnsureExpected(w, m)[r] \in {m[r], [m[r] EXCEPT !.state = "unread"]}
    BY DEF EnsureExpected
  <1>2. \A r \in Keys : m[r].state # "none" => EnsureExpected(w, m)[r] = m[r]
    BY DEF EnsureExpected
  <1>3. \A r \in Keys : [m[r] EXCEPT !.state = "unread"] \in Rows /\ [m[r] EXCEPT !.state = "unread"].state = "unread"
    BY SMTT(30) DEF Mails, Rows
  <1>4. EnsureExpected(w, m) \in Mails
    BY <1>1, <1>3, SMTT(30) DEF EnsureExpected, Mails
  <1>5. ASSUME NEW c \in Kids[GroupOf[w]], c \in Children
        PROVE  \E r \in Keys : r[2] = c /\ EnsureExpected(w, m)[r].state # "none"
    <2>1. <<"result", c>> \in Keys /\ <<"omission", c>> \in Keys
      BY <1>5 DEF Keys
    <2>2. CASE m[<<"result", c>>].state # "none"
      BY <1>2, <2>1, <2>2, SMTT(30)
    <2>3. CASE m[<<"result", c>>].state = "none"
      <3>1. m[<<"omission", c>>].state = "none" =>
               EnsureExpected(w, m)[<<"omission", c>>] = [m[<<"omission", c>>] EXCEPT !.state = "unread"]
        BY <2>1, <2>3, <1>5, SMTT(30) DEF EnsureExpected
      <3>2. EnsureExpected(w, m)[<<"omission", c>>].state # "none"
        BY <1>2, <1>3, <2>1, <3>1
      <3> QED
        BY <2>1, <3>2, SMTT(30)
    <2> QED
      BY <2>2, <2>3
  <1>6. Fresh(m, EnsureExpected(w, m))
    BY <1>1, <1>2, <1>3 DEF Fresh
  <1> QED
    BY <1>4, <1>5, <1>6

\* claim_unread_for_coordinator_in_transaction takes every row of the
\* coordinator that is unread or was claimed too long ago, and no other
Takes(w, m, o) ==
    /\ Claimed(w, o) \in Mails /\ Unread(CoordOf[w], o) \in SUBSET Keys
    /\ \A r \in Unread(CoordOf[w], o) : Claimed(w, o)[r] = [state |-> "claimed", token |-> w]
    /\ \A r \in Keys \ Unread(CoordOf[w], o) : Claimed(w, o)[r] = m[r]
    /\ \A r \in Keys : m[r].state \in Kept => Claimed(w, o)[r].state \in Kept
    /\ \A r \in Keys : m[r].state # "none" /\ owner[r[2]] = CoordOf[w] => Claimed(w, o)[r].state \in Kept

LEMMA ClaimedRows ==
    ASSUME NEW w \in Waits, NEW m \in Mails, NEW o, o = Released(CoordOf[w], m) PROVE Takes(w, m, o)
  <1> DEFINE u == [state |-> "unread", token |-> None]
             t == [state |-> "claimed", token |-> w]
             k == CoordOf[w]
  <1>1. u \in Rows /\ t \in Rows /\ u.state = "unread" /\ t.state = "claimed"
    BY SMTT(30) DEF Rows
  <1>2. \A r \in Keys : o[r] = m[r] \/ (o[r] = u /\ r \in RowsOf(k, m))
    BY DEF Released
  <1>3. o \in Mails
    BY <1>1, SMTT(30) DEF Released, Mails
  <1>4. \A r \in Keys : o[r] # m[r] => r \in Unread(k, o)
    BY <1>1, <1>2 DEF Unread, RowsOf
  <1>5. Unread(k, o) \in SUBSET Keys
    BY DEF Unread, RowsOf
  <1>6. \A r \in Keys : IF r \in Unread(k, o) THEN Claimed(w, o)[r] = t ELSE Claimed(w, o)[r] = o[r]
    BY DEF Claimed
  <1>7. Claimed(w, o) \in Mails
    BY <1>1, <1>3, SMTT(30) DEF Claimed, Mails
  <1>8. \A r \in Keys : m[r].state # "none" /\ owner[r[2]] = k =>
           r \in Unread(k, o) \/ (o[r] = m[r] /\ m[r].state \in Kept)
    <2> SUFFICES ASSUME NEW r \in Keys, m[r].state # "none", owner[r[2]] = k, o[r] = m[r],
                        r \notin Unread(k, o)
                 PROVE  m[r].state \in Kept
      BY <1>4
    <2>1. m[r].state # "unread"
      BY DEF Unread, RowsOf
    <2>2. m[r].state \in {"none", "unread", "claimed", "acked"}
      BY SMTT(30) DEF Mails, Rows
    <2> QED
      BY <2>1, <2>2 DEF Kept
  <1>9. "claimed" \in Kept
    BY DEF Kept
  <1> HIDE DEF u, t, k
  <1>10. /\ \A r \in Keys \ Unread(k, o) : Claimed(w, o)[r] = m[r]
         /\ \A r \in Unread(k, o) : Claimed(w, o)[r] = t
    BY <1>4, <1>5, <1>6
  <1>11. \A r \in Keys : m[r].state \in Kept => Claimed(w, o)[r].state \in Kept
    BY <1>1, <1>9, <1>10
  <1>12. \A r \in Keys : m[r].state # "none" /\ owner[r[2]] = k => Claimed(w, o)[r].state \in Kept
    BY <1>1, <1>8, <1>9, <1>10
  <1> QED
    BY <1>5, <1>7, <1>10, <1>11, <1>12 DEF Takes, k, t

\* the omissions leave the results alone
LEMMA ResultsKept ==
    ASSUME NEW w \in Waits, NEW c \in Children
    PROVE  EnsureExpected(w, mail)[<<"result", c>>] = mail[<<"result", c>>]
  <1>1. <<"result", c>> \in Keys /\ <<"result", c>>[1] = "result"
    BY DEF Keys
  <1> QED
    BY <1>1 DEF EnsureExpected

LEMMA AckedRows ==
    ASSUME NEW w \in Waits, mail \in Mails
    PROVE  /\ Acked(w) \in Mails
           /\ \A r \in Keys : mail[r].state = "claimed" /\ mail[r].token = w =>
                 Acked(w)[r].state = "acked"
           /\ \A r \in Keys : ~(mail[r].state = "claimed" /\ mail[r].token = w) => Acked(w)[r] = mail[r]
           /\ \A r \in Keys : Acked(w)[r].token = mail[r].token
           /\ \A r \in Keys : Acked(w)[r].state \in Kept <=> mail[r].state \in Kept
  <1>1. \A r \in Keys : LET a == [mail[r] EXCEPT !.state = "acked"]
                        IN  a \in Rows /\ a.state = "acked" /\ a.token = mail[r].token
    BY SMTT(30) DEF Mails, Rows
  <1>2. \A r \in Keys : IF mail[r].state = "claimed" /\ mail[r].token = w
                        THEN Acked(w)[r] = [mail[r] EXCEPT !.state = "acked"] ELSE Acked(w)[r] = mail[r]
    BY DEF Acked
  <1>3. Acked(w) \in Mails
    BY <1>1, SMTT(30) DEF Acked, Mails
  <1> QED
    BY <1>1, <1>2, <1>3 DEF Kept

---------------------------------------------------------------------------
(* Types *)

\* a pass leaves a watchdog its wait
LEMMA DogGoes ==
    ASSUME dog \in [Groups -> Dogs], NEW g \in Groups, dog[g].st # "none",
           \/ \E st \in {"pending", "committed", "succeeded", "canceled", "failed"} :
                 dog' = [dog EXCEPT ![g].st = st]
           \/ \E st \in {"pending", "canceled"} : dog[g].attempt < MaxAttempts /\ DogTo(g, st)
           \/ \E b \in BOOLEAN :
                 /\ dog[g].attempt < MaxAttempts
                 /\ dog' = [dog EXCEPT ![g].st = "observed", ![g].attempt = @ + 1, ![g].idle = b]
    PROVE  /\ dog' \in [Groups -> Dogs]
           /\ \A h \in Groups : dog'[h].wait = dog[h].wait /\ (dog'[h].st = "none" <=> dog[h].st = "none")
  <1> DEFINE Same(d, e) == e \in Dogs /\ e.wait = d.wait /\ e.st # "none"
  <1>0. dog[g] \in Dogs
    OBVIOUS
  <1>1. ASSUME NEW d \in Dogs, NEW st \in {"pending", "committed", "succeeded", "canceled", "failed"}
        PROVE  Same(d, [d EXCEPT !.st = st])
    BY DEF Dogs
  <1>2. ASSUME dog[g].attempt < MaxAttempts PROVE dog[g].attempt + 1 \in 0..MaxAttempts
    BY <1>2, CoordinationBounds, SMTT(30) DEF Dogs
  <1>3. ASSUME NEW d \in Dogs, NEW st \in {"pending", "canceled"}, NEW n \in 0..MaxAttempts
        PROVE  Same(d, [d EXCEPT !.st = st, !.attempt = n])
    BY DEF Dogs
  <1>4. ASSUME NEW d \in Dogs, NEW b \in BOOLEAN, NEW n \in 0..MaxAttempts
        PROVE  Same(d, [d EXCEPT !.st = "observed", !.attempt = n, !.idle = b])
    BY DEF Dogs
  <1> HIDE DEF Same
  <1>5. CASE \E st \in {"pending", "committed", "succeeded", "canceled", "failed"} :
                 dog' = [dog EXCEPT ![g].st = st]
    <2>1. PICK st \in {"pending", "committed", "succeeded", "canceled", "failed"} :
              dog' = [dog EXCEPT ![g] = [dog[g] EXCEPT !.st = st]]
      BY <1>5
    <2> QED
      BY <1>0, <1>1, <2>1 DEF Same
  <1>6. CASE \E st \in {"pending", "canceled"} : dog[g].attempt < MaxAttempts /\ DogTo(g, st)
    <2>1. PICK st \in {"pending", "canceled"} :
              dog' = [dog EXCEPT ![g] = [dog[g] EXCEPT !.st = st, !.attempt = dog[g].attempt + 1]]
      BY <1>6 DEF DogTo
    <2>2. dog[g].attempt + 1 \in 0..MaxAttempts
      BY <1>2, <1>6
    <2> DEFINE e == [dog[g] EXCEPT !.st = st, !.attempt = dog[g].attempt + 1]
    <2>3. Same(dog[g], e)
      BY <1>0, <1>3, <2>2
    <2>4. dog' = [dog EXCEPT ![g] = e]
      BY <2>1
    <2> HIDE DEF e
    <2> QED
      BY <2>3, <2>4 DEF Same
  <1>7. CASE \E b \in BOOLEAN :
                 /\ dog[g].attempt < MaxAttempts
                 /\ dog' = [dog EXCEPT ![g].st = "observed", ![g].attempt = @ + 1, ![g].idle = b]
    <2>1. PICK b \in BOOLEAN :
              dog' = [dog EXCEPT ![g] =
                         [dog[g] EXCEPT !.st = "observed", !.attempt = dog[g].attempt + 1, !.idle = b]]
      BY <1>7
    <2>2. dog[g].attempt + 1 \in 0..MaxAttempts
      BY <1>2, <1>7
    <2> DEFINE e == [dog[g] EXCEPT !.st = "observed", !.attempt = dog[g].attempt + 1, !.idle = b]
    <2>3. Same(dog[g], e)
      BY <1>0, <1>4, <2>2
    <2>4. dog' = [dog EXCEPT ![g] = e]
      BY <2>1
    <2> HIDE DEF e
    <2> QED
      BY <2>3, <2>4 DEF Same
  <1> QED
    BY <1>5, <1>6, <1>7

---------------------------------------------------------------------------
(* Steps that leave the other rows alone *)

\* the intents are kept, with their waits and batches
Forward ==
    \A k \in Coordinators : \A i \in DOMAIN intents[k] :
        /\ i \in DOMAIN intents'[k]
        /\ intents'[k][i].wait = intents[k][i].wait
        /\ intents'[k][i].rows = intents[k][i].rows
        /\ intents[k][i].cont # "none" => intents'[k][i].cont # "none"

LEMMA KidsAreChildren == \A g \in Groups : Kids[g] \subseteq Children
  BY StructureAssumption, SMTT(30)

LEMMA KeepServed ==
    ASSUME Served, UNCHANGED owner,
           \A c \in Children : job'[c] = "none" <=> job[c] = "none",
           \A g \in Groups : dog'[g].wait = dog[g].wait /\ (dog'[g].st = "none" <=> dog[g].st = "none")
    PROVE  Served'
  <1> SUFFICES ASSUME NEW g \in Groups PROVE ServedBy(g, dog[g])'
    BY DEF Served
  <1>1. \A c \in Kids[g] : (job'[c] = "none" <=> job[c] = "none") /\ owner'[c] = owner[c]
    BY KidsAreChildren
  <1>2. ServedBy(g, dog[g])
    BY DEF Served
  <1> QED
    BY <1>1, <1>2 DEF ServedBy

LEMMA IntentTypes ==
    ASSUME TypeOK, NEW k \in Coordinators, NEW i \in DOMAIN intents[k]
    PROVE  /\ intents[k][i] \in Intents /\ i \in 1..Len(intents[k])
           /\ intents[k][i].wait \in Waits /\ intents[k][i].rows \in SUBSET Keys
  <1>1. intents[k] \in Seq(Intents)
    BY DEF TypeOK, Intents
  <1>2. intents[k][i] \in Intents /\ i \in 1..Len(intents[k])
    BY <1>1, SMTT(30)
  <1> QED
    BY <1>2 DEF Intents

LEMMA KeepBound ==
    ASSUME Bound, UNCHANGED intents,
           \A k \in Coordinators : \A i \in DOMAIN intents[k] : intents[k][i].cont # "none" =>
               wait'[intents[k][i].wait] = wait[intents[k][i].wait]
    PROVE  Bound'
  <1> SUFFICES ASSUME NEW k \in Coordinators, NEW i \in DOMAIN intents[k] PROVE BoundAt(k, i, intents[k][i])'
    BY DEF Bound
  <1>1. BoundAt(k, i, intents[k][i])
    BY DEF Bound
  <1> QED
    BY <1>1 DEF BoundAt

LEMMA KeepBatched ==
    ASSUME Batched, Forward,
           \A r \in Keys : mail'[r].state \in Kept => mail[r].state \in Kept /\ mail'[r].token = mail[r].token
    PROVE  Batched'
  <1> SUFFICES ASSUME NEW r \in Keys, mail'[r].state \in Kept
               PROVE  \E k \in Coordinators : \E i \in DOMAIN intents'[k] :
                          /\ intents'[k][i].cont # "none"
                          /\ intents'[k][i].wait = mail'[r].token
                          /\ r \in intents'[k][i].rows
    BY DEF Batched
  <1>1. PICK k \in Coordinators : \E i \in DOMAIN intents[k] :
            intents[k][i].cont # "none" /\ intents[k][i].wait = mail[r].token /\ r \in intents[k][i].rows
    BY DEF Batched
  <1>2. PICK i \in DOMAIN intents[k] :
            intents[k][i].cont # "none" /\ intents[k][i].wait = mail[r].token /\ r \in intents[k][i].rows
    BY <1>1
  <1> QED
    BY <1>2 DEF Forward

LEMMA KeepBatch ==
    ASSUME BatchComplete, \A r \in Keys : mail[r].state \in Kept => mail'[r].state \in Kept,
           \A w \in Waits : wait'[w].state \in {"scheduled", "consumed"} =>
                               wait[w].state \in {"scheduled", "consumed"}
    PROVE  BatchComplete'
  BY DEF BatchComplete, Kept

\* nothing of a coordinator is touched
LEMMA Quiet ==
    ASSUME Resumption, UNCHANGED <<wait, owner, mail, intents, lane>>, TypeOK',
           \A c \in Children : /\ job'[c] = "none" <=> job[c] = "none"
                               /\ job'[c] \in {"none", "active"} => job[c] \in {"none", "active"},
           \A g \in Groups : dog'[g].wait = dog[g].wait /\ (dog'[g].st = "none" <=> dog[g].st = "none")
    PROVE  Resumption'
  <1>1. Served'
    BY KeepServed DEF Resumption
  <1>2. Bound'
    BY KeepBound DEF Resumption
  <1>3. Alone'
    BY DEF Resumption, Alone
  <1>4. Batched'
    BY KeepBatched DEF Resumption, Forward
  <1>5. BatchComplete'
    BY KeepBatch DEF Resumption
  <1>6. Unpublished'
    BY DEF Resumption, Unpublished
  <1> QED
    BY <1>1, <1>2, <1>3, <1>4, <1>5, <1>6 DEF Resumption

LEMMA ReadmitSafe ==
    ASSUME Resumption, NEW w \in Waits, NEW s \in BOOLEAN, Readmit(w, s) PROVE Resumption'
  <1>1. answer' \in [Waits -> {"none", "Created", "Replayed", "Conflict"}]
    BY SMTT(30) DEF Resumption, TypeOK, Readmit
  <1>2. {others, crashes, readmits}' \subseteq Nat
    BY SMTT(30) DEF Resumption, TypeOK, Readmit
  <1>3. TypeOK'
    BY <1>1, <1>2 DEF Resumption, TypeOK, Readmit
  <1> QED
    BY <1>3, Quiet DEF Readmit

LEMMA ExpireSafe == ASSUME Resumption, NEW w \in Waits, ClaimExpires(w) PROVE Resumption'
  <1>1. live' \in [Waits -> BOOLEAN]
    BY SMTT(30) DEF Resumption, TypeOK, ClaimExpires
  <1>2. TypeOK'
    BY <1>1 DEF Resumption, TypeOK, ClaimExpires, counters
  <1> QED
    BY <1>2, Quiet DEF ClaimExpires

LEMMA ChildSafe ==
    ASSUME Resumption, NEW c \in Children, ChildLost(c) \/ \E o \in Terminal : RuntimeTerminal(c, o)
    PROVE  Resumption'
  <1>1. TypeOK'
    <2>1. CASE ChildLost(c)
      <3>1. job' \in [Children -> Terminal \cup {"none", "active"}]
        BY <2>1, SMTT(30) DEF Resumption, TypeOK, ChildLost, Terminal, Failed
      <3> QED
        BY <2>1, <3>1 DEF Resumption, TypeOK, ChildLost, counters
    <2>2. CASE \E o \in Terminal : RuntimeTerminal(c, o)
      <3>0. UNCHANGED <<wait, job, owner, mail, live, intents, dog, lane, answer, others, crashes, readmits>>
        BY <2>2 DEF RuntimeTerminal, counters
      <3>1. receipt' \in [Children -> Terminal \cup {"none"}]
        BY <2>2, SMTT(30) DEF Resumption, TypeOK, RuntimeTerminal
      <3> QED
        BY <3>0, <3>1 DEF Resumption, TypeOK
    <2> QED
      BY <2>1, <2>2
  <1>2. \A d \in Children : /\ job'[d] = "none" <=> job[d] = "none"
                            /\ job'[d] \in {"none", "active"} => job[d] \in {"none", "active"}
    BY DEF Resumption, TypeOK, ChildLost, RuntimeTerminal
  <1> QED
    BY <1>1, <1>2, Quiet DEF ChildLost, RuntimeTerminal

\* a pass of the watchdog that commits nothing
LEMMA PassSafe ==
    ASSUME Resumption, NEW g \in Groups,
           \/ \E timeout \in BOOLEAN : DogObserve(g, timeout)
           \/ DogExhausted(g) \/ DogDrops(g) \/ DogSuppressed(g) \/ DogSucceeds(g) \/ DogCrash(g)
    PROVE  Resumption'
  <1>1. /\ dog[g].st # "none"
        /\ \/ \E st \in {"pending", "committed", "succeeded", "canceled", "failed"} :
                 dog' = [dog EXCEPT ![g].st = st]
           \/ \E st \in {"pending", "canceled"} : dog[g].attempt < MaxAttempts /\ DogTo(g, st)
           \/ \E b \in BOOLEAN :
                 /\ dog[g].attempt < MaxAttempts
                 /\ dog' = [dog EXCEPT ![g].st = "observed", ![g].attempt = @ + 1, ![g].idle = b]
    BY DEF DogObserve, DogExhausted, DogDrops, DogSuppressed, DogSucceeds, DogCrash
  <1>2. UNCHANGED <<wait, job, owner, receipt, mail, live, intents, lane, answer, others, readmits>>
    BY DEF DogObserve, DogExhausted, DogDrops, DogSuppressed, DogSucceeds, DogCrash, counters
  <1>3. crashes' \in {crashes, crashes + 1}
    BY DEF DogObserve, DogExhausted, DogDrops, DogSuppressed, DogSucceeds, DogCrash, counters
  <1>4. dog \in [Groups -> Dogs]
    BY DEF Resumption, TypeOK, Dogs
  <1>5. /\ dog' \in [Groups -> Dogs]
        /\ \A h \in Groups : dog'[h].wait = dog[h].wait /\ (dog'[h].st = "none" <=> dog[h].st = "none")
    BY <1>1, <1>4, DogGoes
  <1>6. {others, crashes, readmits}' \subseteq Nat
    BY <1>2, <1>3, SMTT(30) DEF Resumption, TypeOK
  <1>7. TypeOK'
    BY <1>2, <1>5, <1>6 DEF Resumption, TypeOK, Dogs
  <1> QED
    BY <1>2, <1>5, <1>7, Quiet

---------------------------------------------------------------------------
(* Admission, children and the lane *)

LEMMA AdmitSafe == ASSUME Resumption, NEW w \in Waits, Admit(w) PROVE Resumption'
  <1> DEFINE g == GroupOf[w]
             d == [dog[g] EXCEPT !.st = "pending", !.wait = w]
  <1>0. g \in Groups /\ CoordOf[w] \in Coordinators
    BY StructureAssumption
  <1>1. /\ UNCHANGED <<receipt, mail, live, intents, lane, others, crashes, readmits>>
        /\ wait[w].state = "none" /\ wait' = [wait EXCEPT ![w].state = "waiting"]
        /\ answer' = [answer EXCEPT ![w] = "Created"]
        /\ dog' = [dog EXCEPT ![g] = IF dog[g].st = "none" THEN d ELSE dog[g]]
        /\ job' = [c \in Children |-> IF c \in Kids[g] /\ job[c] = "none" THEN "active" ELSE job[c]]
        /\ owner' = [c \in Children |-> IF c \in Kids[g] /\ job[c] = "none" THEN CoordOf[w] ELSE owner[c]]
    BY DEF Admit, counters
  <1>2. /\ wait'[w].state = "waiting" /\ wait' \in [Waits -> [state : WaitStates, intent : Nat]]
        /\ \A v \in Waits : v # w => wait'[v] = wait[v]
    <2>1. wait[w] \in [state : WaitStates, intent : Nat]
      BY DEF Resumption, TypeOK
    <2> DEFINE x == [wait[w] EXCEPT !.state = "waiting"]
    <2>2. x \in [state : WaitStates, intent : Nat] /\ x.state = "waiting"
      BY <2>1 DEF WaitStates
    <2>3. wait' = [wait EXCEPT ![w] = x]
      BY <1>1
    <2> HIDE DEF x
    <2> QED
      BY <2>2, <2>3 DEF Resumption, TypeOK
  <1>3. dog[g] \in Dogs /\ dog \in [Groups -> Dogs]
    BY <1>0 DEF Resumption, TypeOK, Dogs
  <1>4. d \in Dogs /\ d.st = "pending" /\ d.wait = w
    BY <1>3 DEF Dogs
  <1> HIDE DEF d
  <1>5. TypeOK'
    <2>1. dog' \in [Groups -> Dogs]
      BY <1>1, <1>3, <1>4
    <2>2. answer' \in [Waits -> {"none", "Created", "Replayed", "Conflict"}]
      BY <1>1 DEF Resumption, TypeOK
    <2>3. job' \in [Children -> Terminal \cup {"none", "active"}]
      BY <1>1 DEF Resumption, TypeOK
    <2>4. owner' \in [Children -> Coordinators \cup {None}]
      BY <1>0, <1>1 DEF Resumption, TypeOK
    <2> QED
      BY <1>1, <1>2, <2>1, <2>2, <2>3, <2>4 DEF Resumption, TypeOK, Dogs
  <1>6. Served'
    <2> SUFFICES ASSUME NEW h \in Groups PROVE ServedBy(h, dog[h])'
      BY DEF Served
    <2>0. ServedBy(h, dog[h])
      BY DEF Resumption, Served
    <2>1. CASE h # g
      <3>1. \A c \in Kids[h] : c \in Children /\ c \notin Kids[g]
        BY <1>0, <2>1, KidsAreChildren, StructureAssumption
      <3>2. \A c \in Kids[h] : job'[c] = job[c] /\ owner'[c] = owner[c]
        BY <1>1, <3>1
      <3>3. dog'[h] = dog[h]
        BY <1>1, <1>3, <2>1
      <3> QED
        BY <2>0, <3>2, <3>3 DEF ServedBy
    <2>2. CASE h = g /\ dog[g].st = "none"
      <3>1. dog'[g] = d
        BY <1>0, <1>1, <1>3, <2>2
      <3>2. \A c \in Kids[g] : job'[c] = "active" /\ owner'[c] = CoordOf[w]
        BY <1>0, <1>1, <2>0, <2>2, KidsAreChildren DEF ServedBy
      <3> QED
        BY <1>4, <2>2, <3>1, <3>2 DEF ServedBy
    <2>3. CASE h = g /\ dog[g].st # "none"
      <3>1. dog'[g] = dog[g]
        BY <1>0, <1>1, <1>3, <2>3
      <3>2. \A c \in Kids[g] : job'[c] = job[c] /\ owner'[c] = owner[c]
        BY <1>0, <1>1, <2>0, <2>3, KidsAreChildren DEF ServedBy
      <3> QED
        BY <2>0, <2>3, <3>1, <3>2 DEF ServedBy
    <2> QED
      BY <2>1, <2>2, <2>3
  <1>7. Bound'
    <2>1. \A k \in Coordinators : \A i \in DOMAIN intents[k] : intents[k][i].cont # "none" =>
             intents[k][i].wait \in Waits /\ intents[k][i].wait # w
      <3> SUFFICES ASSUME NEW k \in Coordinators, NEW i \in DOMAIN intents[k], intents[k][i].cont # "none"
                   PROVE  intents[k][i].wait \in Waits /\ intents[k][i].wait # w
        OBVIOUS
      <3>1. BoundAt(k, i, intents[k][i])
        BY DEF Resumption, Bound
      <3> QED
        BY <1>1, <3>1, IntentTypes DEF Resumption, BoundAt
    <2> QED
      BY <1>1, <1>2, <2>1, KeepBound DEF Resumption
  <1>8. Alone' /\ Batched'
    BY <1>1, KeepBatched DEF Resumption, Alone, Forward
  <1>9. BatchComplete'
    BY <1>1, <1>2, KeepBatch DEF Resumption
  <1>10. Unpublished'
    BY <1>1 DEF Resumption, Unpublished
  <1> QED
    BY <1>5, <1>6, <1>7, <1>8, <1>9, <1>10 DEF Resumption

LEMMA ReconcileMail == ASSUME Resumption, NEW c \in Children, Reconcile(c) PROVE mail' \in Mails /\ Fresh(mail, mail')
  <1>0. mail \in Mails
    BY DEF Resumption, TypeOK, Mails, Rows
  <1>1. CASE receipt[c] = "suppressed"
    BY <1>0, <1>1 DEF Reconcile, Fresh
  <1>2. CASE receipt[c] # "suppressed"
    <2> DEFINE q == <<"result", c>>
               x == [mail[q] EXCEPT !.state = "unread"]
    <2>1. q \in Keys /\ mail[q].state = "none"
      BY DEF Reconcile, Keys, Resumption, Unpublished
    <2>2. mail[q] \in Rows
      BY <1>0, <2>1 DEF Mails
    <2>3. x \in Rows /\ x.state = "unread"
      BY <2>2 DEF Rows
    <2>4. mail' = [mail EXCEPT ![q] = x]
      BY <1>2 DEF Reconcile
    <2> HIDE DEF q, x
    <2> QED
      BY <1>0, <2>1, <2>3, <2>4 DEF Mails, Fresh
  <1> QED
    BY <1>1, <1>2

LEMMA ReconcileSafe == ASSUME Resumption, NEW c \in Children, Reconcile(c) PROVE Resumption'
  <1>1. /\ UNCHANGED <<owner, receipt, live, intents, dog, lane, answer, others, crashes, readmits>>
        /\ job[c] = "active" /\ receipt[c] # "none" /\ job' = [job EXCEPT ![c] = receipt[c]]
    BY DEF Reconcile, counters
  <1>2. /\ mail' \in Mails
        /\ \A r \in Keys : mail'[r] = mail[r] \/ mail'[r].state = "unread"
        /\ \A r \in Keys : mail'[r].state \in Kept <=> mail[r].state \in Kept
    BY ReconcileMail DEF Fresh, Kept
  <1>3. /\ wait' \in [Waits -> [state : WaitStates, intent : Nat]]
        /\ \A w \in Waits : wait'[w] # wait[w] => wait[w].state = "waiting" /\ wait'[w].state = "quarantined"
    <2>1. CASE receipt[c] = "suppressed"
      <3>1. ASSUME NEW w \in Waits
            PROVE  /\ [wait[w] EXCEPT !.state = "quarantined"] \in [state : WaitStates, intent : Nat]
                   /\ [wait[w] EXCEPT !.state = "quarantined"].state = "quarantined"
        <4>1. wait[w] \in [state : WaitStates, intent : Nat]
          BY DEF Resumption, TypeOK
        <4> QED
          BY <4>1 DEF WaitStates
      <3>2. /\ \A w \in WaitsFor(c) : wait[w].state = "waiting"
            /\ wait' = [w \in Waits |-> IF w \in WaitsFor(c) THEN [wait[w] EXCEPT !.state = "quarantined"]
                                        ELSE wait[w]]
        BY <2>1 DEF Reconcile
      <3> QED
        BY <3>1, <3>2 DEF Resumption, TypeOK
    <2>2. CASE receipt[c] # "suppressed"
      BY <2>2 DEF Reconcile, Resumption, TypeOK
    <2> QED
      BY <2>1, <2>2
  <1>4. /\ job' \in [Children -> Terminal \cup {"none", "active"}]
        /\ job'[c] \in Terminal /\ \A d \in Children : d # c => job'[d] = job[d]
    BY <1>1 DEF Resumption, TypeOK
  <1>5. TypeOK'
    BY <1>1, <1>2, <1>3, <1>4 DEF Resumption, TypeOK, Mails, Rows
  <1>6. Served'
    BY <1>1, <1>4, KeepServed DEF Resumption, Terminal, Failed
  <1>7. Unpublished'
    <2> SUFFICES ASSUME NEW d \in Children, job'[d] \in {"none", "active"}
                 PROVE  mail'[<<"result", d>>].state = "none"
      BY DEF Unpublished
    <2>1. d # c /\ mail[<<"result", d>>].state = "none"
      BY <1>4 DEF Resumption, Unpublished, Terminal, Failed
    <2>2. <<"result", d>> # <<"result", c>> /\ <<"result", d>> \in Keys
      BY <2>1, SMTT(30) DEF Keys
    <2>3. mail'[<<"result", d>>] = mail[<<"result", d>>]
      BY <2>2 DEF Reconcile, Resumption, TypeOK
    <2> QED
      BY <2>1, <2>3
  <1>8. Bound'
    <2>1. \A k \in Coordinators : \A i \in DOMAIN intents[k] : intents[k][i].cont # "none" =>
             wait'[intents[k][i].wait] = wait[intents[k][i].wait]
      <3> SUFFICES ASSUME NEW k \in Coordinators, NEW i \in DOMAIN intents[k], intents[k][i].cont # "none"
                   PROVE  wait'[intents[k][i].wait] = wait[intents[k][i].wait]
        OBVIOUS
      <3>1. BoundAt(k, i, intents[k][i])
        BY DEF Resumption, Bound
      <3> QED
        BY <1>3, <3>1, IntentTypes DEF Resumption, BoundAt
    <2> QED
      BY <1>1, <2>1, KeepBound DEF Resumption
  <1>9. Alone'
    BY <1>1 DEF Resumption, Alone
  <1>10. Batched'
    BY <1>1, <1>2, KeepBatched DEF Resumption, Forward, Kept
  <1>11. BatchComplete'
    BY <1>2, <1>3, KeepBatch DEF Resumption
  <1> QED
    BY <1>5, <1>6, <1>7, <1>8, <1>9, <1>10, <1>11 DEF Resumption

LEMMA LaneMoves ==
    ASSUME lane \in [Coordinators -> {"parent", "free", "other", "continuation"}],
           NEW k \in Coordinators, NEW v \in {"free", "other", "continuation"},
           lane' = [lane EXCEPT ![k] = v]
    PROVE  /\ lane' \in [Coordinators -> {"parent", "free", "other", "continuation"}]
           /\ lane'[k] = v /\ \A l \in Coordinators : l # k => lane'[l] = lane[l]
  OBVIOUS

\* a turn that is no continuation takes or leaves the lane
LEMMA LaneSafe ==
    ASSUME Resumption, NEW k \in Coordinators, ParentEnds(k) \/ OtherLeases(k) \/ OtherEnds(k)
    PROVE  Resumption'
  <1>1. /\ UNCHANGED <<wait, job, owner, receipt, mail, live, intents, dog, answer, crashes, readmits>>
        /\ lane[k] # "continuation"
        /\ \E l \in {"free", "other"} : lane' = [lane EXCEPT ![k] = l]
    BY DEF ParentEnds, OtherLeases, OtherEnds, counters
  <1>2. others' \in {others, others + 1}
    BY DEF ParentEnds, OtherLeases, OtherEnds, counters
  <1>3. {others, crashes, readmits}' \subseteq Nat
    BY <1>1, <1>2, SMTT(30) DEF Resumption, TypeOK
  <1>4. /\ lane' \in [Coordinators -> {"parent", "free", "other", "continuation"}]
        /\ \A l \in Coordinators : l # k => lane'[l] = lane[l]
    BY <1>1, LaneMoves DEF Resumption, TypeOK
  <1>5. TypeOK'
    BY <1>1, <1>3, <1>4 DEF Resumption, TypeOK
  <1>6. Alone'
    BY <1>1, <1>4 DEF Resumption, Alone
  <1>7. Served' /\ Unpublished'
    BY <1>1, KeepServed DEF Resumption, Unpublished
  <1>8. Bound' /\ Batched'
    BY <1>1, KeepBound, KeepBatched DEF Resumption, Forward
  <1>9. BatchComplete'
    BY <1>1, KeepBatch DEF Resumption
  <1> QED
    BY <1>5, <1>6, <1>7, <1>8, <1>9 DEF Resumption

---------------------------------------------------------------------------
(* The continuation *)

\* what a step of the continuation at (k, i) leaves alone
Continues(k, i) ==
    /\ intents' \in [Coordinators -> Seq(Intents)]
    /\ i \in DOMAIN intents[k]
    /\ \A l \in Coordinators : DOMAIN intents'[l] = DOMAIN intents[l]
    /\ intents[k][i].cont # "none" /\ intents'[k][i].cont # "none"
    /\ intents'[k][i].wait = intents[k][i].wait
    /\ intents'[k][i].rows = intents[k][i].rows
    /\ \A j \in DOMAIN intents[k] : j # i => intents'[k][j] = intents[k][j]
    /\ \A l \in Coordinators : l # k => intents'[l] = intents[l]

LEMMA ContinuesForward ==
    ASSUME NEW k \in Coordinators, NEW i, Continues(k, i) PROVE Forward
  <1> SUFFICES ASSUME NEW l \in Coordinators, NEW j \in DOMAIN intents[l]
               PROVE  /\ j \in DOMAIN intents'[l]
                      /\ intents'[l][j].wait = intents[l][j].wait
                      /\ intents'[l][j].rows = intents[l][j].rows
                      /\ intents[l][j].cont # "none" => intents'[l][j].cont # "none"
    BY DEF Forward
  <1>1. CASE l = k /\ j = i
    BY <1>1 DEF Continues
  <1>2. CASE l = k /\ j # i
    BY <1>2 DEF Continues
  <1>3. CASE l # k
    BY <1>3 DEF Continues
  <1> QED
    BY <1>1, <1>2, <1>3

LEMMA ContinuesBound ==
    ASSUME Bound, NEW k \in Coordinators, NEW i, Continues(k, i),
           \A w \in Waits : wait'[w] # wait[w] => /\ wait'[w].intent = wait[w].intent
                                                  /\ wait'[w].state = "consumed",
           TypeOK
    PROVE  Bound'
  <1> SUFFICES ASSUME NEW l \in Coordinators, NEW j \in DOMAIN intents[l]
               PROVE  BoundAt(l, j, intents[l][j])'
    BY DEF Bound, Continues
  <1>1. BoundAt(l, j, intents[l][j]) /\ intents[l][j].wait \in Waits
    BY IntentTypes DEF Bound
  <1>2. /\ intents'[l][j].wait = intents[l][j].wait
        /\ intents'[l][j].cont # "none" => intents[l][j].cont # "none"
    <2>1. CASE l = k /\ j = i
      BY <2>1 DEF Continues
    <2>2. CASE l = k /\ j # i
      BY <2>2 DEF Continues
    <2>3. CASE l # k
      BY <2>3 DEF Continues
    <2> QED
      BY <2>1, <2>2, <2>3
  <1> QED
    BY <1>1, <1>2 DEF BoundAt

\* the lane while one continuation changes
LEMMA ContinuesAlone ==
    ASSUME Alone, NEW k \in Coordinators, NEW i, Continues(k, i),
           \A l \in Coordinators : l # k => lane'[l] = lane[l],
           \/ intents[k][i].cont \in Running \/ lane[k] = "free"
           \/ intents'[k][i].cont \notin Running /\ lane'[k] = lane[k],
           intents'[k][i].cont \in Running => lane'[k] = "continuation"
    PROVE  Alone'
  <1> SUFFICES ASSUME NEW l \in Coordinators, NEW j \in DOMAIN intents[l], intents'[l][j].cont \in Running
               PROVE  /\ lane'[l] = "continuation"
                      /\ \A m \in DOMAIN intents[l] : intents'[l][m].cont \in Running => m = j
    BY DEF Alone, Continues
  <1>1. CASE l # k
    BY <1>1 DEF Alone, Continues
  <1>2. CASE l = k /\ (intents[k][i].cont \in Running \/ lane[k] = "free")
    <2>1. \A m \in DOMAIN intents[k] : m # i => intents'[k][m].cont \notin Running
      BY <1>2 DEF Alone, Continues
    <2> QED
      BY <1>2, <2>1
  <1>3. CASE l = k /\ intents'[k][i].cont \notin Running /\ lane'[k] = lane[k]
    <2>1. \A m \in DOMAIN intents[k] : intents'[k][m].cont \in Running => intents[k][m].cont \in Running
      BY <1>3 DEF Continues
    <2> QED
      BY <1>3, <2>1 DEF Alone
  <1> QED
    BY <1>1, <1>2, <1>3

LEMMA TurnSafe ==
    ASSUME Resumption, NEW k \in Coordinators, NEW i \in 1..Len(intents[k]),
           \/ QueueContinuation(k, i) \/ LeaseContinuation(k, i) \/ ContinuationEnds(k, i)
           \/ ContinuationCrash(k, i) \/ ContinuationSkipped(k, i)
    PROVE  Resumption'
  <1>1. UNCHANGED <<wait, job, owner, receipt, mail, live, dog, answer, others, readmits>>
    BY DEF QueueContinuation, LeaseContinuation, ContinuationEnds, ContinuationCrash, ContinuationSkipped, counters
  <1>2. crashes' \in {crashes, crashes + 1}
    BY DEF QueueContinuation, LeaseContinuation, ContinuationEnds, ContinuationCrash, ContinuationSkipped, counters
  <1>3. {others, crashes, readmits}' \subseteq Nat
    BY <1>1, <1>2, SMTT(30) DEF Resumption, TypeOK
  <1>4. \/ /\ intents[k][i].cont \in {"job", "queued"} /\ UNCHANGED lane
           /\ \E c \in {"queued", "skipped"} : ContTo(k, i, c)
        \/ /\ intents[k][i].cont = "queued" /\ lane[k] = "free" /\ lane' = [lane EXCEPT ![k] = "continuation"]
           /\ ContTo(k, i, "leased")
        \/ /\ intents[k][i].cont \in Running /\ lane' = [lane EXCEPT ![k] = "free"]
           /\ \E c \in {"queued", "done"} : ContTo(k, i, c)
    BY DEF QueueContinuation, LeaseContinuation, ContinuationEnds, ContinuationCrash, ContinuationSkipped, counters,
           Running
  <1>5. PICK c \in {"queued", "skipped", "leased", "done"} : ContTo(k, i, c)
    BY <1>4
  <1>6. intents \in [Coordinators -> Seq(Intents)]
    BY DEF Resumption, TypeOK, Intents
  <1>7. Continues(k, i) /\ intents'[k][i].cont = c
    <2>1. intents[k][i].cont # "none" /\ c # "none"
      BY <1>4 DEF Running
    <2>2. c \in {"none", "job", "queued", "leased", "accepted", "done", "skipped"}
      OBVIOUS
    <2> QED
      BY <1>5, <1>6, <2>1, <2>2, Goes DEF Continues
  <1>8. /\ lane' \in [Coordinators -> {"parent", "free", "other", "continuation"}]
        /\ \A l \in Coordinators : l # k => lane'[l] = lane[l]
    BY <1>4, LaneMoves DEF Resumption, TypeOK
  <1>9. TypeOK'
    BY <1>1, <1>3, <1>7, <1>8 DEF Resumption, TypeOK, Continues, Intents
  <1>10. Alone'
    <2>1. CASE intents[k][i].cont \in {"job", "queued"} /\ UNCHANGED lane /\ \E d \in {"queued", "skipped"} : ContTo(k, i, d)
      <3>1. intents'[k][i].cont \in {"queued", "skipped"}
        BY <1>6, <2>1, Goes
      <3> QED
        BY <1>7, <1>8, <2>1, <3>1, ContinuesAlone DEF Resumption, Running
    <2>2. CASE /\ intents[k][i].cont = "queued" /\ lane[k] = "free"
               /\ lane' = [lane EXCEPT ![k] = "continuation"] /\ ContTo(k, i, "leased")
      <3>1. lane'[k] = "continuation"
        BY <2>2, LaneMoves DEF Resumption, TypeOK
      <3> QED
        BY <1>7, <1>8, <2>2, <3>1, ContinuesAlone DEF Resumption
    <2>3. CASE /\ intents[k][i].cont \in Running /\ lane' = [lane EXCEPT ![k] = "free"]
               /\ \E d \in {"queued", "done"} : ContTo(k, i, d)
      <3>1. intents'[k][i].cont \in {"queued", "done"}
        BY <1>6, <2>3, Goes
      <3> QED
        BY <1>7, <1>8, <2>3, <3>1, ContinuesAlone DEF Resumption, Running
    <2> QED
      BY <1>4, <2>1, <2>2, <2>3
  <1>11. Served' /\ Unpublished'
    BY <1>1, KeepServed DEF Resumption, Unpublished
  <1>12. Bound' /\ Batched'
    BY <1>1, <1>7, ContinuesBound, ContinuesForward, KeepBatched DEF Resumption
  <1>13. BatchComplete'
    BY <1>1, KeepBatch DEF Resumption
  <1> QED
    BY <1>9, <1>10, <1>11, <1>12, <1>13 DEF Resumption

LEMMA ConsumeSafe ==
    ASSUME Resumption, NEW k \in Coordinators, NEW i \in 1..Len(intents[k]), Consume(k, i)
    PROVE  Resumption'
  <1> DEFINE w == intents[k][i].wait
             x == [intents[k][i] EXCEPT !.state = "consumed", !.cont = "accepted"]
             y == [wait[w] EXCEPT !.state = "consumed"]
  <1>0. intents \in [Coordinators -> Seq(Intents)] /\ mail \in Mails
    BY DEF Resumption, TypeOK, Intents, Mails, Rows
  <1>1. intents[k][i] \in Intents /\ i \in DOMAIN intents[k]
    BY <1>0, SMTT(30)
  <1>2. w \in Waits /\ wait[w] \in [state : WaitStates, intent : Nat]
    BY <1>1 DEF Resumption, TypeOK, Intents
  <1>3. /\ UNCHANGED <<job, owner, receipt, live, dog, lane, answer, others, crashes, readmits>>
        /\ intents[k][i].cont = "leased"
        /\ mail' \in {Acked(w), mail}
        /\ intents' = [intents EXCEPT ![k][i] = x]
        /\ wait[w].state \in {"scheduled", "consumed"}
        /\ wait' = [wait EXCEPT ![w] = y]
    <2>1. /\ UNCHANGED <<job, owner, receipt, live, dog, lane, answer, others, crashes, readmits>>
          /\ intents[k][i].cont = "leased"
          /\ mail' \in {Acked(w), mail}
      BY DEF Consume, counters
    <2>2. intents' = [intents EXCEPT ![k][i] = x]
      BY DEF Consume
    <2>3. wait[w].state \in {"scheduled", "consumed"}
      BY SMTT(30) DEF Consume
    <2>4. wait' = [wait EXCEPT ![w] = y]
      BY DEF Consume
    <2> QED
      BY <2>1, <2>2, <2>3, <2>4
  <1>4. /\ x \in Intents /\ x.cont = "accepted" /\ x.wait = w /\ x.rows = intents[k][i].rows
        /\ y \in [state : WaitStates, intent : Nat] /\ y.state = "consumed" /\ y.intent = wait[w].intent
    BY <1>1, <1>2 DEF Intents, WaitStates
  <1> HIDE DEF x, y, w
  <1>5. Continues(k, i) /\ intents'[k][i].cont = "accepted"
    BY <1>0, <1>1, <1>3, <1>4, Moves DEF Continues, w
  <1>6. /\ wait' \in [Waits -> [state : WaitStates, intent : Nat]]
        /\ wait'[w] = y /\ \A v \in Waits : v # w => wait'[v] = wait[v]
    BY <1>2, <1>3, <1>4 DEF Resumption, TypeOK
  <1>7. /\ mail' \in Mails
        /\ \A r \in Keys : mail'[r].token = mail[r].token /\ (mail'[r].state \in Kept <=> mail[r].state \in Kept)
        /\ \A r \in Keys : mail[r].state = "none" => mail'[r] = mail[r]
    BY <1>0, <1>2, <1>3, AckedRows
  <1>8. TypeOK'
    BY <1>3, <1>5, <1>6, <1>7 DEF Resumption, TypeOK, Mails, Rows, Intents, Continues
  <1>9. Alone'
    BY <1>1, <1>3, <1>5, ContinuesAlone DEF Resumption, Running, Alone
  <1>10. Served'
    BY <1>3, KeepServed DEF Resumption
  <1>11. Unpublished'
    BY <1>3, <1>7 DEF Resumption, Unpublished, Keys
  <1>12. Bound'
    BY <1>4, <1>5, <1>6, ContinuesBound DEF Resumption
  <1>13. Batched'
    BY <1>5, <1>7, ContinuesForward, KeepBatched DEF Resumption
  <1>14. BatchComplete'
    BY <1>3, <1>6, <1>7, KeepBatch DEF Resumption
  <1> QED
    BY <1>8, <1>9, <1>10, <1>11, <1>12, <1>13, <1>14 DEF Resumption

---------------------------------------------------------------------------
(* The watchdog's transactions *)

\* a new generation, without a continuation or for a wait that was open
LEMMA NewBound ==
    ASSUME TypeOK, Bound, NEW w \in Waits, NEW k \in Coordinators, k = CoordOf[w],
           NEW x \in Intents, x.wait = w, intents' = [intents EXCEPT ![k] = Append(@, x)],
           \A v \in Waits : v # w => wait'[v] = wait[v],
           wait'[w] = wait[w] \/ wait[w].state = "waiting",
           x.cont # "none" => wait'[w].intent = Len(intents[k]) + 1 /\ wait'[w].state = "scheduled"
    PROVE  Bound'
  <1>0. PICK n : n = Len(intents[k]) + 1
    OBVIOUS
  <1>1. /\ n \in DOMAIN intents'[k] /\ intents'[k][n] = x
        /\ \A i \in DOMAIN intents'[k] : i \in DOMAIN intents[k] \/ i = n
        /\ \A i \in DOMAIN intents[k] : i \in DOMAIN intents'[k] /\ intents'[k][i] = intents[k][i] /\ i # n
        /\ \A l \in Coordinators : l # k => intents'[l] = intents[l]
    <2>1. intents \in [Coordinators -> Seq(Intents)]
      BY DEF TypeOK, Intents
    <2>2. /\ Len(intents[k]) + 1 \in DOMAIN intents'[k] /\ intents'[k][Len(intents[k]) + 1] = x
          /\ \A i \in DOMAIN intents'[k] : i \in DOMAIN intents[k] \/ i = Len(intents[k]) + 1
          /\ \A i \in DOMAIN intents[k] :
                i \in DOMAIN intents'[k] /\ intents'[k][i] = intents[k][i] /\ i # Len(intents[k]) + 1
          /\ \A l \in Coordinators : l # k => intents'[l] = intents[l]
      BY <2>1, Appends
    <2> QED
      BY <1>0, <2>2
  <1>2. x.cont # "none" => wait'[x.wait].intent = n /\ wait'[x.wait].state \in {"scheduled", "consumed"}
    BY <1>0
  <1>3. ASSUME NEW l \in Coordinators, NEW i \in DOMAIN intents[l] PROVE BoundAt(l, i, intents[l][i])'
    <2>1. intents'[l][i] = intents[l][i]
      BY <1>1, <1>3
    <2>2. BoundAt(l, i, intents[l][i]) /\ intents[l][i].wait \in Waits
      BY <1>3, IntentTypes DEF Bound
    <2>3. intents[l][i].cont # "none" => wait'[intents[l][i].wait] = wait[intents[l][i].wait]
      BY <2>2 DEF BoundAt
    <2> QED
      BY <2>1, <2>2, <2>3 DEF BoundAt
  <1> SUFFICES ASSUME NEW l \in Coordinators, NEW i \in DOMAIN intents'[l] PROVE BoundAt(l, i, intents[l][i])'
    BY DEF Bound
  <1>4. CASE i \in DOMAIN intents[l]
    BY <1>3, <1>4
  <1>5. CASE i \notin DOMAIN intents[l]
    <2>1. l = k /\ i = n
      BY <1>1, <1>5
    <2> QED
      BY <1>1, <1>2, <2>1 DEF BoundAt
  <1> QED
    BY <1>4, <1>5

LEMMA NewAlone ==
    ASSUME TypeOK, Alone, NEW k \in Coordinators, NEW x \in Intents, x.cont \notin Running,
           intents' = [intents EXCEPT ![k] = Append(@, x)], UNCHANGED lane
    PROVE  Alone'
  <1>0. intents \in [Coordinators -> Seq(Intents)]
    BY DEF TypeOK, Intents
  <1> DEFINE n == Len(intents[k]) + 1
  <1>1. /\ n \in DOMAIN intents'[k] /\ intents'[k][n] = x
        /\ \A i \in DOMAIN intents'[k] : i \in DOMAIN intents[k] \/ i = n
        /\ \A i \in DOMAIN intents[k] : i \in DOMAIN intents'[k] /\ intents'[k][i] = intents[k][i] /\ i # n
        /\ \A l \in Coordinators : l # k => intents'[l] = intents[l]
    BY <1>0, Appends
  <1> HIDE DEF n
  <1>2. \A l \in Coordinators : \A i \in DOMAIN intents'[l] : intents'[l][i].cont \in Running =>
            i \in DOMAIN intents[l] /\ intents[l][i].cont \in Running
    BY <1>1
  <1> SUFFICES ASSUME NEW l \in Coordinators, NEW i \in DOMAIN intents'[l], intents'[l][i].cont \in Running
               PROVE  /\ lane'[l] = "continuation"
                      /\ \A j \in DOMAIN intents'[l] : intents'[l][j].cont \in Running => j = i
    BY DEF Alone
  <1> QED
    BY <1>2 DEF Alone

LEMMA NewForward ==
    ASSUME TypeOK, NEW k \in Coordinators, NEW x \in Intents,
           intents' = [intents EXCEPT ![k] = Append(@, x)]
    PROVE  Forward
  <1>0. intents \in [Coordinators -> Seq(Intents)]
    BY DEF TypeOK, Intents
  <1>1. /\ \A i \in DOMAIN intents[k] : i \in DOMAIN intents'[k] /\ intents'[k][i] = intents[k][i]
        /\ \A l \in Coordinators : l # k => intents'[l] = intents[l]
    BY <1>0, Appends
  <1> QED
    BY <1>1 DEF Forward

LEMMA Opened ==
    ASSUME Resumption, NEW g \in Groups, dog[g].st # "none"
    PROVE  /\ dog[g].wait \in Waits /\ GroupOf[dog[g].wait] = g /\ CoordOf[dog[g].wait] \in Coordinators
           /\ \A c \in Kids[g] : owner[c] = CoordOf[dog[g].wait]
  <1>1. ServedBy(g, dog[g])
    BY DEF Resumption, Served
  <1> QED
    BY <1>1, StructureAssumption DEF ServedBy

LEMMA BlockedSafe == ASSUME Resumption, NEW g \in Groups, DogBlocked(g) PROVE Resumption'
  <1>0. dog[g].st = "observed"
    BY DEF DogBlocked
  <1>1. PICK w \in Waits : w = dog[g].wait
    BY <1>0, Opened
  <1>2. PICK k \in Coordinators : k = CoordOf[w]
    BY StructureAssumption
  <1>3. PICK x : x = Intent(w, "quarantined", Unread(k, EnsureExpected(w, mail)), "none")
    OBVIOUS
  <1>4. /\ UNCHANGED <<wait, job, owner, receipt, live, lane, answer, others, crashes, readmits>>
        /\ mail' = EnsureExpected(w, mail)
        /\ intents' = [intents EXCEPT ![k] = Append(@, x)]
        /\ dog' = [dog EXCEPT ![g].st = "pending"]
    BY <1>1, <1>2, <1>3 DEF DogBlocked, counters
  <1>5. x \in Intents /\ x.wait = w /\ x.cont = "none"
    BY <1>3 DEF Intent, Intents, Unread, RowsOf
  <1>6. /\ mail \in Mails /\ intents \in [Coordinators -> Seq(Intents)] /\ dog \in [Groups -> Dogs]
    BY DEF Resumption, TypeOK, Mails, Rows, Intents, Dogs
  <1>7. /\ mail' \in Mails
        /\ Fresh(mail, mail')
    BY <1>4, <1>6, EnsuredTyped
  <1>8. /\ dog' \in [Groups -> Dogs]
        /\ \A h \in Groups : dog'[h].wait = dog[h].wait /\ (dog'[h].st = "none" <=> dog[h].st = "none")
    BY <1>0, <1>4, <1>6, DogGoes
  <1>9. intents' \in [Coordinators -> Seq(Intents)]
    BY <1>4, <1>5, <1>6, Appends
  <1>10. TypeOK'
    BY <1>4, <1>7, <1>8, <1>9 DEF Resumption, TypeOK, Mails, Rows, Intents, Dogs
  <1>11. Served'
    BY <1>4, <1>8, KeepServed DEF Resumption
  <1>12. Unpublished'
    BY <1>4, ResultsKept DEF Resumption, Unpublished
  <1>13. Bound'
    BY <1>2, <1>4, <1>5, NewBound DEF Resumption
  <1>14. Alone'
    BY <1>4, <1>5, NewAlone DEF Resumption, Running
  <1>15. \A r \in Keys : /\ mail'[r].state \in Kept => mail'[r] = mail[r]
                         /\ mail[r].state \in Kept => mail'[r] = mail[r]
    BY <1>7 DEF Fresh, Kept
  <1>16. Batched'
    BY <1>4, <1>5, <1>15, NewForward, KeepBatched DEF Resumption
  <1>17. BatchComplete'
    BY <1>4, <1>15, KeepBatch DEF Resumption
  <1> QED
    BY <1>10, <1>11, <1>12, <1>13, <1>14, <1>16, <1>17 DEF Resumption

\* what the transaction of an idle lane does to the mailbox: it claims a batch
\* of rows of the coordinator, in which every expected child has one unless
\* its row was claimed or acknowledged before
Commits(w, k, rows) ==
    /\ wait[w].state = "waiting" /\ k = CoordOf[w]
    /\ wait' = [wait EXCEPT ![w] = [state |-> "scheduled", intent |-> Len(intents[k]) + 1]]
    /\ intents' = [intents EXCEPT ![k] = Append(@, Intent(w, "enqueued", rows, "job"))]
    /\ mail' \in Mails
    /\ \A r \in rows : mail'[r] = [state |-> "claimed", token |-> w] /\ owner[r[2]] = k
    /\ \A r \in Keys \ rows : mail'[r] = mail[r] \/ (mail[r].state = "none" /\ mail'[r].state = "unread")
    /\ \A r \in Keys : mail[r].state \in Kept => mail'[r].state \in Kept
    /\ \A c \in Kids[GroupOf[w]] : \E r \in Keys : r[2] = c /\ mail'[r].state \in Kept
    /\ \A c \in Children : job[c] \in {"none", "active"} => mail'[<<"result", c>>].state = "none"

LEMMA Committed ==
    ASSUME Resumption, NEW g \in Groups, DogCommit(g)
    PROVE  \E w \in Waits : \E k \in Coordinators : \E rows \in SUBSET Keys : Commits(w, k, rows)
  <1>0. dog[g].st = "observed"
    BY DEF DogCommit
  <1>1. PICK w \in Waits : w = dog[g].wait
    BY <1>0, Opened
  <1>2. PICK k \in Coordinators : k = CoordOf[w]
    BY StructureAssumption
  <1>3. PICK m : m = EnsureExpected(w, mail)
    OBVIOUS
  <1>4. PICK o : o = Released(CoordOf[w], m)
    OBVIOUS
  <1>5. /\ wait[w].state = "waiting"
        /\ mail' = Claimed(w, o)
        /\ intents' = [intents EXCEPT ![k] = Append(@, Intent(w, "enqueued", Unread(k, o), "job"))]
        /\ wait' = [wait EXCEPT ![w] = [state |-> "scheduled", intent |-> Len(intents[k]) + 1]]
    BY <1>1, <1>2, <1>3, <1>4 DEF DogCommit
  <1>6. /\ m \in Mails
        /\ Fresh(mail, m)
        /\ \A c \in Kids[GroupOf[w]] : c \in Children => \E r \in Keys : r[2] = c /\ m[r].state # "none"
    <2>1. mail \in Mails
      BY DEF Resumption, TypeOK, Mails, Rows
    <2>2. /\ EnsureExpected(w, mail) \in Mails
          /\ Fresh(mail, EnsureExpected(w, mail))
          /\ \A c \in Kids[GroupOf[w]] : c \in Children =>
                \E r \in Keys : r[2] = c /\ EnsureExpected(w, mail)[r].state # "none"
      BY <2>1, EnsuredTyped
    <2> QED
      BY <1>3, <2>2
  <1>7. /\ mail' \in Mails /\ Unread(k, o) \in SUBSET Keys
        /\ \A r \in Unread(k, o) : mail'[r] = [state |-> "claimed", token |-> w]
        /\ \A r \in Keys \ Unread(k, o) : mail'[r] = m[r]
        /\ \A r \in Keys : m[r].state \in Kept => mail'[r].state \in Kept
        /\ \A r \in Keys : m[r].state # "none" /\ owner[r[2]] = k => mail'[r].state \in Kept
    <2>1. m \in Mails
      BY <1>6
    <2>2. Takes(w, m, o)
      BY <1>4, <2>1, ClaimedRows
    <2> QED
      BY <1>2, <1>5, <2>2 DEF Takes
  <1>8. \A r \in Unread(k, o) : owner[r[2]] = k /\ o[r].state = "unread"
    BY DEF Unread, RowsOf
  <1>9. \A r \in Keys : m[r] = mail[r] \/ (mail[r].state = "none" /\ m[r].state = "unread")
    BY <1>6 DEF Fresh
  <1>10. ASSUME NEW c \in Kids[GroupOf[w]] PROVE \E r \in Keys : r[2] = c /\ mail'[r].state \in Kept
    <2>1. c \in Kids[g] /\ c \in Children /\ owner[c] = k
      BY <1>0, <1>1, <1>2, Opened, KidsAreChildren
    <2>2. PICK r \in Keys : r[2] = c /\ m[r].state # "none"
      BY <1>6, <2>1
    <2> QED
      BY <1>7, <2>1, <2>2
  <1>11. ASSUME NEW c \in Children, job[c] \in {"none", "active"} PROVE mail'[<<"result", c>>].state = "none"
    <2>1. <<"result", c>> \in Keys
      BY DEF Keys
    <2>2. m[<<"result", c>>].state = "none"
      BY <1>3, <1>11, ResultsKept DEF Resumption, Unpublished
    <2>3. <<"result", c>> \notin Unread(k, o)
      BY <2>1, <2>2, <1>4 DEF Unread, RowsOf, Released
    <2> QED
      BY <1>7, <2>1, <2>2, <2>3
  <1>12. \A r \in Keys : mail[r].state \in Kept => mail'[r].state \in Kept
    BY <1>7, <1>9 DEF Kept
  <1>13. Commits(w, k, Unread(k, o))
    <2>1. \A r \in Unread(k, o) : mail'[r] = [state |-> "claimed", token |-> w] /\ owner[r[2]] = k
      BY <1>7, <1>8
    <2>2. \A r \in Keys \ Unread(k, o) :
              mail'[r] = mail[r] \/ (mail[r].state = "none" /\ mail'[r].state = "unread")
      BY <1>7, <1>9
    <2>3. mail' \in Mails
      BY <1>7
    <2> QED
      BY <1>2, <1>5, <1>10, <1>11, <1>12, <2>1, <2>2, <2>3 DEF Commits
  <1> QED
    BY <1>7, <1>13

LEMMA CommitSafe == ASSUME Resumption, NEW g \in Groups, DogCommit(g) PROVE Resumption'
  <1>1. PICK w \in Waits, k \in Coordinators, rows \in SUBSET Keys : Commits(w, k, rows)
    BY Committed
  <1>2. PICK x : x = Intent(w, "enqueued", rows, "job")
    OBVIOUS
  <1>3. PICK y : y = [state |-> "scheduled", intent |-> Len(intents[k]) + 1]
    OBVIOUS
  <1>4. /\ UNCHANGED <<job, owner, receipt, lane, answer, others, crashes, readmits>>
        /\ dog[g].st # "none" /\ dog' = [dog EXCEPT ![g].st = "committed"]
        /\ live' \in [Waits -> BOOLEAN]
    BY DEF DogCommit, counters, Resumption, TypeOK
  <1>5. /\ wait[w].state = "waiting" /\ k = CoordOf[w] /\ wait' = [wait EXCEPT ![w] = y]
        /\ intents' = [intents EXCEPT ![k] = Append(@, x)] /\ mail' \in Mails
    BY <1>1, <1>2, <1>3 DEF Commits
  <1>6. intents \in [Coordinators -> Seq(Intents)] /\ dog \in [Groups -> Dogs]
    BY DEF Resumption, TypeOK, Intents, Dogs
  <1>7. x \in Intents /\ x.wait = w /\ x.cont = "job" /\ x.rows = rows
    BY <1>2 DEF Intent, Intents
  <1>8. y \in [state : WaitStates, intent : Nat] /\ y.state = "scheduled" /\ y.intent = Len(intents[k]) + 1
    <2>1. Len(intents[k]) + 1 \in Nat
      BY <1>6, SMTT(30)
    <2> QED
      BY <1>3, <2>1 DEF WaitStates
  <1>9. /\ dog' \in [Groups -> Dogs]
        /\ \A h \in Groups : dog'[h].wait = dog[h].wait /\ (dog'[h].st = "none" <=> dog[h].st = "none")
    BY <1>4, <1>6, DogGoes
  <1>10. /\ wait' \in [Waits -> [state : WaitStates, intent : Nat]] /\ wait'[w] = y
         /\ \A v \in Waits : v # w => wait'[v] = wait[v]
    BY <1>5, <1>8 DEF Resumption, TypeOK
  <1>11. TypeOK'
    <2>1. intents' \in [Coordinators -> Seq(Intents)]
      BY <1>5, <1>6, <1>7, Appends
    <2> QED
      BY <1>4, <1>5, <1>9, <1>10, <2>1 DEF Resumption, TypeOK, Mails, Rows, Intents, Dogs
  <1>12. Served'
    BY <1>4, <1>9, KeepServed DEF Resumption
  <1>13. Unpublished'
    BY <1>1, <1>4 DEF Commits, Unpublished
  <1>14. Bound'
    BY <1>5, <1>7, <1>8, <1>10, NewBound DEF Resumption
  <1>15. Alone'
    BY <1>4, <1>5, <1>7, NewAlone DEF Resumption, Running
  <1>16. Batched'
    <2> SUFFICES ASSUME NEW r \in Keys, mail'[r].state \in Kept
                 PROVE  \E l \in Coordinators : \E i \in DOMAIN intents'[l] :
                            /\ intents'[l][i].cont # "none"
                            /\ intents'[l][i].wait = mail'[r].token
                            /\ r \in intents'[l][i].rows
      BY DEF Batched
    <2>1. CASE r \in rows
      <3>1. PICK n : n \in DOMAIN intents'[k] /\ intents'[k][n] = x
        BY <1>5, <1>6, <1>7, Appends
      <3>2. mail'[r].token = w
        BY <1>1, <2>1, SMTT(30) DEF Commits
      <3> QED
        BY <1>7, <2>1, <3>1, <3>2
    <2>2. CASE r \notin rows
      <3>1. mail'[r] = mail[r]
        BY <1>1, <2>2 DEF Commits, Kept
      <3>2. PICK l \in Coordinators : \E i \in DOMAIN intents[l] :
                intents[l][i].cont # "none" /\ intents[l][i].wait = mail[r].token /\ r \in intents[l][i].rows
        BY <3>1 DEF Resumption, Batched
      <3>3. PICK i \in DOMAIN intents[l] :
                intents[l][i].cont # "none" /\ intents[l][i].wait = mail[r].token /\ r \in intents[l][i].rows
        BY <3>2
      <3>4. Forward
        BY <1>5, <1>7, NewForward DEF Resumption
      <3> QED
        BY <3>1, <3>3, <3>4 DEF Forward
    <2> QED
      BY <2>1, <2>2
  <1>17. BatchComplete'
    <2> SUFFICES ASSUME NEW v \in Waits, wait'[v].state \in {"scheduled", "consumed"},
                        NEW c \in Kids[GroupOf[v]]
                 PROVE  \E r \in Keys : r[2] = c /\ mail'[r].state \in {"claimed", "acked"}
      BY DEF BatchComplete
    <2>1. CASE v = w
      BY <1>1, <2>1 DEF Commits, Kept
    <2>2. CASE v # w
      <3>1. wait[v].state \in {"scheduled", "consumed"}
        BY <1>10, <2>2
      <3>2. PICK r \in Keys : r[2] = c /\ mail[r].state \in {"claimed", "acked"}
        BY <3>1 DEF Resumption, BatchComplete
      <3> QED
        BY <1>1, <3>2 DEF Commits, Kept
    <2> QED
      BY <2>1, <2>2
  <1> QED
    BY <1>11, <1>12, <1>13, <1>14, <1>15, <1>16, <1>17 DEF Resumption

---------------------------------------------------------------------------
(* Theorems *)

LEMMA Starts == Init => Resumption
  <1> SUFFICES ASSUME Init PROVE Resumption
    OBVIOUS
  <1>1. \A k \in Coordinators : intents[k] = <<>> /\ DOMAIN intents[k] = {}
    BY SMTT(30) DEF Init
  <1>2. TypeOK
    <2>1. intents \in [Coordinators -> Seq(Intents)]
      BY SMTT(30) DEF Init
    <2>2. {others, crashes, readmits} \subseteq Nat
      BY SMTT(30) DEF Init
    <2>3. 0 \in Nat /\ 0 \in 0..MaxAttempts
      BY CoordinationBounds, SMTT(30)
    <2>4. dog \in [Groups -> Dogs]
      BY <2>3 DEF Init, Dogs
    <2>5. mail \in Mails
      BY DEF Init, Mails, Rows
    <2>6. wait \in [Waits -> [state : WaitStates, intent : Nat]]
      BY <2>3 DEF Init, WaitStates
    <2> QED
      BY <2>1, <2>2, <2>4, <2>5, <2>6 DEF Init, TypeOK, Intents, Dogs, Mails, Rows
  <1>3. Served
    <2>1. \A g \in Groups : dog[g].st = "none" /\ \A c \in Kids[g] : job[c] = "none"
      BY KidsAreChildren DEF Init
    <2> QED
      BY <2>1 DEF Served, ServedBy
  <1>4. \A r \in Keys : mail[r].state = "none"
    BY DEF Init
  <1>5. Unpublished
    BY <1>4 DEF Unpublished, Keys
  <1>6. Bound /\ Alone
    BY <1>1 DEF Bound, Alone
  <1>7. Batched
    BY <1>4 DEF Batched, Kept
  <1>8. \A w \in Waits : wait[w].state = "none"
    BY DEF Init
  <1>9. BatchComplete
    BY <1>8 DEF BatchComplete
  <1> QED
    BY <1>2, <1>3, <1>5, <1>6, <1>7, <1>9 DEF Resumption

LEMMA Steps == Resumption /\ [Next]_vars => Resumption'
  <1> SUFFICES ASSUME Resumption, [Next]_vars PROVE Resumption'
    OBVIOUS
  <1>1. CASE UNCHANGED vars
    <2>1. TypeOK'
      BY <1>1 DEF vars, Resumption, TypeOK
    <2> QED
      BY <1>1, <2>1, Quiet DEF vars
  <1>2. CASE \E w \in Waits : Admit(w) \/ ClaimExpires(w) \/ \E s \in BOOLEAN : Readmit(w, s)
    BY <1>2, AdmitSafe, ExpireSafe, ReadmitSafe
  <1>3. CASE \E c \in Children : (\E o \in Terminal : RuntimeTerminal(c, o)) \/ ChildLost(c) \/ Reconcile(c)
    BY <1>3, ChildSafe, ReconcileSafe
  <1>4. CASE \E g \in Groups : DogStep(g) \/ DogCrash(g)
    BY <1>4, PassSafe, CommitSafe, BlockedSafe DEF DogStep
  <1>5. CASE \E k \in Coordinators : ParentEnds(k) \/ OtherLeases(k) \/ OtherEnds(k)
    BY <1>5, LaneSafe
  <1>6. CASE \E k \in Coordinators : \E i \in 1..Len(intents[k]) :
                ContinuationStep(k, i) \/ ContinuationCrash(k, i) \/ ContinuationSkipped(k, i)
    BY <1>6, TurnSafe, ConsumeSafe DEF ContinuationStep
  <1> QED
    BY <1>1, <1>2, <1>3, <1>4, <1>5, <1>6 DEF Next

LEMMA Invariance == Spec => []Resumption
  BY Starts, Steps, PTL DEF Spec

\* Every row, watchdog and lane keeps its type (the tables of workers.rs,
\* worker_coordination.rs and worker_resume.rs).
THEOREM TypeCorrect == Spec => []TypeOK
  <1>1. Resumption => TypeOK
    BY DEF Resumption
  <1> QED
    BY <1>1, Invariance, PTL

\* an intent that has a continuation
LEMMA ContinuationAt ==
    ASSUME NEW p \in Continuations
    PROVE  /\ p[1] \in Coordinators /\ p[2] \in DOMAIN intents[p[1]] /\ p = <<p[1], p[2]>>
           /\ At(p) = intents[p[1]][p[2]] /\ At(p).cont # "none"
  <1>1. PICK k \in Coordinators : p \in {<<k, i>> : i \in {j \in DOMAIN intents[k] : intents[k][j].cont # "none"}}
    BY DEF Continuations
  <1>2. PICK i \in DOMAIN intents[k] : intents[k][i].cont # "none" /\ p = <<k, i>>
    BY <1>1
  <1> QED
    BY <1>2 DEF At

LEMMA AtContinuation ==
    ASSUME NEW k \in Coordinators, NEW i \in DOMAIN intents[k], intents[k][i].cont # "none"
    PROVE  <<k, i>> \in Continuations /\ At(<<k, i>>) = intents[k][i]
  <1>1. <<k, i>> \in {<<k, j>> : j \in {j \in DOMAIN intents[k] : intents[k][j].cont # "none"}}
    OBVIOUS
  <1>2. <<k, i>> \in Continuations
    BY <1>1 DEF Continuations
  <1> QED
    BY <1>2 DEF At

\* the wait of a continuation names its place
LEMMA Placed ==
    ASSUME Bound, NEW p \in Continuations
    PROVE  /\ p = <<CoordOf[At(p).wait], wait[At(p).wait].intent>>
           /\ wait[At(p).wait].state \in {"scheduled", "consumed"}
  <1>1. BoundAt(p[1], p[2], At(p))
    BY ContinuationAt DEF Bound
  <1> QED
    BY <1>1, ContinuationAt DEF BoundAt

\* Coordinator resume is at-most-once: whatever passes the watchdog makes, and
\* wherever it crashes, a wait has one continuation.
THEOREM ResumedOnce == Spec => []OneContinuationPerWait
  <1>1. Resumption => OneContinuationPerWait
    BY Placed DEF Resumption, OneContinuationPerWait
  <1> QED
    BY <1>1, Invariance, PTL

\* A quarantined wait is never resumed: the watchdog reads the wait again
\* inside its transaction, and a scheduled wait is not quarantined any more.
THEOREM SuppressedForGood == Spec => []QuarantineSuppresses
  <1>1. Resumption => QuarantineSuppresses
    BY Placed DEF Resumption, QuarantineSuppresses
  <1> QED
    BY <1>1, Invariance, PTL

\* A wait is scheduled with a row for every expected child
\* (ensure_expected_child_mailbox_records_in_transaction), whichever of its
\* coordinator's waits that row was claimed for.
THEOREM BatchesComplete == Spec => []BatchComplete
  <1>1. Resumption => BatchComplete
    BY DEF Resumption
  <1> QED
    BY <1>1, Invariance, PTL

\* A result taken from the mailbox is in the batch of a continuation
\* (create_or_coalesce_resume_intent_in_transaction).
THEOREM ClaimsAreCarried == Spec => []ClaimHasContinuation
  <1>1. ASSUME Resumption PROVE ClaimHasContinuation
    <2> SUFFICES ASSUME NEW r \in Keys, mail[r].state \in Kept
                 PROVE  \E p \in Continuations : At(p).wait = mail[r].token /\ r \in At(p).rows
      BY DEF ClaimHasContinuation, Kept
    <2>1. PICK k \in Coordinators : \E i \in DOMAIN intents[k] :
              intents[k][i].cont # "none" /\ intents[k][i].wait = mail[r].token /\ r \in intents[k][i].rows
      BY <1>1 DEF Resumption, Batched
    <2>2. PICK i \in DOMAIN intents[k] :
              intents[k][i].cont # "none" /\ intents[k][i].wait = mail[r].token /\ r \in intents[k][i].rows
      BY <2>1
    <2> QED
      BY <2>2, AtContinuation
  <1> QED
    BY <1>1, Invariance, PTL

\* what a step does to the intents and the mailbox
Records(k, x) ==
    /\ x \in Intents /\ x.cont = "none" /\ OwnedAt(k, x)
    /\ intents' = [intents EXCEPT ![k] = Append(@, x)]

Turns(k, i) == Continues(k, i) /\ intents'[k][i].state = intents[k][i].state

LEMMA IntentSteps ==
    ASSUME Resumption, [Next]_vars
    PROVE  \/ UNCHANGED intents /\ Fresh(mail, mail')
           \/ \E k \in Coordinators : \E x : Records(k, x) /\ Fresh(mail, mail') /\ UNCHANGED owner
           \/ /\ \E w \in Waits : \E k \in Coordinators : \E rows \in SUBSET Keys : Commits(w, k, rows)
              /\ UNCHANGED owner
           \/ \E k \in Coordinators : \E i \in 1..Len(intents[k]) : Turns(k, i) /\ UNCHANGED mail
           \/ \E k \in Coordinators : \E i \in 1..Len(intents[k]) : Consume(k, i)
  <1>0. UNCHANGED mail => Fresh(mail, mail')
    BY DEF Fresh
  <1>1. CASE \/ \E w \in Waits : Admit(w) \/ ClaimExpires(w) \/ \E s \in BOOLEAN : Readmit(w, s)
             \/ UNCHANGED vars
    <2>1. UNCHANGED <<intents, mail>>
      BY <1>1 DEF Admit, ClaimExpires, Readmit, vars
    <2> QED
      BY <1>0, <2>1
  <1>2. CASE \E c \in Children : (\E o \in Terminal : RuntimeTerminal(c, o)) \/ ChildLost(c) \/ Reconcile(c)
    <2>1. UNCHANGED intents /\ (UNCHANGED mail \/ \E c \in Children : Reconcile(c))
      BY <1>2 DEF RuntimeTerminal, ChildLost, Reconcile
    <2> QED
      BY <1>0, <2>1, ReconcileMail
  <1>3. CASE \E g \in Groups : DogStep(g) \/ DogCrash(g)
    <2>1. PICK g \in Groups : DogStep(g) \/ DogCrash(g)
      BY <1>3
    <2>2. CASE DogCommit(g)
      <3>1. UNCHANGED owner
        BY <2>2 DEF DogCommit
      <3> QED
        BY <2>2, <3>1, Committed
    <2>3. CASE DogBlocked(g)
      <3>1. dog[g].wait \in Waits /\ CoordOf[dog[g].wait] \in Coordinators
        BY <2>3, Opened DEF DogBlocked
      <3>2. PICK k \in Coordinators : k = CoordOf[dog[g].wait]
        BY <3>1
      <3>3. PICK m : m = EnsureExpected(dog[g].wait, mail)
        OBVIOUS
      <3>4. PICK x : x = Intent(dog[g].wait, "quarantined", Unread(k, m), "none")
        OBVIOUS
      <3>5. mail' = m /\ intents' = [intents EXCEPT ![k] = Append(@, x)] /\ UNCHANGED owner
        BY <2>3, <3>2, <3>3, <3>4 DEF DogBlocked
      <3>6. mail \in Mails
        BY DEF Resumption, TypeOK, Mails, Rows
      <3>7. Fresh(mail, mail')
        BY <3>1, <3>3, <3>5, <3>6, EnsuredTyped
      <3>8. x \in Intents /\ x.cont = "none" /\ x.rows = Unread(k, m)
        BY <3>1, <3>4 DEF Intent, Intents, Unread, RowsOf
      <3>9. Records(k, x)
        BY <3>5, <3>8 DEF Records, OwnedAt, Unread, RowsOf
      <3> QED
        BY <3>5, <3>7, <3>9
    <2>4. CASE ~DogCommit(g) /\ ~DogBlocked(g)
      <3>1. UNCHANGED <<intents, mail>>
        BY <2>1, <2>4 DEF DogStep, DogObserve, DogExhausted, DogDrops, DogSuppressed, DogSucceeds, DogCrash
      <3> QED
        BY <1>0, <3>1
    <2> QED
      BY <2>2, <2>3, <2>4
  <1>4. CASE \E k \in Coordinators : ParentEnds(k) \/ OtherLeases(k) \/ OtherEnds(k)
    <2>1. UNCHANGED <<intents, mail>>
      BY <1>4 DEF ParentEnds, OtherLeases, OtherEnds
    <2> QED
      BY <1>0, <2>1
  <1>5. CASE \E k \in Coordinators : \E i \in 1..Len(intents[k]) :
                ContinuationStep(k, i) \/ ContinuationCrash(k, i) \/ ContinuationSkipped(k, i)
    <2>1. PICK k \in Coordinators : \E i \in 1..Len(intents[k]) :
                ContinuationStep(k, i) \/ ContinuationCrash(k, i) \/ ContinuationSkipped(k, i)
      BY <1>5
    <2>2. PICK i \in 1..Len(intents[k]) :
                ContinuationStep(k, i) \/ ContinuationCrash(k, i) \/ ContinuationSkipped(k, i)
      BY <2>1
    <2>3. CASE ~Consume(k, i)
      <3>1. intents[k][i].cont # "none" /\ UNCHANGED mail /\ \E c \in {"queued", "leased", "done", "skipped"} : ContTo(k, i, c)
        BY <2>2, <2>3 DEF ContinuationStep, QueueContinuation, LeaseContinuation, ContinuationEnds,
           ContinuationCrash, ContinuationSkipped
      <3>2. PICK c \in {"queued", "leased", "done", "skipped"} : ContTo(k, i, c)
        BY <3>1
      <3>3. c # "none" /\ c \in {"none", "job", "queued", "leased", "accepted", "done", "skipped"}
        OBVIOUS
      <3>4. intents \in [Coordinators -> Seq(Intents)]
        BY DEF Resumption, TypeOK, Intents
      <3>5. Turns(k, i)
        BY <3>1, <3>2, <3>3, <3>4, Goes DEF Turns, Continues
      <3> QED
        BY <3>1, <3>5
    <2> QED
      BY <2>3
  <1> QED
    BY <1>1, <1>2, <1>3, <1>4, <1>5 DEF Next

\* only the first lease of a continuation acknowledges
LEMMA OnlyConsume ==
    ASSUME Resumption, [Next]_vars, NEW r \in Keys, mail[r].state # "acked", mail'[r].state = "acked"
    PROVE  \E k \in Coordinators : \E i \in 1..Len(intents[k]) :
              Consume(k, i) /\ mail[r].state = "claimed" /\ mail[r].token = intents[k][i].wait
  <1>1. ~Fresh(mail, mail')
    BY DEF Fresh
  <1>2. ASSUME NEW w \in Waits, NEW k \in Coordinators, NEW rows \in SUBSET Keys, Commits(w, k, rows)
        PROVE  FALSE
    <2>1. [state |-> "claimed", token |-> w].state = "claimed"
      BY SMTT(30)
    <2> QED
      BY <1>2, <2>1 DEF Commits
  <1>3. PICK k \in Coordinators : \E i \in 1..Len(intents[k]) : Consume(k, i)
    <2>1. UNCHANGED mail => Fresh(mail, mail')
      BY DEF Fresh
    <2> QED
      BY <1>1, <1>2, <2>1, IntentSteps
  <1>4. PICK i \in 1..Len(intents[k]) : Consume(k, i)
    BY <1>3
  <1>5. intents[k][i].wait \in Waits /\ mail \in Mails
    <2>1. i \in DOMAIN intents[k]
      BY SMTT(30) DEF Resumption, TypeOK
    <2> QED
      BY <2>1, IntentTypes DEF Resumption, TypeOK, Mails, Rows
  <1>6. mail' \in {Acked(intents[k][i].wait), mail}
    BY <1>4 DEF Consume
  <1>7. mail[r].state = "claimed" /\ mail[r].token = intents[k][i].wait
    BY <1>5, <1>6, AckedRows
  <1> QED
    BY <1>4, <1>7

\* A mailbox row is acknowledged only by a continuation that was given it and
\* holds the lane (consume_coordinator_resume_after_lease).
THEOREM AcksUnderLease == Spec => AckUnderLease
  <1>1. ASSUME Resumption, [Next]_vars, NEW r \in Keys, mail[r].state # "acked", mail'[r].state = "acked"
        PROVE  \E p \in Continuations : /\ At(p).cont = "leased" /\ r \in At(p).rows
                                        /\ lane[p[1]] = "continuation"
    <2>1. PICK k \in Coordinators : \E i \in 1..Len(intents[k]) :
              Consume(k, i) /\ mail[r].state = "claimed" /\ mail[r].token = intents[k][i].wait
      BY <1>1, OnlyConsume
    <2>2. PICK i \in 1..Len(intents[k]) :
              Consume(k, i) /\ mail[r].state = "claimed" /\ mail[r].token = intents[k][i].wait
      BY <2>1
    <2>3. i \in DOMAIN intents[k]
      BY <1>1, SMTT(30) DEF Resumption, TypeOK
    <2>4. intents[k][i].cont = "leased" /\ lane[k] = "continuation"
      BY <1>1, <2>2, <2>3 DEF Consume, Resumption, Alone, Running
    <2>5. PICK l \in Coordinators : \E j \in DOMAIN intents[l] :
              intents[l][j].cont # "none" /\ intents[l][j].wait = mail[r].token /\ r \in intents[l][j].rows
      BY <1>1, <2>2 DEF Resumption, Batched, Kept
    <2>6. PICK j \in DOMAIN intents[l] :
              intents[l][j].cont # "none" /\ intents[l][j].wait = mail[r].token /\ r \in intents[l][j].rows
      BY <2>5
    <2>7. BoundAt(k, i, intents[k][i]) /\ BoundAt(l, j, intents[l][j])
      BY <1>1, <2>3 DEF Resumption, Bound
    <2>8. l = k /\ j = i
      BY <2>2, <2>4, <2>6, <2>7 DEF BoundAt
    <2>9. <<k, i>> \in Continuations /\ At(<<k, i>>) = intents[k][i] /\ <<k, i>>[1] = k
      BY <2>3, <2>4, AtContinuation
    <2> QED
      BY <2>4, <2>6, <2>8, <2>9
  <1>2. Resumption /\ [Next]_vars =>
            [\A r \in Keys : mail[r].state # "acked" /\ mail'[r].state = "acked" =>
                \E p \in Continuations : /\ At(p).cont = "leased" /\ r \in At(p).rows
                                         /\ lane[p[1]] = "continuation"]_vars
    BY <1>1
  <1> QED
    BY <1>2, Invariance, PTL DEF Spec, AckUnderLease

---------------------------------------------------------------------------
(* Coordinators with one wait *)

\* the owner of a child is set once, with its job
LEMMA OwnerSteps ==
    ASSUME Resumption, [Next]_vars, NEW c \in Children
    PROVE  /\ job[c] # "none" => job'[c] # "none" /\ owner'[c] = owner[c]
           /\ job'[c] = "none" => owner'[c] = owner[c]
  <1>1. CASE \E w \in Waits : Admit(w)
    <2>1. PICK w \in Waits : Admit(w)
      BY <1>1
    <2>2. PICK new : /\ new = {d \in Kids[GroupOf[w]] : job[d] = "none"}
                     /\ job' = [d \in Children |-> IF d \in new THEN "active" ELSE job[d]]
                     /\ owner' = [d \in Children |-> IF d \in new THEN CoordOf[w] ELSE owner[d]]
      BY <2>1 DEF Admit
    <2>3. CASE c \in new
      BY <2>2, <2>3
    <2>4. CASE c \notin new
      BY <2>2, <2>4
    <2> QED
      BY <2>3, <2>4
  <1>2. CASE \E d \in Children : ChildLost(d) \/ Reconcile(d)
    BY <1>2 DEF ChildLost, Reconcile, Resumption, TypeOK
  <1>3. CASE UNCHANGED <<job, owner>>
    BY <1>3
  <1>4. ASSUME NEW w \in Waits, ClaimExpires(w) \/ \E s \in BOOLEAN : Readmit(w, s) PROVE UNCHANGED <<job, owner>>
    BY <1>4 DEF ClaimExpires, Readmit
  <1>5. ASSUME NEW d \in Children, NEW o \in Terminal, RuntimeTerminal(d, o) PROVE UNCHANGED <<job, owner>>
    BY <1>5 DEF RuntimeTerminal
  <1>6. ASSUME NEW g \in Groups, DogStep(g) \/ DogCrash(g) PROVE UNCHANGED <<job, owner>>
    BY <1>6 DEF DogStep, DogObserve, DogExhausted, DogCommit, DogBlocked, DogDrops, DogSuppressed, DogSucceeds,
       DogCrash
  <1>7. ASSUME NEW k \in Coordinators, ParentEnds(k) \/ OtherLeases(k) \/ OtherEnds(k)
        PROVE  UNCHANGED <<job, owner>>
    BY <1>7 DEF ParentEnds, OtherLeases, OtherEnds
  <1>8. ASSUME NEW k \in Coordinators, NEW i \in 1..Len(intents[k]),
               ContinuationStep(k, i) \/ ContinuationCrash(k, i) \/ ContinuationSkipped(k, i)
        PROVE  UNCHANGED <<job, owner>>
    BY <1>8 DEF ContinuationStep, QueueContinuation, LeaseContinuation, Consume, ContinuationEnds,
       ContinuationCrash, ContinuationSkipped
  <1>9. CASE UNCHANGED vars
    BY <1>9 DEF vars
  <1> QED
    BY <1>1, <1>2, <1>3, <1>4, <1>5, <1>6, <1>7, <1>8, <1>9 DEF Next

\* a batch keeps its owner
LEMMA StaysOwned ==
    ASSUME Resumption, Owned, [Next]_vars, NEW k \in Coordinators, NEW x, x.rows \in SUBSET Keys, OwnedAt(k, x)
    PROVE  \A r \in x.rows : owner'[r[2]] = k
  <1> SUFFICES ASSUME NEW r \in x.rows PROVE owner'[r[2]] = k
    OBVIOUS
  <1>1. r[2] \in Children
    BY SMTT(30) DEF Keys
  <1>2. owner[r[2]] = k /\ k # None
    BY StructureAssumption DEF OwnedAt
  <1> QED
    BY <1>1, <1>2, OwnerSteps DEF Owned

\* a batch that no step touches stays whole
LEMMA FreshWhole ==
    ASSUME NEW x, x.rows \in SUBSET Keys, WholeAt(x, mail), Fresh(mail, mail')
    PROVE  x.cont # "none" => \A r \in x.rows : mail'[r] = mail[r]
  BY DEF WholeAt, Fresh

LEMMA SameWhole ==
    ASSUME NEW x, NEW m, NEW n, WholeAt(x, m), x.cont # "none" => \A r \in x.rows : n[r] = m[r]
    PROVE  WholeAt(x, n)
  BY DEF WholeAt

LEMMA MovedWhole ==
    ASSUME NEW x, NEW y, NEW m, NEW n, WholeAt(x, m), y.rows = x.rows, y.wait = x.wait, y.state = x.state,
           y.cont # "none" => x.cont # "none",
           x.cont # "none" => \A r \in x.rows : n[r] = m[r]
    PROVE  WholeAt(y, n)
  BY DEF WholeAt

\* the continuation of a coordinator's only wait is claimed by nobody else
LEMMA CommitWhole ==
    ASSUME OneWait, Resumption, Owned, Whole, NEW w \in Waits, NEW k \in Coordinators, NEW rows \in SUBSET Keys,
           Commits(w, k, rows), NEW l \in Coordinators, NEW i \in DOMAIN intents[l],
           intents[l][i].cont # "none"
    PROVE  \A r \in intents[l][i].rows : mail'[r] = mail[r]
  <1>1. BoundAt(l, i, intents[l][i]) /\ intents[l][i].wait \in Waits /\ intents[l][i].rows \in SUBSET Keys
    BY IntentTypes DEF Resumption, Bound
  <1>2. wait[w].state = "waiting" /\ CoordOf[w] = k
    BY DEF Commits
  <1>3. l # k
    BY <1>1, <1>2 DEF OneWait, BoundAt
  <1> SUFFICES ASSUME NEW r \in intents[l][i].rows PROVE mail'[r] = mail[r]
    OBVIOUS
  <1>4. owner[r[2]] = l
    BY DEF Owned, OwnedAt
  <1>5. r \in Keys \ rows
    BY <1>1, <1>3, <1>4 DEF Commits
  <1>6. mail[r].state # "none"
    BY DEF Whole, WholeAt
  <1> QED
    BY <1>5, <1>6 DEF Commits

LEMMA BatchSteps == ASSUME OneWait, Resumption, Owned, Whole, [Next]_vars PROVE Owned' /\ Whole'
  <1>0. intents \in [Coordinators -> Seq(Intents)] /\ mail \in Mails
    BY DEF Resumption, TypeOK, Intents, Mails, Rows
  <1>1. \A c \in Children : job'[c] = "none" => owner'[c] = None
    BY OwnerSteps DEF Owned
  <1>2. ASSUME NEW k \in Coordinators, NEW i \in DOMAIN intents[k]
        PROVE  /\ OwnedAt(k, intents[k][i]) /\ WholeAt(intents[k][i], mail) /\ intents[k][i].rows \in SUBSET Keys
               /\ \A r \in intents[k][i].rows : owner'[r[2]] = k
    <2>1. /\ OwnedAt(k, intents[k][i]) /\ WholeAt(intents[k][i], mail) /\ intents[k][i].rows \in SUBSET Keys
      BY <1>2, IntentTypes DEF Owned, Whole, Resumption
    <2> QED
      BY <2>1, StaysOwned
  <1>3. CASE UNCHANGED intents /\ Fresh(mail, mail')
    <2> SUFFICES ASSUME NEW k \in Coordinators, NEW i \in DOMAIN intents[k]
                 PROVE  OwnedAt(k, intents[k][i])' /\ WholeAt(intents[k][i], mail)'
      BY <1>1, <1>3 DEF Owned, Whole
    <2>1. intents[k][i].cont # "none" => \A r \in intents[k][i].rows : mail'[r] = mail[r]
      BY <1>2, <1>3, FreshWhole
    <2>2. WholeAt(intents[k][i], mail')
      <3>1. WholeAt(intents[k][i], mail)
        BY <1>2
      <3> QED
        BY <2>1, <3>1, SameWhole
    <2> QED
      BY <1>2, <1>3, <2>2 DEF OwnedAt
  <1>4. ASSUME NEW k \in Coordinators, NEW x \in Intents, intents' = [intents EXCEPT ![k] = Append(@, x)],
               UNCHANGED owner, OwnedAt(k, x),
               x.cont # "none" => x.state # "consumed" /\ \A r \in x.rows :
                                      mail'[r].state = "claimed" /\ mail'[r].token = x.wait,
               \A l \in Coordinators : \A i \in DOMAIN intents[l] : intents[l][i].cont # "none" =>
                   \A r \in intents[l][i].rows : mail'[r] = mail[r]
        PROVE  Owned' /\ Whole'
    <2>1. /\ \A i \in DOMAIN intents'[k] :
                (i \in DOMAIN intents[k] /\ intents'[k][i] = intents[k][i]) \/ intents'[k][i] = x
          /\ \A l \in Coordinators : l # k => intents'[l] = intents[l]
      <3>1. /\ \A i \in DOMAIN intents'[k] : i \in DOMAIN intents[k] \/ i = Len(intents[k]) + 1
            /\ intents'[k][Len(intents[k]) + 1] = x
            /\ \A i \in DOMAIN intents[k] : intents'[k][i] = intents[k][i]
            /\ \A l \in Coordinators : l # k => intents'[l] = intents[l]
        BY <1>0, <1>4, Appends
      <3> QED
        BY <3>1
    <2> SUFFICES ASSUME NEW l \in Coordinators, NEW i \in DOMAIN intents'[l]
                 PROVE  OwnedAt(l, intents[l][i])' /\ WholeAt(intents[l][i], mail)'
      BY <1>1 DEF Owned, Whole
    <2>2. CASE i \in DOMAIN intents[l] /\ intents'[l][i] = intents[l][i]
      <3>1. intents[l][i].cont # "none" => \A r \in intents[l][i].rows : mail'[r] = mail[r]
        BY <1>4, <2>2
      <3>2. WholeAt(intents[l][i], mail')
        BY <1>2, <2>2, <3>1, SameWhole
      <3> QED
        BY <1>2, <2>2, <3>2 DEF OwnedAt
    <2>3. CASE l = k /\ intents'[l][i] = x
      BY <1>4, <2>3 DEF OwnedAt, WholeAt
    <2> QED
      BY <2>1, <2>2, <2>3
  <1>5. ASSUME NEW k \in Coordinators, NEW x, Records(k, x), Fresh(mail, mail'), UNCHANGED owner
        PROVE  Owned' /\ Whole'
    <2>1. \A l \in Coordinators : \A i \in DOMAIN intents[l] : intents[l][i].cont # "none" =>
             \A r \in intents[l][i].rows : mail'[r] = mail[r]
      BY <1>2, <1>5, FreshWhole
    <2> QED
      BY <1>4, <1>5, <2>1 DEF Records
  <1>6. ASSUME NEW w \in Waits, NEW k \in Coordinators, NEW rows \in SUBSET Keys, Commits(w, k, rows),
               UNCHANGED owner
        PROVE  Owned' /\ Whole'
    <2>1. PICK x : x = Intent(w, "enqueued", rows, "job")
      OBVIOUS
    <2>2. x \in Intents /\ x.wait = w /\ x.state = "enqueued" /\ x.rows = rows
      BY <2>1 DEF Intent, Intents
    <2>3. [state |-> "claimed", token |-> w].state = "claimed" /\ [state |-> "claimed", token |-> w].token = w
      BY SMTT(30)
    <2>4. /\ intents' = [intents EXCEPT ![k] = Append(@, x)] /\ OwnedAt(k, x)
          /\ \A r \in x.rows : mail'[r].state = "claimed" /\ mail'[r].token = x.wait
      BY <1>6, <2>1, <2>2, <2>3 DEF Commits, OwnedAt
    <2>5. \A l \in Coordinators : \A i \in DOMAIN intents[l] : intents[l][i].cont # "none" =>
             \A r \in intents[l][i].rows : mail'[r] = mail[r]
      BY <1>6, CommitWhole
    <2> QED
      BY <1>4, <1>6, <2>2, <2>4, <2>5
  <1>7. ASSUME NEW k \in Coordinators, NEW i, Turns(k, i), UNCHANGED mail PROVE Owned' /\ Whole'
    <2> SUFFICES ASSUME NEW l \in Coordinators, NEW j \in DOMAIN intents[l]
                 PROVE  OwnedAt(l, intents[l][j])' /\ WholeAt(intents[l][j], mail)'
      BY <1>1, <1>7 DEF Owned, Whole, Turns, Continues
    <2>1. /\ intents'[l][j].wait = intents[l][j].wait /\ intents'[l][j].rows = intents[l][j].rows
          /\ intents'[l][j].state = intents[l][j].state
          /\ intents'[l][j].cont # "none" => intents[l][j].cont # "none"
      <3>1. CASE l = k /\ j = i
        BY <1>7, <3>1 DEF Turns, Continues
      <3>2. CASE l = k /\ j # i
        BY <1>7, <3>2 DEF Turns, Continues
      <3>3. CASE l # k
        BY <1>7, <3>3 DEF Turns, Continues
      <3> QED
        BY <3>1, <3>2, <3>3
    <2> QED
      BY <1>2, <1>7, <2>1, MovedWhole DEF OwnedAt
  <1>8. ASSUME NEW k \in Coordinators, NEW i \in 1..Len(intents[k]), Consume(k, i) PROVE Owned' /\ Whole'
    <2> DEFINE w == intents[k][i].wait
               x == [intents[k][i] EXCEPT !.state = "consumed", !.cont = "accepted"]
    <2>1. i \in DOMAIN intents[k]
      BY <1>0, SMTT(30)
    <2>2. intents[k][i] \in Intents /\ w \in Waits
      BY <2>1, IntentTypes DEF Resumption
    <2>3. x \in Intents /\ x.state = "consumed" /\ x.rows = intents[k][i].rows
      BY <2>2 DEF Intents
    <2>4. /\ intents[k][i].cont = "leased"
          /\ \/ intents[k][i].state = "enqueued" /\ mail' = Acked(w)
             \/ intents[k][i].state = "consumed" /\ mail' = mail
      BY <1>8 DEF Consume
    <2>5. intents' = [intents EXCEPT ![k][i] = x]
      BY <1>8 DEF Consume
    <2> HIDE DEF x, w
    <2>6. /\ \A l \in Coordinators : DOMAIN intents'[l] = DOMAIN intents[l]
          /\ intents'[k][i] = x
          /\ \A l \in Coordinators : \A j \in DOMAIN intents[l] : l # k \/ j # i => intents'[l][j] = intents[l][j]
      <3>1. /\ \A l \in Coordinators : DOMAIN intents'[l] = DOMAIN intents[l]
            /\ intents'[k][i] = x
            /\ \A j \in DOMAIN intents[k] : j # i => intents'[k][j] = intents[k][j]
            /\ \A l \in Coordinators : l # k => intents'[l] = intents[l]
        BY <1>0, <2>3, <2>5, Moves
      <3> QED
        BY <3>1
    <2> SUFFICES ASSUME NEW l \in Coordinators, NEW j \in DOMAIN intents[l]
                 PROVE  OwnedAt(l, intents[l][j])' /\ WholeAt(intents[l][j], mail)'
      BY <1>1, <2>6 DEF Owned, Whole
    <2>7. CASE l = k /\ j = i
      <3>1. \A r \in x.rows : r \in Keys /\ mail'[r].state = "acked"
        <4>1. WholeAt(intents[k][i], mail) /\ x.rows \in SUBSET Keys
          BY <1>2, <2>1, <2>3
        <4>2. CASE intents[k][i].state = "enqueued" /\ mail' = Acked(w)
          <5>1. \A r \in x.rows : mail[r].state = "claimed" /\ mail[r].token = w
            BY <2>3, <2>4, <4>1, <4>2 DEF WholeAt, w
          <5> QED
            BY <1>0, <2>2, <4>1, <4>2, <5>1, AckedRows
        <4>3. CASE intents[k][i].state = "consumed" /\ mail' = mail
          BY <2>3, <2>4, <4>1, <4>3 DEF WholeAt
        <4> QED
          BY <2>4, <4>2, <4>3
      <3>2. WholeAt(x, mail')
        BY <2>3, <3>1 DEF WholeAt
      <3>3. \A r \in x.rows : owner'[r[2]] = k
        BY <1>2, <2>1, <2>3
      <3> QED
        BY <2>6, <2>7, <3>2, <3>3 DEF OwnedAt
    <2>8. CASE l # k \/ j # i
      <3>1. intents'[l][j] = intents[l][j]
        BY <2>6, <2>8
      <3>2. intents[l][j].cont # "none" => intents[l][j].wait # w
        <4>1. BoundAt(l, j, intents[l][j]) /\ BoundAt(k, i, intents[k][i])
          BY <2>1 DEF Resumption, Bound
        <4> QED
          BY <2>4, <2>8, <4>1 DEF BoundAt, w
      <3>3. intents[l][j].cont # "none" => \A r \in intents[l][j].rows : mail'[r] = mail[r]
        <4> SUFFICES ASSUME intents[l][j].cont # "none", NEW r \in intents[l][j].rows, mail' = Acked(w)
                     PROVE  mail'[r] = mail[r]
          BY <2>4
        <4>1. r \in Keys /\ ~(mail[r].state = "claimed" /\ mail[r].token = w)
          BY <1>2, <3>2 DEF WholeAt
        <4> QED
          BY <1>0, <2>2, <4>1, AckedRows
      <3>4. WholeAt(intents[l][j], mail')
        <4>1. WholeAt(intents[l][j], mail)
          BY <1>2
        <4> QED
          BY <3>3, <4>1, SameWhole
      <3> QED
        BY <1>2, <3>1, <3>4 DEF OwnedAt
    <2> QED
      BY <2>7, <2>8
  <1> QED
    BY <1>3, <1>5, <1>6, <1>7, <1>8, IntentSteps

\* With one wait to a coordinator a consumed intent leaves none of its rows to
\* be delivered again, even when its claim expired while the continuation
\* waited for the lane (acknowledge_coordinator_claim_in_transaction).
THEOREM ConsumedForGood == ASSUME OneWait PROVE Spec => []ConsumedIsAcked
  <1>1. Init => Owned /\ Whole
    <2> SUFFICES ASSUME Init PROVE Owned /\ Whole
      OBVIOUS
    <2>1. \A k \in Coordinators : intents[k] = <<>> /\ DOMAIN intents[k] = {}
      BY SMTT(30) DEF Init
    <2>2. \A c \in Children : owner[c] = None
      BY DEF Init
    <2> QED
      BY <2>1, <2>2 DEF Owned, Whole
  <1>2. Resumption /\ Owned /\ Whole /\ [Next]_vars => Owned' /\ Whole'
    BY BatchSteps
  <1>3. Whole => ConsumedIsAcked
    <2> SUFFICES ASSUME Whole, NEW p \in Continuations, At(p).state = "consumed", NEW r \in At(p).rows
                 PROVE  mail[r].state = "acked"
      BY DEF ConsumedIsAcked
    <2>1. WholeAt(At(p), mail) /\ At(p).cont # "none"
      BY ContinuationAt DEF Whole
    <2> QED
      BY <2>1 DEF WholeAt
  <1>4. Spec => [](Owned /\ Whole)
    BY <1>1, <1>2, Invariance, PTL DEF Spec
  <1> QED
    BY <1>3, <1>4, PTL

===========================================================================
