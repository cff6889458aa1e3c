-------------------------- MODULE VacanciesProofs --------------------------
(***************************************************************************)
(* Theorems about Vacancies for any postings, spellings and limits.  Two   *)
(* facts carry them: what a pass of the URL check will write was loaded    *)
(* from a row that is still there and still not suppressed; and a row that *)
(* makes a repost of what a scan will insert, or that is no longer later   *)
(* than what the scan will write, has been committed by another scan,      *)
(* because only scans store rows and change dates.                         *)
(***************************************************************************)
EXTENDS Vacancies, TLAPS, WellFoundedInduction

\* Nothing but deletion parts a pass from the rows that it loaded.
CheckInv ==
    \A h \in Hash : check.result[h] \notin {"none", "lost"} =>
        /\ Stored(h) /\ row[h].status # "suppressed"
        /\ check.seen[h] \in Row /\ check.seen[h].status # "suppressed"

\* What a scan that has looked up the reposts is about to insert is none, but
\* for rows that other scans have committed since.
FreshInv(s) ==
    scan[s].pc \in {"matched", "updated", "counted"} =>
        \A p \in scan[s].fresh, h \in Hash :
            Blocking(h) /\ <<HashOf[p], h>> \in Alike
              /\ LandOf[h] = LandOf[HashOf[p]] /\ LandOf[h] # NoLand
                => h \in scan[s].missed

\* What a scan is about to write improves the row, but for the same rows.
ChangeInv(s) ==
    \A h \in Hash :
        /\ scan[s].change[h].link # NoLink => scan[s].change[h].link \in Direct
        /\ scan[s].change[h].posted # 0 =>
             \/ Stored(h) /\ scan[s].change[h].posted < row[h].posted
             \/ h \in scan[s].missed

\* A change is planned between the lookup and its commit.
PlanInv(s) == scan[s].pc # "matched" => \A h \in Hash : scan[s].change[h] = NoChange

\* An application belongs to a stored vacancy.
AppInv == \A h \in Hash : app[h] # "none" => Stored(h)

ScanInv == \A s \in Scanner : FreshInv(s) /\ ChangeInv(s) /\ PlanInv(s)

-----------------------------------------------------------------------------
(* Type correctness.                                                       *)

LEMMA Less == OpToRel(<, Nat) = {ss \in Nat \X Nat : ss[1] < ss[2]}
BY DEF OpToRel

LEMMA LeastNat ==
    ASSUME NEW D \in SUBSET Nat, D # {} PROVE \E d \in D : \A e \in D : d <= e
<1> DEFINE less == {ss \in Nat \X Nat : ss[1] < ss[2]}
<1>1. IsWellFoundedOn(less, Nat)
  BY NatLessThanWellFounded, Less
<1> HIDE DEF less
<1>2. PICK d \in D : \A e \in D : ~ (<<e, d>> \in less)
  BY <1>1, WFMin, Zenon
<1>3. ASSUME NEW e \in D PROVE d <= e
  <2>1. <<e, d>> \notin less
    BY <1>2
  <2> QED BY <2>1, SMT DEF less
<1> QED BY <1>3

LEMMA EarliestIsDate ==
    ASSUME NEW P \in SUBSET Posting, P # {} PROVE Earliest(P) \in Nat
<1> DEFINE dates == {Posted[q] : q \in P}
<1>1. dates \subseteq Nat /\ dates # {}
  BY VacanciesAssumption
<1>2. PICK d \in dates : \A e \in dates : d <= e
  BY <1>1, LeastNat
<1>3. \A q \in P : d <= Posted[q]
  BY <1>2
<1> QED BY <1>1, <1>3 DEF Earliest

LEMMA LastIsMember ==
    ASSUME NEW P \in SUBSET Posting, P # {}, NEW date \in [Posting -> Nat]
    PROVE  LastOf(P, date) \in P
<1> DEFINE dates == {date[q] : q \in P}
<1>1. dates \subseteq Nat /\ dates # {}
  OBVIOUS
<1>2. PICK d \in dates : \A e \in dates : d <= e
  BY <1>1, LeastNat
<1>3. PICK p \in P : d = date[p]
  OBVIOUS
<1>4. \A q \in P : date[p] <= date[q]
  BY <1>2, <1>3
<1> QED BY <1>4 DEF LastOf

\* What reposts change in a row improves it.
LEMMA ChangesImprove ==
    ASSUME NEW r \in Row, NEW P \in SUBSET Posting, NEW date \in [Posting -> Nat]
    PROVE  /\ Changes(r, P, date) \in Change
           /\ Changes(r, P, date).link # NoLink => Changes(r, P, date).link \in Direct
           /\ Changes(r, P, date).posted # 0 => Changes(r, P, date).posted < r.posted
<1> DEFINE better  == {p \in P : Upgrades(r, p)}
           earlier == {p \in P : Predates(r, date[p])}
           link    == IF better = {} THEN NoLink ELSE LastOf(better, date)
           posted  == IF earlier = {} THEN 0 ELSE date[LastOf(earlier, date)]
<1>1. better # {} => LastOf(better, date) \in better
  BY LastIsMember
<1>2. earlier # {} => LastOf(earlier, date) \in earlier
  BY LastIsMember
<1>3. link \in Posting \cup {NoLink} /\ (link # NoLink => link \in Direct)
  BY <1>1 DEF Upgrades
<1>4. posted \in Nat /\ (posted # 0 => posted < r.posted)
  BY <1>2 DEF Predates
<1>5. Changes(r, P, date) = [link |-> link, posted |-> posted]
  BY DEF Changes
<1> HIDE DEF link, posted
<1> QED BY <1>3, <1>4, <1>5, SMT DEF Change

LEMMA Records ==
    /\ NoChange \in Change
    /\ NoScan \in ScanState /\ NoCheck \in CheckState /\ NoCleanup \in CleanupState
<1>1. NoChange \in Change
  BY SMT DEF NoChange, Change
<1>2. NoScan \in ScanState /\ NoCheck \in CheckState /\ NoCleanup \in CleanupState
  BY <1>1, SMT DEF NoScan, ScanState, NoCheck, CheckState, NoCleanup, CleanupState
<1> QED BY <1>1, <1>2

LEMMA NullFields ==
    /\ NoScan.pc = "idle" /\ NoScan.fresh = {} /\ NoScan.change \in [Hash -> {NoChange}]
    /\ NoChange.link = NoLink /\ NoChange.posted = 0
    /\ NoCleanup.pc = "idle" /\ NoCleanup.doomed = {} /\ NoCleanup.protected = {}
BY DEF NoScan, NoChange, NoCleanup

LEMMA StoredRow == ASSUME TypeOK, NEW h \in Hash, Stored(h) PROVE row[h] \in Row
BY DEF TypeOK, Stored

\* Assigning to a field of a row gives a row, and leaves the other fields.
LEMMA RowUpdate ==
    ASSUME NEW r \in Row
    PROVE  /\ \A x \in Posting : LET u == [r EXCEPT !.link = x] IN
                u \in Row /\ u.link = x /\ u.status = r.status /\ u.posted = r.posted /\ u.old = r.old
           /\ \A x \in Nat : LET u == [r EXCEPT !.posted = x] IN
                u \in Row /\ u.posted = x /\ u.status = r.status /\ u.link = r.link /\ u.old = r.old
           /\ \A x \in BOOLEAN : LET u == [r EXCEPT !.due = x] IN
                u \in Row /\ u.status = r.status /\ u.link = r.link /\ u.posted = r.posted /\ u.old = r.old
           /\ \A x \in BOOLEAN : LET u == [r EXCEPT !.old = x] IN
                u \in Row /\ u.old = x /\ u.status = r.status /\ u.link = r.link /\ u.posted = r.posted
           /\ \A x \in UrlStatus : LET u == [r EXCEPT !.status = x] IN
                u \in Row /\ u.status = x /\ u.link = r.link /\ u.posted = r.posted /\ u.old = r.old
           /\ \A x \in 0 .. MaxFailures : LET u == [r EXCEPT !.failures = x] IN
                u \in Row /\ u.status = r.status /\ u.link = r.link /\ u.posted = r.posted /\ u.old = r.old
BY SMT DEF Row

\* The same of the fields of a scan.
LEMMA NewPc ==
    ASSUME NEW r \in ScanState, NEW x \in {"idle", "fetched", "matched", "updated", "counted"}
    PROVE  LET v == [r EXCEPT !.pc = x] IN
           v \in ScanState /\ v.pc = x /\ v.fresh = r.fresh /\ v.change = r.change
             /\ v.missed = r.missed
BY SMT DEF ScanState

LEMMA NewDate ==
    ASSUME NEW r \in ScanState, NEW x \in [Posting -> Nat]
    PROVE  LET v == [r EXCEPT !.date = x] IN
           v \in ScanState /\ v.pc = r.pc /\ v.fresh = r.fresh /\ v.change = r.change
             /\ v.missed = r.missed
BY SMT DEF ScanState

LEMMA NewFresh ==
    ASSUME NEW r \in ScanState, NEW x \in SUBSET Posting
    PROVE  LET v == [r EXCEPT !.fresh = x] IN
           v \in ScanState /\ v.pc = r.pc /\ v.fresh = x /\ v.change = r.change
             /\ v.missed = r.missed
BY SMT DEF ScanState

LEMMA NewChange ==
    ASSUME NEW r \in ScanState, NEW x \in [Hash -> Change]
    PROVE  LET v == [r EXCEPT !.change = x] IN
           v \in ScanState /\ v.pc = r.pc /\ v.fresh = r.fresh /\ v.change = x
             /\ v.missed = r.missed
BY SMT DEF ScanState

LEMMA NewBulk ==
    ASSUME NEW r \in ScanState, NEW x \in SUBSET Posting
    PROVE  LET v == [r EXCEPT !.bulk = x] IN
           v \in ScanState /\ v.pc = r.pc /\ v.fresh = r.fresh /\ v.change = r.change
             /\ v.missed = r.missed
BY SMT DEF ScanState

LEMMA NewMissed ==
    ASSUME NEW r \in ScanState, NEW x \in SUBSET Hash
    PROVE  LET v == [r EXCEPT !.missed = x] IN
           v \in ScanState /\ v.pc = r.pc /\ v.fresh = r.fresh /\ v.change = r.change
             /\ v.missed = x
BY SMT DEF ScanState

LEMMA InitType == Init => TypeOK
<1> SUFFICES ASSUME Init PROVE TypeOK
  OBVIOUS
<1> QED BY Records, VacanciesAssumption, SMT DEF Init, TypeOK

LEMMA SearchScan ==
    ASSUME TypeOK, NEW s \in Scanner, Search(s)
    PROVE  /\ scan' \in [Scanner -> ScanState]
           /\ scan'[s].pc = "fetched" /\ scan'[s].change = NoScan.change
           /\ \A t \in Scanner : t # s => scan'[t] = scan[t]
<1>1. PICK n \in 1 .. MaxBatch : \E list \in [1 .. n -> Posting], entry \in [1 .. n -> 1 .. n] :
         /\ Unique(list) /\ Merged(list, entry)
         /\ \E passed \in SUBSET {i \in 1 .. n : Keeps(list, entry, i, n)} :
              LET members(p) == {list[j] : j \in {k \in 1 .. n :
                                  \E i \in passed : list[i] = p /\ entry[k] = entry[i]}}
                  filtered   == {list[i] : i \in passed} IN
              /\ filtered # {}
              /\ scan' = [scan EXCEPT ![s] = [NoScan EXCEPT
                   !.pc    = "fetched",
                   !.date  = [p \in Posting |-> IF p \in filtered THEN Earliest(members(p)) ELSE 0],
                   !.fresh = {p \in filtered : ~Stored(HashOf[p])}]]
  BY DEF Search
<1>2. PICK list \in [1 .. n -> Posting], entry \in [1 .. n -> 1 .. n],
           passed \in SUBSET (1 .. n) :
              LET members(p) == {list[j] : j \in {k \in 1 .. n :
                                  \E i \in passed : list[i] = p /\ entry[k] = entry[i]}}
                  filtered   == {list[i] : i \in passed} IN
              scan' = [scan EXCEPT ![s] = [NoScan EXCEPT
                   !.pc    = "fetched",
                   !.date  = [p \in Posting |-> IF p \in filtered THEN Earliest(members(p)) ELSE 0],
                   !.fresh = {p \in filtered : ~Stored(HashOf[p])}]]
  BY <1>1
<1> DEFINE members(p) == {list[j] : j \in {k \in 1 .. n :
                            \E i \in passed : list[i] = p /\ entry[k] = entry[i]}}
           filtered   == {list[i] : i \in passed}
           date       == [p \in Posting |-> IF p \in filtered THEN Earliest(members(p)) ELSE 0]
           fresh      == {p \in filtered : ~Stored(HashOf[p])}
           u == [NoScan EXCEPT !.pc = "fetched"]
           v == [u EXCEPT !.date = date]
           w == [v EXCEPT !.fresh = fresh]
<1>3. ASSUME NEW p \in filtered PROVE Earliest(members(p)) \in Nat
  <2>1. members(p) \subseteq Posting /\ p \in members(p)
    OBVIOUS
  <2> HIDE DEF members
  <2> QED BY <2>1, EarliestIsDate
<1>4. date \in [Posting -> Nat] /\ fresh \in SUBSET Posting
  BY <1>3
<1>5. scan' = [scan EXCEPT ![s] = w]
  BY <1>2
<1> HIDE DEF date, fresh
<1>6. u \in ScanState /\ u.pc = "fetched" /\ u.change = NoScan.change
  BY Records, NewPc
<1> HIDE DEF u
<1>7. v \in ScanState /\ v.pc = "fetched" /\ v.change = NoScan.change
  BY <1>4, <1>6, NewDate
<1> HIDE DEF v
<1>8. w \in ScanState /\ w.pc = "fetched" /\ w.change = NoScan.change
  BY <1>4, <1>7, NewFresh
<1> HIDE DEF w
<1> QED BY <1>5, <1>8 DEF TypeOK

\* What a scan knows after the lookup of reposts.
LEMMA MatchScan ==
    ASSUME TypeOK, NEW s \in Scanner, Match(s)
    PROVE  /\ scan' \in [Scanner -> ScanState]
           /\ \A t \in Scanner : t # s => scan'[t] = scan[t]
           /\ \A p \in scan'[s].fresh, h \in Hash :
                Blocking(h) /\ <<HashOf[p], h>> \in Alike
                  /\ LandOf[h] = LandOf[HashOf[p]] => LandOf[h] = NoLand
           /\ \A h \in Hash :
                /\ scan'[s].change[h].link # NoLink => scan'[s].change[h].link \in Direct
                /\ scan'[s].change[h].posted # 0 =>
                     Stored(h) /\ scan'[s].change[h].posted < row[h].posted
           /\ scan'[s].pc # "matched" => \A h \in Hash : scan'[s].change[h] = NoChange
<1> DEFINE sc       == scan[s]
           lands    == {LandOf[HashOf[p]] : p \in sc.fresh} \ {NoLand}
           found(p) == {h \in Hash : Blocking(h) /\ LandOf[h] \in lands /\ <<HashOf[p], h>> \in Alike}
           skipped  == {p \in sc.fresh : found(p) # {}}
           left     == sc.fresh \ skipped
           date     == [p \in Posting |-> IF p \in left THEN sc.date[p] ELSE 0]
           pc       == IF skipped = {} THEN "updated" ELSE "matched"
           change(target) == [h \in Hash |->
                LET reposts == {p \in skipped : target[p] = h} IN
                IF reposts = {} THEN NoChange ELSE Changes(row[h], reposts, sc.date)]
<1>0. sc \in ScanState /\ sc.fresh \subseteq Posting /\ sc.date \in [Posting -> Nat]
  BY SMT DEF TypeOK, ScanState
<1>1. PICK target \in [skipped -> Hash] :
        /\ \A p \in skipped : target[p] \in found(p)
        /\ scan' = [scan EXCEPT ![s] = IF sc.fresh = {} THEN NoScan ELSE [sc EXCEPT
              !.pc = pc, !.date = date, !.fresh = left, !.change = change(target)]]
  BY <1>0, Zenon DEF Match
<1> DEFINE u == [sc EXCEPT !.pc = pc]
           v == [u EXCEPT !.date = date]
           w == [v EXCEPT !.fresh = left]
           x == [w EXCEPT !.change = change(target)]
<1>2. ASSUME NEW h \in Hash, {p \in skipped : target[p] = h} # {}
      PROVE  LET c == Changes(row[h], {p \in skipped : target[p] = h}, sc.date) IN
             /\ Stored(h) /\ c \in Change
             /\ c.link # NoLink => c.link \in Direct
             /\ c.posted # 0 => c.posted < row[h].posted
  <2> DEFINE reposts == {p \in skipped : target[p] = h}
  <2>1. PICK p \in reposts : TRUE
    BY <1>2
  <2>2. Stored(h) /\ reposts \in SUBSET Posting
    BY <2>1, <1>0, <1>1 DEF Blocking
  <2>3. row[h] \in Row
    BY <2>2, StoredRow
  <2> HIDE DEF reposts
  <2>4. LET c == Changes(row[h], reposts, sc.date) IN
             /\ c \in Change
             /\ c.link # NoLink => c.link \in Direct
             /\ c.posted # 0 => c.posted < row[h].posted
    BY <1>0, <2>2, <2>3, ChangesImprove
  <2> QED BY <2>2, <2>4 DEF reposts
<1>3. ASSUME NEW h \in Hash
      PROVE  /\ change(target)[h] \in Change
             /\ change(target)[h].link # NoLink => change(target)[h].link \in Direct
             /\ change(target)[h].posted # 0 => Stored(h) /\ change(target)[h].posted < row[h].posted
             /\ skipped = {} => change(target)[h] = NoChange
  <2> DEFINE reposts == {p \in skipped : target[p] = h}
  <2>1. CASE reposts = {}
    <3>1. change(target)[h] = NoChange
      BY <2>1
    <3> QED BY <3>1, Records, NullFields
  <2>2. CASE reposts # {}
    <3>1. change(target)[h] = Changes(row[h], reposts, sc.date)
      BY <2>2
    <3>2. skipped # {}
      BY <2>2
    <3> QED BY <3>1, <3>2, <2>2, <1>2
  <2> QED BY <2>1, <2>2
<1>4. change(target) \in [Hash -> Change]
  BY <1>3
<1>5. \A p \in left, h \in Hash :
        Blocking(h) /\ <<HashOf[p], h>> \in Alike
          /\ LandOf[h] = LandOf[HashOf[p]] => LandOf[h] = NoLand
  OBVIOUS
<1>6. date \in [Posting -> Nat] /\ left \in SUBSET Posting
      /\ pc \in {"idle", "fetched", "matched", "updated", "counted"}
      /\ (pc # "matched" => skipped = {})
  BY <1>0
<1>7. scan' = [scan EXCEPT ![s] = IF sc.fresh = {} THEN NoScan ELSE x]
  BY <1>1
<1> HIDE DEF left, date, pc, change, skipped
<1>8. u \in ScanState /\ u.pc = pc
  BY <1>0, <1>6, NewPc
<1> HIDE DEF u
<1>9. v \in ScanState /\ v.pc = pc
  BY <1>6, <1>8, NewDate
<1> HIDE DEF v
<1>10. w \in ScanState /\ w.pc = pc /\ w.fresh = left
  BY <1>6, <1>9, NewFresh
<1> HIDE DEF w
<1>11. x \in ScanState /\ x.pc = pc /\ x.fresh = left /\ x.change = change(target)
  BY <1>4, <1>10, NewChange
<1> HIDE DEF x
<1>12. CASE sc.fresh = {}
  <2>1. scan' = [scan EXCEPT ![s] = NoScan]
    BY <1>7, <1>12
  <2> HIDE DEF sc
  <2>2. scan'[s] = NoScan /\ scan' \in [Scanner -> ScanState]
        /\ \A t \in Scanner : t # s => scan'[t] = scan[t]
    BY <2>1, Records DEF TypeOK
  <2> QED BY <2>2, NullFields
<1>13. CASE sc.fresh # {}
  <2>1. scan' = [scan EXCEPT ![s] = x]
    BY <1>7, <1>13
  <2>2. scan'[s] = x /\ scan' \in [Scanner -> ScanState]
        /\ \A t \in Scanner : t # s => scan'[t] = scan[t]
    BY <2>1, <1>11 DEF TypeOK
  <2> QED BY <2>2, <1>3, <1>5, <1>6, <1>11
<1> QED BY <1>12, <1>13

\* A commit changes what other scans miss, and nothing else of them.
LEMMA CommitScan ==
    ASSUME TypeOK, NEW s \in Scanner, NEW done \in SUBSET Hash, NEW new \in ScanState,
           Commit(s, done, new)
    PROVE  /\ scan' \in [Scanner -> ScanState] /\ scan'[s] = new
           /\ \A t \in Scanner : t # s =>
                /\ scan'[t].pc = scan[t].pc /\ scan'[t].fresh = scan[t].fresh
                /\ scan'[t].change = scan[t].change
                /\ scan'[t].missed = IF scan[t].pc \in {"idle", "fetched"} THEN scan[t].missed
                                     ELSE scan[t].missed \cup done
<1>1. ASSUME NEW t \in Scanner
      PROVE  LET u == [scan[t] EXCEPT !.missed = @ \cup done] IN
             u \in ScanState /\ u.pc = scan[t].pc /\ u.fresh = scan[t].fresh
               /\ u.change = scan[t].change /\ u.missed = scan[t].missed \cup done
  <2>1. scan[t] \in ScanState /\ scan[t].missed \cup done \in SUBSET Hash
    BY SMT DEF TypeOK, ScanState
  <2> QED BY <2>1, NewMissed
<1>2. \A t \in Scanner : scan'[t] =
        IF t = s THEN new
        ELSE IF scan[t].pc \in {"idle", "fetched"} THEN scan[t]
        ELSE [scan[t] EXCEPT !.missed = @ \cup done]
  BY DEF Commit
<1>3. scan' \in [Scanner -> ScanState]
  BY <1>1 DEF Commit, TypeOK
<1> QED BY <1>1, <1>2, <1>3

\* The row that UpdateOriginals makes of r.
Changed(r, c) ==
    [r EXCEPT !.link   = IF c.link = NoLink THEN @ ELSE c.link,
              !.posted = IF c.posted = 0 THEN @ ELSE c.posted]

LEMMA ChangedIsRow ==
    ASSUME NEW r \in Row, NEW c \in Change
    PROVE  /\ Changed(r, c) \in Row
           /\ Changed(r, c).link = IF c.link = NoLink THEN r.link ELSE c.link
           /\ Changed(r, c).posted = IF c.posted = 0 THEN r.posted ELSE c.posted
           /\ Changed(r, c).status = r.status /\ Changed(r, c).old = r.old
<1> DEFINE link   == IF c.link = NoLink THEN r.link ELSE c.link
           posted == IF c.posted = 0 THEN r.posted ELSE c.posted
           u == [r EXCEPT !.link = link]
<1>1. link \in Posting /\ posted \in Nat
  BY SMT DEF Row, Change
<1>2. Changed(r, c) = [u EXCEPT !.posted = posted]
  BY DEF Changed
<1> HIDE DEF link, posted
<1>3. u \in Row /\ u.link = link /\ u.status = r.status /\ u.old = r.old
  BY <1>1, RowUpdate
<1> HIDE DEF u
<1>4. /\ Changed(r, c) \in Row /\ Changed(r, c).posted = posted /\ Changed(r, c).link = u.link
      /\ Changed(r, c).status = u.status /\ Changed(r, c).old = u.old
  BY <1>1, <1>2, <1>3, RowUpdate
<1> QED BY <1>3, <1>4 DEF link, posted

LEMMA UpdateScan ==
    ASSUME TypeOK, NEW s \in Scanner, UpdateOriginals(s)
    PROVE  /\ scan' \in [Scanner -> ScanState]
           /\ scan'[s].pc # "matched" /\ scan'[s].change = NoScan.change
           /\ \/ scan'[s].fresh = {}
              \/ (scan'[s].fresh = scan[s].fresh /\ scan'[s].missed = scan[s].missed)
           /\ \A t \in Scanner : t # s =>
                /\ scan'[t].pc = scan[t].pc /\ scan'[t].fresh = scan[t].fresh
                /\ scan'[t].change = scan[t].change
                /\ scan'[t].missed =
                     IF scan[t].pc \in {"idle", "fetched"} THEN scan[t].missed
                     ELSE scan[t].missed \cup {h \in Hash : scan[s].change[h] # NoChange}
<1> DEFINE done == {h \in Hash : scan[s].change[h] # NoChange}
           u    == [scan[s] EXCEPT !.pc = "updated"]
           v    == [u EXCEPT !.change = NoScan.change]
           new  == IF scan[s].fresh = {} THEN NoScan ELSE v
<1>1. scan[s] \in ScanState /\ NoScan.change \in [Hash -> Change]
  BY Records DEF TypeOK, NoScan
<1>2. u \in ScanState /\ u.pc = "updated" /\ u.fresh = scan[s].fresh /\ u.missed = scan[s].missed
  BY <1>1, NewPc
<1>3. Commit(s, done, new)
  BY DEF UpdateOriginals
<1> HIDE DEF u
<1>4. v \in ScanState /\ v.pc = "updated" /\ v.fresh = scan[s].fresh /\ v.missed = scan[s].missed
      /\ v.change = NoScan.change
  BY <1>1, <1>2, NewChange
<1> HIDE DEF v
<1>5. new \in ScanState /\ new.pc # "matched" /\ new.change = NoScan.change
      /\ (new.fresh = {} \/ (new.fresh = scan[s].fresh /\ new.missed = scan[s].missed))
  BY <1>4, Records, NullFields
<1> HIDE DEF new
<1>6. done \in SUBSET Hash
  OBVIOUS
<1> HIDE DEF done
<1>7. /\ scan' \in [Scanner -> ScanState] /\ scan'[s] = new
      /\ \A t \in Scanner : t # s =>
           /\ scan'[t].pc = scan[t].pc /\ scan'[t].fresh = scan[t].fresh
           /\ scan'[t].change = scan[t].change
           /\ scan'[t].missed = IF scan[t].pc \in {"idle", "fetched"} THEN scan[t].missed
                                ELSE scan[t].missed \cup done
  BY <1>3, <1>5, <1>6, CommitScan
<1> QED BY <1>5, <1>7 DEF done

LEMMA UpdateType ==
    ASSUME TypeOK, NEW s \in Scanner, UpdateOriginals(s) PROVE TypeOK'
<1>1. ASSUME NEW h \in Hash PROVE row'[h] \in Row \cup {NoRow}
  <2>1. scan[s].change[h] \in Change
    BY SMT DEF TypeOK, ScanState
  <2>2. row'[h] = IF row[h] = NoRow THEN NoRow ELSE Changed(row[h], scan[s].change[h])
    BY DEF UpdateOriginals, Changed
  <2> QED BY <2>1, <2>2, StoredRow, ChangedIsRow DEF Stored
<1>2. row' \in [Hash -> Row \cup {NoRow}]
  BY <1>1 DEF UpdateOriginals
<1>3. scan' \in [Scanner -> ScanState]
  BY UpdateScan
<1> QED BY <1>2, <1>3 DEF UpdateOriginals, TypeOK, world, bounds

LEMMA CountScan ==
    ASSUME TypeOK, NEW s \in Scanner, CountBulk(s)
    PROVE  /\ scan' \in [Scanner -> ScanState]
           /\ scan'[s].fresh = scan[s].fresh /\ scan'[s].change = scan[s].change
           /\ scan'[s].missed = scan[s].missed /\ scan'[s].pc # "matched"
           /\ \A t \in Scanner : t # s => scan'[t] = scan[t]
<1> DEFINE bulk == {p \in scan[s].fresh : Bulk(s, p)}
           u    == [scan[s] EXCEPT !.pc = "counted"]
           v    == [u EXCEPT !.bulk = bulk]
<1>1. scan[s] \in ScanState /\ bulk \in SUBSET Posting
  BY SMT DEF TypeOK, ScanState
<1>2. scan' = [scan EXCEPT ![s] = v]
  BY DEF CountBulk, TypeOK
<1> HIDE DEF bulk
<1>3. u \in ScanState /\ u.fresh = scan[s].fresh /\ u.change = scan[s].change
      /\ u.missed = scan[s].missed /\ u.pc = "counted"
  BY <1>1, NewPc
<1> HIDE DEF u
<1>4. v \in ScanState /\ v.fresh = scan[s].fresh /\ v.change = scan[s].change
      /\ v.missed = scan[s].missed /\ v.pc = "counted"
  BY <1>1, <1>3, NewBulk
<1> HIDE DEF v
<1> QED BY <1>2, <1>4 DEF TypeOK

LEMMA InsertScan ==
    ASSUME TypeOK, NEW s \in Scanner, Insert(s)
    PROVE  /\ scan' \in [Scanner -> ScanState] /\ scan'[s] = NoScan
           /\ \A t \in Scanner : t # s =>
                /\ scan'[t].pc = scan[t].pc /\ scan'[t].fresh = scan[t].fresh
                /\ scan'[t].change = scan[t].change
                /\ scan'[t].missed =
                     IF scan[t].pc \in {"idle", "fetched"} THEN scan[t].missed
                     ELSE scan[t].missed \cup {HashOf[p] : p \in {q \in scan[s].fresh : Stores(s, q)}}
<1> DEFINE done == {HashOf[p] : p \in {q \in scan[s].fresh : Stores(s, q)}}
<1>1. done \in SUBSET Hash
  BY VacanciesAssumption, SMT DEF TypeOK, ScanState
<1>2. Commit(s, done, NoScan)
  BY DEF Insert
<1> HIDE DEF done
<1>3. /\ scan' \in [Scanner -> ScanState] /\ scan'[s] = NoScan
      /\ \A t \in Scanner : t # s =>
           /\ scan'[t].pc = scan[t].pc /\ scan'[t].fresh = scan[t].fresh
           /\ scan'[t].change = scan[t].change
           /\ scan'[t].missed = IF scan[t].pc \in {"idle", "fetched"} THEN scan[t].missed
                                ELSE scan[t].missed \cup done
  BY <1>1, <1>2, Records, CommitScan
<1> QED BY <1>3 DEF done

\* What Insert stores is a row, and only what the scan found new is stored.
LEMMA InsertRows ==
    ASSUME TypeOK, NEW s \in Scanner, Insert(s), NEW h \in Hash
    PROVE  /\ Stored(h) => row'[h] = row[h]
           /\ row'[h] \in Row \cup {NoRow}
           /\ row'[h] # row[h] => \E p \in scan[s].fresh : Stores(s, p) /\ HashOf[p] = h
<1> DEFINE new == CHOOSE q \in scan[s].fresh : HashOf[q] = h
<1>1. CASE \E p \in Posting : Stores(s, p) /\ HashOf[p] = h
  <2>1. new \in scan[s].fresh /\ ~Stored(h) /\ \E p \in scan[s].fresh : Stores(s, p) /\ HashOf[p] = h
    BY <1>1 DEF Stores
  <2>2. new \in Posting /\ scan[s].date[new] \in Nat
    BY <2>1, SMT DEF TypeOK, ScanState
  <2>3. row'[h] = [status |-> IF new \in scan[s].bulk THEN "suppressed" ELSE "null",
                   link |-> new, posted |-> scan[s].date[new],
                   failures |-> 0, due |-> TRUE, old |-> FALSE]
    BY <1>1 DEF Insert
  <2> HIDE DEF new
  <2>4. row'[h] \in Row
    BY <2>2, <2>3, VacanciesAssumption, SMT DEF Row, UrlStatus
  <2> QED BY <2>1, <2>4
<1>2. CASE ~ \E p \in Posting : Stores(s, p) /\ HashOf[p] = h
  <2>1. row'[h] = row[h]
    BY <1>2 DEF Insert
  <2> QED BY <2>1 DEF TypeOK
<1> QED BY <1>1, <1>2

LEMMA ScansType ==
    ASSUME TypeOK, NEW s \in Scanner,
           Search(s) \/ Match(s) \/ UpdateOriginals(s) \/ CountBulk(s) \/ Insert(s) \/ FailScan(s)
    PROVE  TypeOK'
<1>1. CASE Search(s)
  BY <1>1, SearchScan DEF Search, TypeOK, world, bounds
<1>2. CASE Match(s)
  BY <1>2, MatchScan DEF Match, TypeOK, world, bounds
<1>3. CASE CountBulk(s)
  BY <1>3, CountScan DEF CountBulk, TypeOK, world, bounds
<1>4. CASE Insert(s)
  <2>1. row' \in [Hash -> Row \cup {NoRow}]
    BY <1>4, InsertRows DEF Insert
  <2>2. scan' \in [Scanner -> ScanState]
    BY <1>4, InsertScan
  <2> QED BY <1>4, <2>1, <2>2 DEF Insert, TypeOK, world, bounds
<1>5. CASE FailScan(s)
  BY <1>5, Records DEF FailScan, TypeOK, world, bounds
<1> QED BY <1>1, <1>2, <1>3, <1>4, <1>5, UpdateType

\* What a pass writes is a row, and not a suppressed one.
LEMMA CheckedIsRow ==
    ASSUME TypeOK, NEW h \in Hash, Written(h), check.seen[h] \in Row
    PROVE  /\ Checked(h) \in Row
           /\ check.seen[h].status # "suppressed" => Checked(h).status # "suppressed"
<1> DEFINE old == check.seen[h]
           n   == IF old.failures < MaxFailures THEN old.failures + 1 ELSE MaxFailures
           u(x) == [[old EXCEPT !.failures = x] EXCEPT !.due = FALSE]
<1>1. n \in 0 .. MaxFailures /\ 0 \in 0 .. MaxFailures
  BY VacanciesAssumption, SMT DEF Row
<1> HIDE DEF old, n
<1>2. old \in Row
  BY DEF old
<1>3. ASSUME NEW x \in 0 .. MaxFailures
      PROVE  u(x) \in Row /\ u(x).status = old.status
  <2> DEFINE v == [old EXCEPT !.failures = x]
  <2>1. v \in Row /\ v.status = old.status
    BY <1>2, RowUpdate
  <2> HIDE DEF v
  <2>2. [v EXCEPT !.due = FALSE] \in Row /\ [v EXCEPT !.due = FALSE].status = v.status
    BY <2>1, RowUpdate
  <2> QED BY <2>1, <2>2 DEF v
<1> DEFINE status == IF n >= MaxFailures THEN "unreachable" ELSE old.status
<1>4. CASE check.result[h] = "transient"
  <2>1. Checked(h) = [u(n) EXCEPT !.status = status]
    BY <1>4 DEF Checked, old, n
  <2>2. /\ status \in UrlStatus
        /\ old.status # "suppressed" => status # "suppressed"
    BY <1>2, SMT DEF Row, UrlStatus
  <2> HIDE DEF status, u
  <2>3. Checked(h) \in Row /\ Checked(h).status = status
    BY <1>1, <1>3, <2>1, <2>2, RowUpdate
  <2> QED BY <2>2, <2>3 DEF old
<1>5. CASE check.result[h] # "transient"
  <2>1. Checked(h) = [u(0) EXCEPT !.status = check.result[h]]
    BY <1>5 DEF Checked, old
  <2>2. check.result[h] \in UrlStatus \ {"suppressed"}
    BY <1>5 DEF Written, UrlStatus
  <2> HIDE DEF u
  <2>3. Checked(h) \in Row /\ Checked(h).status = check.result[h]
    BY <1>1, <1>3, <2>1, <2>2, RowUpdate
  <2> QED BY <2>2, <2>3
<1> QED BY <1>4, <1>5

LEMMA StartPassType ==
    ASSUME TypeOK, NEW S \in SUBSET Hash, StartPass(S) PROVE TypeOK'
<1>1. \A h \in S : row[h] \in Row
  BY StoredRow DEF StartPass, Checkable
<1>2. check' \in CheckState
  BY <1>1, SMT DEF StartPass, CheckState
<1> QED BY <1>2 DEF StartPass, TypeOK, world, bounds

LEMMA PingType ==
    ASSUME TypeOK, NEW h \in Hash, Ping(h) PROVE TypeOK'
<1>1. PICK r \in Answers(check.seen[h].link) \cup {"skipped"} :
        check' = [check EXCEPT !.result[h] = r]
  BY DEF Ping
<1>2. r \in {"active", "closed", "transient", "skipped"}
  BY DEF Answers
<1>3. check' \in CheckState
  BY <1>1, <1>2, SMT DEF TypeOK, CheckState
<1> QED BY <1>3 DEF Ping, TypeOK, world, bounds

\* The row that FinishPass makes of r.
Kept(h, r) ==
    LET old == check.seen[h]  new == Checked(h) IN
    [r EXCEPT !.due = FALSE,
              !.status   = IF new.status = old.status THEN @ ELSE new.status,
              !.failures = IF new.failures = old.failures THEN @ ELSE new.failures]

LEMMA KeptIsRow ==
    ASSUME NEW h \in Hash, NEW r \in Row, Checked(h) \in Row
    PROVE  /\ Kept(h, r) \in Row
           /\ Kept(h, r).link = r.link /\ Kept(h, r).posted = r.posted /\ Kept(h, r).old = r.old
           /\ r.status # "suppressed" /\ Checked(h).status # "suppressed"
                => Kept(h, r).status # "suppressed"
<1> DEFINE old == check.seen[h]
           new == Checked(h)
           status   == IF new.status = old.status THEN r.status ELSE new.status
           failures == IF new.failures = old.failures THEN r.failures ELSE new.failures
           u == [r EXCEPT !.due = FALSE]
           v == [u EXCEPT !.status = status]
<1>1. status \in UrlStatus /\ failures \in 0 .. MaxFailures
  BY SMT DEF Row
<1>2. Kept(h, r) = [v EXCEPT !.failures = failures]
  BY DEF Kept
<1>3. u \in Row /\ u.link = r.link /\ u.posted = r.posted /\ u.old = r.old
  BY RowUpdate
<1> HIDE DEF status, failures, u
<1>4. v \in Row /\ v.status = status /\ v.link = u.link /\ v.posted = u.posted /\ v.old = u.old
  BY <1>1, <1>3, RowUpdate
<1> HIDE DEF v
<1>5. /\ Kept(h, r) \in Row /\ Kept(h, r).status = v.status /\ Kept(h, r).link = v.link
      /\ Kept(h, r).posted = v.posted /\ Kept(h, r).old = v.old
  BY <1>1, <1>2, <1>4, RowUpdate
<1> QED BY <1>3, <1>4, <1>5 DEF status

LEMMA FinishType ==
    ASSUME TypeOK, CheckInv, FinishPass PROVE TypeOK'
<1>1. ASSUME NEW h \in Hash PROVE row'[h] \in Row \cup {NoRow}
  <2>1. CASE ~Written(h)
    BY <2>1 DEF FinishPass, TypeOK
  <2>2. CASE Written(h)
    <3>1. row[h] \in Row /\ check.seen[h] \in Row
      BY <2>2, StoredRow DEF CheckInv, Written
    <3>2. Checked(h) \in Row
      BY <2>2, <3>1, CheckedIsRow
    <3>3. row'[h] = Kept(h, row[h])
      BY <2>2 DEF FinishPass, Kept
    <3> QED BY <3>1, <3>2, <3>3, KeptIsRow
  <2> QED BY <2>1, <2>2
<1>2. row' \in [Hash -> Row \cup {NoRow}]
  BY <1>1 DEF FinishPass
<1> QED BY <1>2, Records DEF FinishPass, TypeOK, world, bounds

LEMMA DeleteType ==
    ASSUME TypeOK, DeleteOld PROVE TypeOK'
<1>1. row' \in [Hash -> Row \cup {NoRow}] /\ app' \in [Hash -> Status \cup {"none"}]
  BY DEF DeleteOld, TypeOK
<1>2. scan' \in [Scanner -> ScanState]
  <2> SUFFICES ASSUME NEW s \in Scanner PROVE scan'[s] \in ScanState
    BY DEF DeleteOld
  <2> DEFINE change == [h \in Hash |-> IF h \in cleanup.doomed THEN NoChange ELSE scan[s].change[h]]
  <2>1. scan[s] \in ScanState
    BY DEF TypeOK
  <2>2. change \in [Hash -> Change]
    BY <2>1, Records, SMT DEF ScanState
  <2>3. scan'[s] = [scan[s] EXCEPT !.change = change]
    BY DEF DeleteOld
  <2> HIDE DEF change
  <2> QED BY <2>1, <2>2, <2>3, SMT DEF ScanState
<1>3. check' \in CheckState
  <2> DEFINE result == [h \in Hash |-> IF h \in cleanup.doomed /\ check.result[h] # "none"
                                         THEN "lost" ELSE check.result[h]]
  <2>1. check \in CheckState
    BY DEF TypeOK
  <2>2. check' = [check EXCEPT !.result = result]
    BY DEF DeleteOld
  <2>3. result \in [Hash -> {"none", "pending", "active", "closed", "transient",
                             "skipped", "lost"}]
    BY <2>1, SMT DEF CheckState
  <2> HIDE DEF result
  <2> QED BY <2>1, <2>2, <2>3, SMT DEF CheckState
<1> QED BY <1>1, <1>2, <1>3, Records DEF DeleteOld, TypeOK, world, bounds

LEMMA UserType ==
    ASSUME TypeOK,
           ReadProtected \/ SelectOld \/ FailPass \/ \E h \in Hash, status \in Status : SetStatus(h, status)
    PROVE  TypeOK'
<1>1. CASE ReadProtected \/ SelectOld
  <2>1. cleanup' \in CleanupState
    BY <1>1, Records, SMT DEF ReadProtected, SelectOld, CleanupState
  <2> QED BY <1>1, <2>1 DEF ReadProtected, SelectOld, TypeOK, world, bounds
<1>2. CASE FailPass
  BY <1>2, Records DEF FailPass, TypeOK, world, bounds
<1>3. ASSUME NEW h \in Hash, NEW status \in Status, SetStatus(h, status) PROVE TypeOK'
  BY <1>3 DEF SetStatus, TypeOK, world, bounds
<1> QED BY <1>1, <1>2, <1>3

LEMMA WorldType ==
    ASSUME TypeOK,
           \/ NextDay \/ (\E h \in Hash : GetOld(h)) \/ (\E p \in Posting : PageCloses(p))
           \/ DnsFails \/ DnsRecovers \/ Restart
    PROVE  TypeOK'
<1>1. CASE NextDay
  <2>1. \A h \in Hash : Stored(h) => [row[h] EXCEPT !.due = TRUE] \in Row
    BY StoredRow, RowUpdate
  <2>2. row' \in [Hash -> Row \cup {NoRow}]
    BY <1>1, <2>1 DEF NextDay
  <2> QED BY <1>1, <2>2 DEF NextDay, TypeOK, world, bounds
<1>2. ASSUME NEW h \in Hash, GetOld(h) PROVE TypeOK'
  <2>1. [row[h] EXCEPT !.old = TRUE] \in Row
    BY <1>2, StoredRow, RowUpdate DEF GetOld
  <2>2. row' = [row EXCEPT ![h] = [row[h] EXCEPT !.old = TRUE]]
    BY <1>2 DEF GetOld
  <2>3. row' \in [Hash -> Row \cup {NoRow}]
    BY <2>1, <2>2 DEF TypeOK
  <2>4. ages' \in 0 .. MaxAges
    BY <1>2, VacanciesAssumption, SMT DEF GetOld, TypeOK
  <2> QED BY <1>2, <2>3, <2>4 DEF GetOld, TypeOK, world
<1>3. ASSUME NEW p \in Posting, PageCloses(p) PROVE TypeOK'
  <2>1. closings' \in 0 .. MaxClosings
    BY <1>3, VacanciesAssumption, SMT DEF PageCloses, TypeOK
  <2> QED BY <1>3, <2>1 DEF PageCloses, TypeOK
<1>4. CASE DnsFails
  <2>1. outages' \in 0 .. MaxOutages
    BY <1>4, VacanciesAssumption, SMT DEF DnsFails, TypeOK
  <2> QED BY <1>4, <2>1 DEF DnsFails, TypeOK
<1>5. CASE DnsRecovers
  BY <1>5 DEF DnsRecovers, TypeOK, bounds
<1>6. CASE Restart
  <2>1. restarts' \in 0 .. MaxRestarts
    BY <1>6, VacanciesAssumption, SMT DEF Restart, TypeOK
  <2> QED BY <1>6, <2>1, Records DEF Restart, TypeOK, world
<1> QED BY <1>1, <1>2, <1>3, <1>4, <1>5, <1>6

LEMMA TypeStep ==
    ASSUME TypeOK, CheckInv, [Next]_vars PROVE TypeOK'
<1>2. CASE vars' = vars
  BY <1>2 DEF vars, TypeOK, world, bounds
<1> QED
  BY <1>2, ScansType, StartPassType, PingType, FinishType, DeleteType,
     UserType, WorldType DEF Next

-----------------------------------------------------------------------------
(* What a step does to rows.                                               *)

\* The row h stays, as suppressed or unsuppressed as it was, and no younger.
Stays(h) ==
    /\ row'[h] \in Row
    /\ row'[h].status = "suppressed" <=> row[h].status = "suppressed"
    /\ row[h].old => row'[h].old

SameOffer(h) == row'[h].link = row[h].link /\ row'[h].posted = row[h].posted

\* A stored row is deleted by the cleanup only; only a scan changes its offer.
LEMMA RowSteps ==
    ASSUME TypeOK, CheckInv, [Next]_vars, NEW h \in Hash, Stored(h)
    PROVE  \/ DeleteOld /\ h \in cleanup.doomed
           \/ Stays(h) /\ SameOffer(h)
           \/ \E s \in Scanner : /\ UpdateOriginals(s)
                                 /\ Stays(h)
                                 /\ row'[h] = Changed(row[h], scan[s].change[h])
<1>0. row[h] \in Row
  BY StoredRow
<1>1. ASSUME row' = row PROVE Stays(h) /\ SameOffer(h)
  BY <1>0, <1>1 DEF Stays, SameOffer
<1>2. ASSUME NEW s \in Scanner, UpdateOriginals(s)
      PROVE  Stays(h) /\ row'[h] = Changed(row[h], scan[s].change[h])
  <2>1. scan[s].change[h] \in Change
    BY SMT DEF TypeOK, ScanState
  <2>2. row'[h] = Changed(row[h], scan[s].change[h])
    BY <1>2 DEF UpdateOriginals, Changed, Stored
  <2> QED BY <1>0, <2>1, <2>2, ChangedIsRow DEF Stays
<1>3. ASSUME NEW s \in Scanner, Insert(s) PROVE Stays(h) /\ SameOffer(h)
  <2>1. row'[h] = row[h]
    BY <1>3, InsertRows
  <2> QED BY <1>0, <2>1 DEF Stays, SameOffer
<1>4. CASE FinishPass
  <2>1. CASE ~Written(h)
    <3>1. row'[h] = row[h]
      BY <1>4, <2>1 DEF FinishPass
    <3> QED BY <1>0, <3>1 DEF Stays, SameOffer
  <2>2. CASE Written(h)
    <3>1. check.seen[h] \in Row /\ row[h].status # "suppressed"
      BY <2>2 DEF CheckInv, Written
    <3>2. check.seen[h].status # "suppressed" => Checked(h).status # "suppressed"
      BY <2>2, <3>1, CheckedIsRow
    <3>3. Checked(h) \in Row
      BY <2>2, <3>1, CheckedIsRow
    <3>4. row'[h] = Kept(h, row[h])
      BY <1>4, <2>2 DEF FinishPass, Kept
    <3>5. check.seen[h].status = "suppressed" => FALSE
      BY <2>2 DEF CheckInv, Written
    <3>6. Stays(h)
      BY <1>0, <3>1, <3>2, <3>3, <3>4, <3>5, KeptIsRow DEF Stays
    <3> QED BY <1>0, <3>3, <3>4, <3>6, KeptIsRow DEF SameOffer
  <2> QED BY <2>1, <2>2
<1>5. CASE DeleteOld
  <2>1. CASE h \in cleanup.doomed
    BY <1>5, <2>1
  <2>2. CASE h \notin cleanup.doomed
    <3>1. row'[h] = row[h]
      BY <1>5, <2>2 DEF DeleteOld
    <3> QED BY <1>0, <3>1 DEF Stays, SameOffer
  <2> QED BY <2>1, <2>2
<1>6. CASE NextDay
  <2> DEFINE u == [row[h] EXCEPT !.due = TRUE]
  <2>1. row'[h] = u
    BY <1>6 DEF NextDay
  <2>2. u \in Row /\ u.status = row[h].status /\ u.link = row[h].link
          /\ u.posted = row[h].posted /\ u.old = row[h].old
    BY <1>0, RowUpdate
  <2> HIDE DEF u
  <2> QED BY <2>1, <2>2 DEF Stays, SameOffer
<1>7. ASSUME NEW g \in Hash, GetOld(g) PROVE Stays(h) /\ SameOffer(h)
  <2> DEFINE u == [row[h] EXCEPT !.old = TRUE]
  <2>1. row'[h] = row[h] \/ row'[h] = u
    BY <1>7 DEF GetOld, TypeOK
  <2>2. u \in Row /\ u.status = row[h].status /\ u.link = row[h].link
          /\ u.posted = row[h].posted /\ u.old = TRUE
    BY <1>0, RowUpdate
  <2> HIDE DEF u
  <2> QED BY <1>0, <2>1, <2>2 DEF Stays, SameOffer
<1>8. ASSUME \/ \E s \in Scanner : Search(s) \/ Match(s) \/ CountBulk(s) \/ FailScan(s)
             \/ (\E S \in SUBSET Hash : StartPass(S)) \/ (\E g \in Hash : Ping(g)) \/ FailPass
             \/ ReadProtected \/ SelectOld \/ (\E g \in Hash, status \in Status : SetStatus(g, status))
             \/ (\E p \in Posting : PageCloses(p)) \/ DnsFails \/ DnsRecovers \/ Restart
             \/ UNCHANGED vars
      PROVE  row' = row
  BY <1>8 DEF Search, Match, CountBulk, FailScan, StartPass, Ping, FailPass, ReadProtected, SelectOld, SetStatus, PageCloses,
     DnsFails, DnsRecovers, Restart, vars
<1> QED
  BY <1>1, <1>2, <1>3, <1>4, <1>5, <1>6, <1>7, <1>8 DEF Next

\* Only a scan stores a vacancy, one of those it found new.
LEMMA NewRows ==
    ASSUME TypeOK, CheckInv, [Next]_vars, NEW h \in Hash, ~Stored(h), Stored(h)'
    PROVE  \E s \in Scanner : Insert(s) /\ \E p \in scan[s].fresh : Stores(s, p) /\ HashOf[p] = h
<1>1. row[h] = NoRow /\ row'[h] # NoRow
  BY DEF Stored
<1>2. \A g \in Hash : Written(g) => Stored(g)
  BY DEF CheckInv, Written
<1>3. ~FinishPass /\ ~DeleteOld /\ ~NextDay
  BY <1>1, <1>2 DEF FinishPass, DeleteOld, NextDay, Stored
<1>4. \A g \in Hash : ~GetOld(g)
  <2> SUFFICES ASSUME NEW g \in Hash, GetOld(g) PROVE FALSE
    OBVIOUS
  <2>1. g # h
    BY <1>1 DEF GetOld, Stored
  <2> QED BY <1>1, <2>1 DEF GetOld
<1>5. \A s \in Scanner : ~UpdateOriginals(s)
  BY <1>1 DEF UpdateOriginals
<1>6. \A s \in Scanner : Insert(s) => \E p \in scan[s].fresh : Stores(s, p) /\ HashOf[p] = h
  BY <1>1, InsertRows
<1>7. row' # row
  BY <1>1
<1>8. \A s \in Scanner : ~Search(s) /\ ~Match(s) /\ ~CountBulk(s) /\ ~FailScan(s)
  BY <1>7 DEF Search, Match, CountBulk, FailScan
<1> QED
  BY <1>3, <1>4, <1>5, <1>6, <1>7, <1>8 DEF Next, StartPass, Ping, FailPass, ReadProtected,
     SelectOld, SetStatus, PageCloses, DnsFails, DnsRecovers, Restart, vars

-----------------------------------------------------------------------------
(* The URL check.                                                          *)

LEMMA CheckStep ==
    ASSUME TypeOK, CheckInv, [Next]_vars PROVE CheckInv'
<1> SUFFICES ASSUME NEW h \in Hash, check'.result[h] \notin {"none", "lost"}
             PROVE  /\ Stored(h)' /\ row'[h].status # "suppressed"
                    /\ check'.seen[h] \in Row /\ check'.seen[h].status # "suppressed"
  BY DEF CheckInv
<1>1. ASSUME check' = NoCheck PROVE FALSE
  BY <1>1 DEF NoCheck
<1>2. ASSUME NEW S \in SUBSET Hash, StartPass(S)
      PROVE  row' = row /\ row[h] \in Row /\ row[h].status # "suppressed"
                        /\ check'.seen[h] = row[h]
  <2>1. h \in S
    BY <1>2 DEF StartPass
  <2>2. Stored(h) /\ row[h].status # "suppressed"
    BY <1>2, <2>1 DEF StartPass, Checkable
  <2>3. check'.seen[h] = row[h]
    BY <1>2, <2>1 DEF StartPass
  <2> QED BY <1>2, <2>2, <2>3, StoredRow DEF StartPass
<1>3. ASSUME \A S \in SUBSET Hash : ~StartPass(S)
      PROVE  /\ check'.seen[h] = check.seen[h]
             /\ check.result[h] \notin {"none", "lost"}
             /\ ~ (DeleteOld /\ h \in cleanup.doomed)
  <2>1. CASE check' = check /\ ~DeleteOld
    BY <2>1
  <2>2. ASSUME NEW g \in Hash, Ping(g) 
        PROVE  /\ check'.seen = check.seen
               /\ check.result[h] \notin {"none", "lost"}
               /\ ~ (DeleteOld /\ h \in cleanup.doomed)
    BY <2>2, SMT DEF Ping, TypeOK, CheckState, DeleteOld
  <2>3. CASE DeleteOld
    <3> DEFINE result == [g \in Hash |-> IF g \in cleanup.doomed /\ check.result[g] # "none"
                                           THEN "lost" ELSE check.result[g]]
    <3>1. check' = [check EXCEPT !.result = result] /\ check \in CheckState
      BY <2>3 DEF DeleteOld, TypeOK
    <3>2. /\ result[h] \notin {"none", "lost"} =>
                h \notin cleanup.doomed /\ check.result[h] \notin {"none", "lost"}
      OBVIOUS
    <3> HIDE DEF result
    <3>3. check'.seen = check.seen /\ check'.result = result
      BY <3>1, SMT DEF CheckState
    <3> QED BY <3>2, <3>3
  <2>4. check' = check \/ (\E g \in Hash : Ping(g)) \/ DeleteOld
    BY <1>1, <1>3 DEF Next, Search, Match, UpdateOriginals, CountBulk, Insert, FailScan,
       FinishPass, FailPass, ReadProtected, SelectOld, SetStatus, NextDay, GetOld, PageCloses, DnsFails, DnsRecovers, Restart, vars
  <2> QED BY <2>1, <2>2, <2>3, <2>4
<1>4. CASE \E S \in SUBSET Hash : StartPass(S)
  <2>1. row' = row /\ row[h] \in Row /\ row[h].status # "suppressed" /\ check'.seen[h] = row[h]
    BY <1>2, <1>4
  <2>2. Stored(h)'
    BY <2>1, NullsAssumption DEF Stored
  <2> QED BY <2>1, <2>2
<1>5. CASE \A S \in SUBSET Hash : ~StartPass(S)
  <2>1. /\ Stored(h) /\ row[h].status # "suppressed"
        /\ check.seen[h] \in Row /\ check.seen[h].status # "suppressed"
    BY <1>3, <1>5 DEF CheckInv
  <2>2. Stays(h)
    BY <1>3, <1>5, <2>1, RowSteps
  <2>3. Stored(h)'
    BY <2>2, NullsAssumption DEF Stays, Stored
  <2> QED BY <1>3, <1>5, <2>1, <2>2, <2>3 DEF Stays
<1> QED BY <1>4, <1>5

\* What a pass of the URL check has loaded agrees with the rows it will write.
THEOREM Invariance == Spec => [](TypeOK /\ CheckInv)
<1>1. Init => TypeOK /\ CheckInv
  BY InitType DEF Init, CheckInv, NoCheck
<1>2. TypeOK /\ CheckInv /\ [Next]_vars => (TypeOK /\ CheckInv)'
  BY TypeStep, CheckStep
<1> QED BY <1>1, <1>2, PTL DEF Spec

\* Every variable keeps its type, for any numbers of postings and scans.
THEOREM TypeCorrect == Spec => []TypeOK
BY Invariance, PTL

\* No pass of the URL check, and nothing else, brings a suppressed row back.
THEOREM SuppressionLasts == Spec => SuppressedStays
<1>1. TypeOK /\ CheckInv /\ [Next]_vars =>
        [\A h \in Hash : Stored(h) /\ row[h].status = "suppressed" /\ Stored(h)' =>
            row'[h].status = "suppressed"]_vars
  <2> SUFFICES ASSUME TypeOK, CheckInv, [Next]_vars, NEW h \in Hash,
                      Stored(h), row[h].status = "suppressed", Stored(h)'
               PROVE  row'[h].status = "suppressed"
    OBVIOUS
  <2>1. ~ (DeleteOld /\ h \in cleanup.doomed)
    BY DEF DeleteOld, Stored
  <2> QED BY <2>1, RowSteps DEF Stays
<1> QED BY <1>1, Invariance, PTL DEF Spec, SuppressedStays

-----------------------------------------------------------------------------
(* Scans side by side.                                                     *)

\* A row that counts counted before, or a scan has just stored it.
LEMMA CountingRows ==
    ASSUME TypeOK, CheckInv, [Next]_vars, NEW h \in Hash, Blocking(h)'
    PROVE  \/ Blocking(h)
           \/ ~Stored(h) /\ \E s \in Scanner :
                Insert(s) /\ \E p \in scan[s].fresh : Stores(s, p) /\ HashOf[p] = h
<1>1. CASE Stored(h)
  <2>1. ~ (DeleteOld /\ h \in cleanup.doomed)
    BY DEF DeleteOld, Blocking, Stored
  <2>2. Stays(h)
    BY <1>1, <2>1, RowSteps
  <2> QED BY <1>1, <2>2 DEF Stays, Blocking
<1>2. CASE ~Stored(h)
  BY <1>2, NewRows DEF Blocking
<1> QED BY <1>1, <1>2

\* A step that leaves a scan as it is, but for what it misses, and that stores
\* no row and changes no date but of rows the scan then misses, keeps what the
\* scan knows.
LEMMA Undisturbed ==
    ASSUME TypeOK, CheckInv, [Next]_vars, NEW s \in Scanner, FreshInv(s), ChangeInv(s), PlanInv(s),
           scan'[s].pc = scan[s].pc, scan'[s].fresh = scan[s].fresh,
           \A h \in Hash : scan'[s].change[h] \in {scan[s].change[h], NoChange},
           scan[s].missed \subseteq scan'[s].missed,
           scan[s].pc \in {"matched", "updated", "counted"} =>
             \A h \in Hash :
               /\ Blocking(h)' => (Blocking(h) \/ h \in scan'[s].missed)
               /\ (scan'[s].change[h] # NoChange /\ Stored(h)) =>
                    \/ Stored(h)' /\ row'[h].posted = row[h].posted
                    \/ h \in scan'[s].missed
    PROVE  FreshInv(s)' /\ ChangeInv(s)' /\ PlanInv(s)'
<1>1. FreshInv(s)'
  BY DEF FreshInv
<1>2. PlanInv(s)'
  BY DEF PlanInv
<1>3. ASSUME NEW h \in Hash
      PROVE  /\ scan'[s].change[h].link # NoLink => scan'[s].change[h].link \in Direct
             /\ scan'[s].change[h].posted # 0 =>
                  \/ Stored(h)' /\ scan'[s].change[h].posted < row'[h].posted
                  \/ h \in scan'[s].missed
  <2>1. CASE scan'[s].change[h] = NoChange
    BY <2>1, NullFields
  <2>2. CASE scan'[s].change[h] # NoChange
    <3>1. scan'[s].change[h] = scan[s].change[h] /\ scan[s].pc = "matched"
      BY <2>2 DEF PlanInv
    <3>2. scan[s].change[h].link # NoLink => scan[s].change[h].link \in Direct
      BY DEF ChangeInv
    <3>3. scan[s].change[h].posted # 0 =>
            \/ Stored(h) /\ scan[s].change[h].posted < row[h].posted
            \/ h \in scan[s].missed
      BY DEF ChangeInv
    <3> QED BY <2>2, <3>1, <3>2, <3>3
  <2> QED BY <2>1, <2>2
<1>4. ChangeInv(s)'
  BY <1>3 DEF ChangeInv
<1> QED BY <1>1, <1>2, <1>4

\* A scan that starts anew knows nothing yet.
LEMMA Anew ==
    ASSUME NEW s \in Scanner, scan'[s].pc \in {"idle", "fetched"},
           scan'[s].change = NoScan.change
    PROVE  FreshInv(s)' /\ ChangeInv(s)' /\ PlanInv(s)'
<1>1. \A h \in Hash : scan'[s].change[h] = NoChange
  BY NullFields
<1> QED BY <1>1, NullFields DEF FreshInv, ChangeInv, PlanInv

LEMMA OwnStep ==
    ASSUME TypeOK, CheckInv, ScanInv, [Next]_vars, NEW s \in Scanner,
           Search(s) \/ Match(s) \/ UpdateOriginals(s) \/ CountBulk(s) \/ Insert(s) \/ FailScan(s)
    PROVE  FreshInv(s)' /\ ChangeInv(s)' /\ PlanInv(s)'
<1>1. FreshInv(s) /\ ChangeInv(s) /\ PlanInv(s)
  BY DEF ScanInv
<1>2. CASE Search(s)
  BY <1>2, SearchScan, Anew
<1>3. CASE Match(s)
  <2>1. row' = row
    BY <1>3 DEF Match
  <2>2. /\ \A p \in scan'[s].fresh, h \in Hash :
              Blocking(h) /\ <<HashOf[p], h>> \in Alike
                /\ LandOf[h] = LandOf[HashOf[p]] => LandOf[h] = NoLand
        /\ \A h \in Hash :
              /\ scan'[s].change[h].link # NoLink => scan'[s].change[h].link \in Direct
              /\ scan'[s].change[h].posted # 0 =>
                   Stored(h) /\ scan'[s].change[h].posted < row[h].posted
        /\ scan'[s].pc # "matched" => \A h \in Hash : scan'[s].change[h] = NoChange
    BY <1>3, MatchScan
  <2> QED BY <2>1, <2>2 DEF FreshInv, ChangeInv, PlanInv, Blocking, Stored
<1>4. CASE UpdateOriginals(s)
  <2>1. \A h \in Hash : scan'[s].change[h] = NoChange
    BY <1>4, UpdateScan, NullFields
  <2>2. \A t \in Scanner : ~Insert(t)
    <3>1. \A h \in Hash : ~Stored(h) => ~Stored(h)'
      BY <1>4 DEF UpdateOriginals, Stored
    <3> SUFFICES ASSUME NEW t \in Scanner, Insert(t) PROVE FALSE
      OBVIOUS
    <3>2. t # s
      BY <1>4 DEF UpdateOriginals, Insert
    <3>3. scan'[t] = NoScan
      BY InsertScan
    <3>4. scan'[t].pc = scan[t].pc
      BY <1>4, <3>2, UpdateScan
    <3> QED BY <3>3, <3>4, NullFields DEF Insert
  <2>3. \A h \in Hash : Blocking(h)' => Blocking(h)
    BY <2>2, CountingRows
  <2>4. scan[s].pc = "matched"
    BY <1>4 DEF UpdateOriginals
  <2>5. scan'[s].fresh = {} \/ (scan'[s].fresh = scan[s].fresh /\ scan'[s].missed = scan[s].missed)
    BY <1>4, UpdateScan
  <2>6. FreshInv(s)'
    BY <1>1, <2>3, <2>4, <2>5 DEF FreshInv
  <2> QED BY <2>1, <2>6, NullFields DEF ChangeInv, PlanInv
<1>5. CASE CountBulk(s)
  <2>1. row' = row /\ scan[s].pc = "updated"
    BY <1>5 DEF CountBulk
  <2>2. scan'[s].fresh = scan[s].fresh /\ scan'[s].change = scan[s].change
        /\ scan'[s].missed = scan[s].missed /\ scan'[s].pc # "matched"
    BY <1>5, CountScan
  <2> QED BY <1>1, <2>1, <2>2 DEF FreshInv, ChangeInv, PlanInv, Blocking, Stored
<1>6. CASE Insert(s)
  BY <1>6, InsertScan, NullFields, Anew
<1>7. CASE FailScan(s)
  <2>1. scan'[s] = NoScan
    BY <1>7 DEF FailScan, TypeOK
  <2> QED BY <2>1, NullFields, Anew
<1> QED BY <1>2, <1>3, <1>4, <1>5, <1>6, <1>7

LEMMA OthersStep ==
    ASSUME TypeOK, CheckInv, ScanInv, [Next]_vars, NEW s \in Scanner, NEW t \in Scanner, t # s,
           Search(t) \/ Match(t) \/ UpdateOriginals(t) \/ CountBulk(t) \/ Insert(t) \/ FailScan(t)
    PROVE  FreshInv(s)' /\ ChangeInv(s)' /\ PlanInv(s)'
<1>1. FreshInv(s) /\ ChangeInv(s) /\ PlanInv(s)
  BY DEF ScanInv
<1>2. CASE Search(t) \/ Match(t) \/ CountBulk(t) \/ FailScan(t)
  <2>1. scan'[s] = scan[s]
    BY <1>2, SearchScan, MatchScan, CountScan DEF FailScan, TypeOK
  <2>2. row' = row
    BY <1>2 DEF Search, Match, CountBulk, FailScan
  <2> QED BY <1>1, <2>1, <2>2 DEF FreshInv, ChangeInv, PlanInv, Blocking, Stored
<1>3. CASE UpdateOriginals(t)
  <2>1. /\ scan'[s].pc = scan[s].pc /\ scan'[s].fresh = scan[s].fresh
        /\ scan'[s].change = scan[s].change
        /\ scan'[s].missed =
             IF scan[s].pc \in {"idle", "fetched"} THEN scan[s].missed
             ELSE scan[s].missed \cup {h \in Hash : scan[t].change[h] # NoChange}
    BY <1>3, UpdateScan
  <2>2. ASSUME NEW h \in Hash, Blocking(h)' PROVE Blocking(h)
    <3>1. Stored(h)
      BY <1>3, <2>2 DEF UpdateOriginals, Blocking, Stored
    <3> QED BY <2>2, <3>1, CountingRows
  <2>3. ASSUME NEW h \in Hash, Stored(h), scan[t].change[h] = NoChange
        PROVE  Stored(h)' /\ row'[h].posted = row[h].posted
    <3>1. row[h] \in Row /\ NoChange \in Change
      BY <2>3, StoredRow, Records
    <3>2. row'[h] = Changed(row[h], NoChange)
      BY <1>3, <2>3 DEF UpdateOriginals, Changed, Stored
    <3>3. row'[h] \in Row /\ row'[h].posted = row[h].posted
      BY <3>1, <3>2, ChangedIsRow, NullFields
    <3> QED BY <3>3, NullsAssumption DEF Stored
  <2> QED BY <1>1, <2>1, <2>2, <2>3, Undisturbed
<1>4. CASE Insert(t)
  <2>1. /\ scan'[s].pc = scan[s].pc /\ scan'[s].fresh = scan[s].fresh
        /\ scan'[s].change = scan[s].change
        /\ scan'[s].missed =
             IF scan[s].pc \in {"idle", "fetched"} THEN scan[s].missed
             ELSE scan[s].missed \cup {HashOf[p] : p \in {q \in scan[t].fresh : Stores(t, q)}}
    BY <1>4, InsertScan
  <2>2. ASSUME NEW h \in Hash, Blocking(h)', ~Blocking(h), scan[s].pc \notin {"idle", "fetched"}
        PROVE  h \in scan'[s].missed
    <3>1. row'[h] # row[h]
      BY <2>2 DEF Blocking, Stored
    <3>2. \E p \in scan[t].fresh : Stores(t, p) /\ HashOf[p] = h
      BY <1>4, <3>1, InsertRows
    <3> QED BY <2>1, <2>2, <3>2
  <2>3. ASSUME NEW h \in Hash, Stored(h) PROVE Stored(h)' /\ row'[h].posted = row[h].posted
    BY <1>4, <2>3, InsertRows DEF Stored
  <2> QED BY <1>1, <2>1, <2>2, <2>3, Undisturbed
<1> QED BY <1>2, <1>3, <1>4

\* A step that is not a scan's leaves what the scan will insert; it leaves
\* what the scan will write too, or drops it.
LEMMA OtherStep ==
    ASSUME TypeOK, CheckInv, ScanInv, [Next]_vars, NEW s \in Scanner,
           \A t \in Scanner : /\ ~Search(t) /\ ~Match(t) /\ ~UpdateOriginals(t)
                              /\ ~CountBulk(t) /\ ~Insert(t) /\ ~FailScan(t)
    PROVE  FreshInv(s)' /\ ChangeInv(s)' /\ PlanInv(s)'
<1>0. FreshInv(s) /\ ChangeInv(s) /\ PlanInv(s)
  BY DEF ScanInv
<1>b. \A h \in Hash : Blocking(h)' => Blocking(h)
  BY CountingRows
<1>1. CASE DeleteOld
  <2> DEFINE change == [h \in Hash |-> IF h \in cleanup.doomed THEN NoChange ELSE scan[s].change[h]]
  <2>1. scan'[s] = [scan[s] EXCEPT !.change = change]
    BY <1>1 DEF DeleteOld
  <2>2. scan[s] \in ScanState
    BY DEF TypeOK
  <2>3. change \in [Hash -> Change]
    BY <2>2, Records, SMT DEF ScanState
  <2>4. \A h \in Hash : change[h] = IF h \in cleanup.doomed THEN NoChange ELSE scan[s].change[h]
    OBVIOUS
  <2> HIDE DEF change
  <2>5. scan'[s].pc = scan[s].pc /\ scan'[s].fresh = scan[s].fresh /\ scan'[s].change = change
        /\ scan'[s].missed = scan[s].missed
    BY <2>1, <2>2, <2>3, NewChange
  <2>6. ASSUME NEW h \in Hash, h \notin cleanup.doomed, Stored(h)
        PROVE  Stored(h)' /\ row'[h].posted = row[h].posted
    <3>1. row'[h] = row[h]
      BY <1>1, <2>6 DEF DeleteOld
    <3> QED BY <2>6, <3>1 DEF Stored
  <2> QED BY <1>0, <1>b, <2>4, <2>5, <2>6, Undisturbed
<1>2. CASE Restart
  <2>1. scan'[s] = NoScan
    BY <1>2 DEF Restart
  <2> QED BY <2>1, NullFields, Anew
<1>3. CASE ~DeleteOld /\ ~Restart
  <2>1. scan' = scan
    BY <1>3 DEF Next, StartPass, Ping, FinishPass, FailPass, ReadProtected, SelectOld, SetStatus,
       NextDay, GetOld, PageCloses, DnsFails, DnsRecovers, vars
  <2>2. ASSUME NEW h \in Hash, Stored(h) PROVE Stored(h)' /\ row'[h].posted = row[h].posted
    <3>1. Stays(h) /\ SameOffer(h)
      BY <1>3, <2>2, RowSteps
    <3> QED BY <3>1, NullsAssumption DEF Stays, SameOffer, Stored
  <2> QED BY <1>0, <1>b, <2>1, <2>2, Undisturbed
<1> QED BY <1>1, <1>2, <1>3

LEMMA ScanStep ==
    ASSUME TypeOK, CheckInv, ScanInv, [Next]_vars
    PROVE  ScanInv'
<1> SUFFICES ASSUME NEW s \in Scanner PROVE FreshInv(s)' /\ ChangeInv(s)' /\ PlanInv(s)'
  BY DEF ScanInv
<1> DEFINE Steps(t) == Search(t) \/ Match(t) \/ UpdateOriginals(t) \/ CountBulk(t)
                         \/ Insert(t) \/ FailScan(t)
<1>1. CASE Steps(s)
  BY <1>1, OwnStep
<1>2. ASSUME NEW t \in Scanner, t # s, Steps(t) PROVE FreshInv(s)' /\ ChangeInv(s)' /\ PlanInv(s)'
  BY <1>2, OthersStep
<1>3. CASE \A t \in Scanner : ~Steps(t)
  BY <1>3, OtherStep
<1> QED BY <1>1, <1>2, <1>3

LEMMA InitScan == Init => ScanInv
<1> SUFFICES ASSUME Init, NEW s \in Scanner PROVE FreshInv(s) /\ ChangeInv(s) /\ PlanInv(s)
  BY DEF ScanInv
<1>1. scan[s] = NoScan
  BY DEF Init
<1>2. \A h \in Hash : scan[s].change[h] = NoChange
  BY <1>1, NullFields
<1> QED BY <1>1, <1>2, NullFields DEF FreshInv, ChangeInv, PlanInv

\* What every scan is about to do is right, but for what it misses.
THEOREM ScansAreRight == Spec => []ScanInv
<1>1. Init => ScanInv
  BY InitScan
<1>2. TypeOK /\ CheckInv /\ ScanInv /\ [Next]_vars => ScanInv'
  BY ScanStep
<1> QED BY <1>1, <1>2, Invariance, PTL DEF Spec

LEMMA ImproveStep ==
    ASSUME TypeOK, CheckInv, ScanInv, [Next]_vars, NEW h \in Hash, Stored(h), Stored(h)'
    PROVE  /\ row[h].link \in Direct => row'[h].link \in Direct
           /\ \/ row[h].posted >= row'[h].posted
              \/ \E s \in Scanner : UpdateOriginals(s) /\ h \in scan[s].missed
<1>1. row[h] \in Row
  BY StoredRow
<1>2. CASE SameOffer(h)
  BY <1>1, <1>2, SMT DEF SameOffer, Row
<1>3. ASSUME NEW s \in Scanner, UpdateOriginals(s), row'[h] = Changed(row[h], scan[s].change[h])
      PROVE  /\ row[h].link \in Direct => row'[h].link \in Direct
             /\ row[h].posted >= row'[h].posted \/ h \in scan[s].missed
  <2> DEFINE c == scan[s].change[h]
  <2>1. c \in Change
    BY SMT DEF TypeOK, ScanState
  <2>2. /\ c.link # NoLink => c.link \in Direct
        /\ c.posted # 0 => c.posted < row[h].posted \/ h \in scan[s].missed
    BY DEF ScanInv, ChangeInv
  <2>3. /\ row'[h].link = IF c.link = NoLink THEN row[h].link ELSE c.link
        /\ row'[h].posted = IF c.posted = 0 THEN row[h].posted ELSE c.posted
    BY <1>1, <1>3, <2>1, ChangedIsRow
  <2> HIDE DEF c
  <2>4. row[h].posted \in Nat /\ c.posted \in Nat
    BY <1>1, <2>1, SMT DEF Row, Change
  <2> QED BY <2>2, <2>3, <2>4
<1>4. ~ (DeleteOld /\ h \in cleanup.doomed)
  BY DEF DeleteOld, Stored
<1> QED BY <1>2, <1>3, <1>4, RowSteps

\* Whatever other scans do, a scan stores a repost of a vacancy of the same
\* country only if another scan has stored that vacancy since its lookup.
THEOREM RepostsAreSkipped == Spec => RepostsSkipped
<1>1. ScanInv /\ [Next]_vars =>
        [\A s \in Scanner : Insert(s) => \A p \in Posting, h \in Hash :
            Stores(s, p) /\ Counting(h) /\ <<HashOf[p], h>> \in Alike
              /\ LandOf[h] = LandOf[HashOf[p]] /\ LandOf[h] # NoLand
                => h \in scan[s].missed]_vars
  <2> SUFFICES ASSUME ScanInv, NEW s \in Scanner, Insert(s), NEW p \in Posting, NEW h \in Hash,
                      Stores(s, p), Counting(h), <<HashOf[p], h>> \in Alike,
                      LandOf[h] = LandOf[HashOf[p]], LandOf[h] # NoLand
               PROVE  h \in scan[s].missed
    OBVIOUS
  <2>1. scan[s].pc = "counted" /\ p \in scan[s].fresh /\ Blocking(h)
    BY DEF Insert, Stores, Counting, Blocking
  <2> QED BY <2>1 DEF ScanInv, FreshInv
<1> QED BY <1>1, ScansAreRight, PTL DEF Spec, RepostsSkipped

\* Whatever scans run side by side, a stored row does not lose a direct link,
\* and gets a later date only from a scan that missed another's commit.
THEOREM OffersImprove == Spec => RowsOnlyImprove
<1>1. TypeOK /\ CheckInv /\ ScanInv /\ [Next]_vars =>
        [\A h \in Hash : Stored(h) /\ Stored(h)' =>
            /\ row[h].link \in Direct => row'[h].link \in Direct
            /\ \/ row[h].posted >= row'[h].posted
               \/ \E s \in Scanner : UpdateOriginals(s) /\ h \in scan[s].missed]_vars
  BY ImproveStep
<1> QED BY <1>1, ScansAreRight, Invariance, PTL DEF Spec, RowsOnlyImprove

LEMMA AppStep ==
    ASSUME TypeOK, CheckInv, AppInv, [Next]_vars PROVE AppInv'
<1> SUFFICES ASSUME NEW h \in Hash, app'[h] # "none" PROVE Stored(h)'
  BY DEF AppInv
<1>1. ~ (DeleteOld /\ h \in cleanup.doomed)
  BY DEF DeleteOld
<1>2. Stored(h)
  <2>1. CASE app' = app \/ DeleteOld
    BY <2>1 DEF AppInv, DeleteOld
  <2>2. ASSUME NEW g \in Hash, NEW status \in Status, SetStatus(g, status)
        PROVE  Stored(h)
    <3>1. CASE g = h
      BY <2>2, <3>1 DEF SetStatus
    <3>2. CASE g # h
      BY <2>2, <3>2 DEF SetStatus, TypeOK, AppInv
    <3> QED BY <3>1, <3>2
  <2> QED
    BY <2>1, <2>2 DEF Next, Search, Match, UpdateOriginals, CountBulk, Insert, FailScan,
       StartPass, Ping, FinishPass, FailPass, ReadProtected, SelectOld, NextDay, GetOld, PageCloses, DnsFails, DnsRecovers, Restart, vars
<1>3. Stays(h)
  BY <1>1, <1>2, RowSteps
<1> QED BY <1>3, NullsAssumption DEF Stays, Stored

\* The cleanup does not list an application that was active when it read the
\* protected jobs, and nothing else deletes a row.
THEOREM ActiveIsKept == Spec => KeptUnlessExposed
<1>1. Init => AppInv
  BY DEF Init, AppInv
<1>2. TypeOK /\ CheckInv /\ AppInv /\ [Next]_vars => AppInv'
  BY AppStep
<1>3. TypeOK /\ CheckInv /\ AppInv /\ [Next]_vars =>
        [\A h \in Hash : app[h] \in Active /\ ~Exposed(h) => Stored(h)' /\ ~Exposed(h)']_vars
  <2> SUFFICES ASSUME TypeOK, CheckInv, AppInv, [Next]_vars, NEW h \in Hash,
                      app[h] \in Active, ~Exposed(h)
               PROVE  Stored(h)' /\ ~Exposed(h)'
    OBVIOUS
  <2>1. Stored(h)
    BY DEF AppInv, Active
  <2>2. h \notin cleanup.doomed
    BY DEF Exposed
  <2>3. Stays(h)
    BY <2>1, <2>2, RowSteps
  <2>4. Stored(h)'
    BY <2>3, NullsAssumption DEF Stays, Stored
  <2>5. ~Exposed(h)'
    <3>1. CASE ReadProtected
      BY <3>1 DEF ReadProtected, Protected, Exposed
    <3>2. CASE SelectOld
      <4>1. h \in cleanup.protected
        BY <3>2 DEF SelectOld, Exposed
      <4> QED BY <3>2, <4>1, NullFields DEF SelectOld, Exposed
    <3>3. CASE DeleteOld \/ Restart
      BY <3>3, NullFields DEF DeleteOld, Restart, Exposed
    <3>4. CASE ~ReadProtected /\ ~SelectOld /\ ~DeleteOld /\ ~Restart
      <4>1. cleanup' = cleanup
        BY <3>4 DEF Next, Search, Match, UpdateOriginals, CountBulk, Insert, FailScan, StartPass,
           Ping, FinishPass, FailPass, SetStatus, NextDay, GetOld, PageCloses, DnsFails,
           DnsRecovers, vars
      <4> QED BY <4>1 DEF Exposed
    <3> QED BY <3>1, <3>2, <3>3, <3>4
  <2> QED BY <2>4, <2>5
<1> QED BY <1>1, <1>2, <1>3, Invariance, PTL DEF Spec, KeptUnlessExposed
=============================================================================
