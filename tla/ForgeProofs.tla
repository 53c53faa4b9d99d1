---------------------------- MODULE ForgeProofs -----------------------------
(* Proofs about what stands around the repositories: what each of the      *)
(* eleven components that Forge composes keeps, for any number of          *)
(* projects, people and requests under way. A component is an instance     *)
(* with its own variables, is proved about under its own specification,    *)
(* and keeps what it keeps in the composition: the last section says so,   *)
(* property by property.                                                   *)
EXTENDS Forge, FiniteSetTheorems, SequenceTheorems, TLAPS

-----------------------------------------------------------------------------
(* The scan for secrets.                                                   *)

\* What a call knows: a decision is trusted with what it read, and a scan that
\* is about to save has read what was said before.
ScanFits(q) ==
    /\ q.at \in {"idle", "look", "list", "save", "decide"}
    /\ q.at = "decide" => q.finding \in Secrets /\ q.state \in Z!FindingState
ScansFit == DOMAIN scan = Scanners /\ \A c \in Scanners : ScanFits(scan[c])
Heard    == \A c \in Scanners : scan[c].at = "save" =>
                \A x \in waived \ beside : scan[c].known[x] = "ignored"
ScanInv  == Z!TypeOK /\ ScansFit /\ Heard /\ Z!LoneScanTells /\ Z!IgnoredStays

LEMMA ScanInit == Z!Init => ScanInv
<1> SUFFICES ASSUME Z!Init PROVE ScanInv
  OBVIOUS
<1>1. /\ lone = FALSE /\ findings \in Z!FindingRows /\ tree = {} /\ twice = {}
      /\ waived = {} /\ beside = {}
  BY DEF Z!Init, Z!FindingRows
<1>2. ScansFit /\ \A c \in Scanners : scan[c].at = "idle"
  BY DEF Z!Init, Z!Idle, ScansFit, ScanFits
<1> QED
  BY <1>1, <1>2 DEF ScanInv, Z!TypeOK, Heard, Z!LoneScanTells, Z!IgnoredStays

LEMMA ScanMoves ==
  ASSUME ScanInv, NEW c \in Scanners, NEW q, ScanFits(q), scan' = [scan EXCEPT ![c] = q]
  PROVE  ScansFit' /\ \A d \in Scanners : scan'[d].at \in {"idle", "look", "list", "save", "decide"}
  BY DEF ScanInv, ScansFit, ScanFits

\* What a scan writes tells what it found, when nothing changed meanwhile.
LEMMA ScanWrites ==
  ASSUME ScanInv, NEW c \in Scanners, Z!scan(c)
  PROVE  ScanInv'
<1> DEFINE q == scan[c]
<1>a. Z!TypeOK /\ ScansFit /\ Heard /\ Z!IgnoredStays
  BY DEF ScanInv
<1>1. ScansFit' /\ \A d \in Scanners : scan'[d].at \in {"idle", "look", "list", "save", "decide"}
  BY ScanMoves DEF Z!scan, Z!Uncrossed, Z!Leaves, Z!Then, Z!Idle, ScanFits
<1>2. findings \in [Secrets -> Z!FindingState \union {"none"}]
  BY <1>a DEF Z!TypeOK, Z!FindingRows
<1>3. findings' \in [Secrets -> Z!FindingState \union {"none"}]
  BY <1>2 DEF Z!scan, Z!Uncrossed, Z!Verdict, Z!FindingState
<1>4. ASSUME lone' PROVE Z!Tells' \/ \E x \in twice' : ~Z!find(x)'
  <2>1. q.hits = tree /\ q.double = twice /\ q.known = findings /\ tree' = tree /\ twice' = twice
    BY <1>4 DEF Z!scan, Z!Uncrossed
  <2>2. CASE Z!Refused(q)
    <3>1. findings' = findings
      BY <2>2 DEF Z!scan, Z!Uncrossed
    <3>2. PICK x \in tree : findings[x] = "none" /\ x \in twice
      BY <2>1, <2>2 DEF Z!Refused, Z!find
    <3> QED
      BY <2>1, <3>1, <3>2 DEF Z!find
  <2>3. CASE ~Z!Refused(q)
    <3>1. \A x \in Secrets : findings'[x] =
             LET v == Z!Verdict(x, tree, findings[x]) IN IF v = "as it is" THEN findings[x] ELSE v
      BY <2>1, <2>3 DEF Z!scan
    <3> QED
      BY <1>2, <2>1, <3>1 DEF Z!Tells, Z!Verdict, Z!FindingState
  <2> QED
    BY <2>2, <2>3
<1>5. /\ lone' \in BOOLEAN /\ UNCHANGED <<tree, twice, waived, beside>>
      /\ q.at = "save" /\ scan' = [scan EXCEPT ![c] = [at |-> "idle"]]
  BY DEF Z!scan, Z!Uncrossed, Z!words, Z!In, Z!Leaves, Z!Then, Z!Idle
\* What it had heard it leaves as it is.
<1>6. ASSUME NEW x \in waived \ beside PROVE findings'[x] = "ignored"
  <2>1. findings[x] = "ignored" /\ q.known[x] = "ignored" /\ x \in Secrets
    BY <1>a, <1>5, <1>6 DEF Heard, Z!IgnoredStays, Z!TypeOK
  <2>2. Z!Verdict(x, q.hits, q.known[x]) = "as it is"
    BY <2>1 DEF Z!Verdict
  <2> QED
    BY <2>1, <2>2 DEF Z!scan
<1>7. Heard'
  BY <1>a, <1>5 DEF Heard, ScansFit
<1> QED
  BY <1>a, <1>1, <1>3, <1>4, <1>5, <1>6, <1>7
     DEF ScanInv, Z!TypeOK, Z!FindingRows, Z!LoneScanTells, Z!IgnoredStays

LEMMA ScanNext == ScanInv /\ [Z!Next]_Z!scanVars => ScanInv'
<1> SUFFICES ASSUME ScanInv, [Z!Next]_Z!scanVars PROVE ScanInv'
  OBVIOUS
<1>a. Z!TypeOK /\ ScansFit /\ Heard /\ Z!LoneScanTells /\ Z!IgnoredStays
  BY DEF ScanInv
<1>b. ASSUME NEW c \in Scanners, NEW q, ScanFits(q), scan' = [scan EXCEPT ![c] = q],
             q.at = "save" => q.known = findings,
             UNCHANGED <<tree, twice, findings, lone, waived, beside>>
      PROVE  ScanInv'
  <2>1. Heard'
    BY <1>a, <1>b DEF Heard, ScansFit, Z!IgnoredStays
  <2> QED
    BY <1>a, <1>b, <2>1, ScanMoves DEF ScanInv, Z!TypeOK, Z!LoneScanTells, Z!IgnoredStays, Z!Tells, Z!find
<1>c. ASSUME NEW c \in Scanners, NEW q, ScanFits(q), scan' = [scan EXCEPT ![c] = q], ~lone', lone' \in BOOLEAN,
             tree' \subseteq Secrets, twice' \subseteq tree', findings' \in Z!FindingRows,
             waived' \subseteq Secrets, beside' \subseteq Secrets, Heard', Z!IgnoredStays'
      PROVE  ScanInv'
  BY <1>c, ScanMoves DEF ScanInv, Z!TypeOK, Z!LoneScanTells
<1>1. ASSUME NEW c \in Scanners, NEW S \in SUBSET Secrets, NEW T \in SUBSET Secrets, Z!after_push(c, S, T)
      PROVE  ScanInv'
  <2>1. /\ scan' = [scan EXCEPT ![c] = [at |-> "look"]] /\ ~lone' /\ lone' \in BOOLEAN
        /\ tree' = S /\ twice' = T /\ T \subseteq S /\ UNCHANGED <<findings, waived, beside>>
    BY <1>1 DEF Z!after_push, Z!Then, Z!words
  <2>2. Heard' /\ Z!IgnoredStays'
    BY <1>a, <2>1 DEF Heard, ScansFit, Z!IgnoredStays
  <2> QED
    BY <1>a, <1>c, <2>1, <2>2 DEF ScanFits, Z!TypeOK
<1>2. ASSUME NEW c \in Scanners, Z!scan_now(c) PROVE ScanInv'
  BY <1>2, <1>b DEF Z!scan_now, Z!Then, Z!words, ScanFits
<1>3. ASSUME NEW c \in Scanners, Z!_look(c) PROVE ScanInv'
  BY <1>3, <1>b DEF Z!_look, Z!Then, Z!words, ScanFits
<1>4. ASSUME NEW c \in Scanners, Z!list_findings(c) PROVE ScanInv'
  BY <1>4, <1>b DEF Z!list_findings, Z!Then, Z!words, ScanFits
<1>5. ASSUME NEW c \in Scanners, NEW x \in Secrets, NEW s \in Z!FindingState, Z!change_finding(c, x, s)
      PROVE  ScanInv'
  BY <1>5, <1>b DEF Z!change_finding, Z!Then, Z!words, ScanFits
<1>6. ASSUME NEW c \in Scanners, Z!set_state(c) PROVE ScanInv'
  <2>1. scan[c].finding \in Secrets /\ scan[c].state \in Z!FindingState
    BY <1>6, <1>a DEF Z!set_state, Z!In, ScansFit, ScanFits
  <2>2. findings' \in Z!FindingRows
    BY <1>6, <1>a, <2>1 DEF Z!set_state, Z!TypeOK, Z!FindingRows
  <2>3. /\ scan' = [scan EXCEPT ![c] = [at |-> "idle"]] /\ ~lone' /\ lone' \in BOOLEAN
        /\ UNCHANGED <<tree, twice>>
    BY <1>6 DEF Z!set_state, Z!Leaves, Z!Then, Z!Idle
  <2> DEFINE f == scan[c].finding
  <2>4. /\ \A x \in Secrets \ {f} : findings'[x] = findings[x]
        /\ \A x \in waived' \ beside' : x # f => x \in waived \ beside
        /\ f \in waived' => findings'[f] = "ignored"
        /\ f \notin beside' => \A d \in Scanners : scan[d].at # "save"
        /\ waived' \subseteq Secrets /\ beside' \subseteq Secrets
    BY <1>6, <1>a, <2>1 DEF Z!set_state, Z!In, Z!TypeOK, Z!FindingRows
  <2>5. Z!IgnoredStays'
    BY <1>a, <2>4 DEF Z!IgnoredStays
  <2>6. Heard'
    BY <1>a, <2>3, <2>4 DEF Heard, ScansFit
  <2> QED
    BY <1>a, <1>c, <2>2, <2>3, <2>4, <2>5, <2>6 DEF ScanFits, Z!TypeOK
<1>7. ASSUME UNCHANGED Z!scanVars PROVE ScanInv'
  BY <1>7, <1>a DEF Z!scanVars, ScanInv, Z!TypeOK, ScansFit, Heard, Z!LoneScanTells, Z!IgnoredStays, Z!Tells, Z!find
<1> QED
  BY <1>1, <1>2, <1>3, <1>4, <1>5, <1>6, <1>7, ScanWrites DEF Z!Next

(* LoneScanTells: a scan that saves while tip and findings stand as it     *)
(* read them leaves the open findings to be the secrets of the branch, but *)
(* for those somebody said are fine, unless a secret without a row stands  *)
(* on several lines of its file, which takes the scan back. IgnoredStays:  *)
(* what somebody said is fine is put back on the list only by a scan that  *)
(* had read it before. For any number of secrets, scans and decisions      *)
(* (scanning/service.py scan, set_state).                                  *)
THEOREM FindingsAreTold == Z!Spec => [](Z!TypeOK /\ Z!LoneScanTells /\ Z!IgnoredStays)
<1>1. ScanInv => Z!TypeOK /\ Z!LoneScanTells /\ Z!IgnoredStays
  BY DEF ScanInv
<1> QED
  BY <1>1, ScanInit, ScanNext, PTL DEF Z!Spec
-----------------------------------------------------------------------------
(* Pages.                                                                  *)

Whole(d)   == d = NoDir \/ \E c \in Heads : d = <<c, c>>
Unpacked   == {"sweep", "out", "in"}
Swapping   == {"clear", "first", "second", "rid", "row"} \union Unpacked
Publishes(q) == q.at \in Swapping => q.commit \in Heads

\* What lies in <id>.new is what the one publication under way has unpacked.
NewFits(q, d) ==
    /\ q.at = "first" => d["new"] = P!Bare
    /\ q.at = "second" => d["new"] = <<q.commit, NoDir>>
    /\ q.at \in Unpacked => d["new"] = <<q.commit, q.commit>>

DirTyped(d) == d = NoDir \/ d \in (Heads \union {NoDir}) \X (Heads \union {NoDir})
DirsTyped == DOMAIN dir = {"new", "live", "old"} /\ \A d \in DOMAIN dir : DirTyped(dir[d])
PagesTyped ==
    /\ site \in P!SiteRows /\ enabled \in BOOLEAN /\ branch \in Heads /\ joined \in BOOLEAN
    /\ DirsTyped
    /\ DOMAIN publishing = Publishers
    /\ \A p \in Publishers : /\ publishing[p].at \in Swapping \union {"idle", "tree"}
                             /\ "at" \in DOMAIN publishing[p]
                             /\ Publishes(publishing[p])
OneAtATime == \A p \in Publishers, q \in Publishers :
                 publishing[p].at # "idle" /\ publishing[q].at # "idle" => p = q
SiteServed == /\ OneAtATime /\ (remains \/ Whole(dir["live"]))
              /\ \A p \in Publishers : NewFits(publishing[p], dir)
PagesInv   == PagesTyped /\ (joined \/ SiteServed)

LEMMA PagesInit == P!Init => PagesInv
<1> SUFFICES ASSUME P!Init PROVE PagesInv
  OBVIOUS
<1>1. /\ \A p \in Publishers : publishing[p] = [at |-> "idle"]
      /\ DOMAIN publishing = Publishers /\ dir = [d \in {"new", "live", "old"} |-> NoDir]
  BY DEF P!Init
<1> QED
  BY <1>1 DEF P!Init, PagesInv, PagesTyped, DirsTyped, DirTyped, P!SiteRows, Publishes, Swapping, Unpacked, SiteServed,
     OneAtATime, Whole, NewFits

\* A publication that goes on, or is over: r is where it stands now.
LEMMA PublicationGoesOn ==
  ASSUME PagesInv, NEW p \in Publishers, NEW r, publishing' = [publishing EXCEPT ![p] = r],
         publishing[p].at # "idle", "at" \in DOMAIN r, r.at \in Swapping \union {"idle", "tree"}, Publishes(r),
         DirsTyped', site' \in P!SiteRows, enabled' \in BOOLEAN, branch' \in Heads, joined' = joined,
         ~joined /\ (remains \/ Whole(dir["live"])) /\ NewFits(publishing[p], dir) =>
             (remains' \/ Whole(dir'["live"])) /\ NewFits(r, dir')
  PROVE  PagesInv'
<1>1. publishing'[p] = r /\ \A q \in Publishers \ {p} : publishing'[q] = publishing[q]
  BY DEF PagesInv, PagesTyped
<1>2. PagesTyped'
  BY <1>1 DEF PagesInv, PagesTyped
<1>3. ASSUME ~joined PROVE SiteServed'
  <2>1. SiteServed
    BY <1>3 DEF PagesInv
  <2>2. \A q \in Publishers \ {p} : publishing[q].at = "idle"
    BY <2>1 DEF SiteServed, OneAtATime
  <2>3. OneAtATime'
    BY <1>1, <2>2 DEF OneAtATime
  <2>4. (remains' \/ Whole(dir'["live"])) /\ NewFits(r, dir')
    BY <1>3, <2>1 DEF SiteServed
  <2>5. \A q \in Publishers : NewFits(publishing[q], dir)'
    BY <1>1, <2>2, <2>4 DEF NewFits, Unpacked
  <2> QED
    BY <2>3, <2>4, <2>5 DEF SiteServed, Whole
<1> QED
  BY <1>2, <1>3 DEF PagesInv

\* One that begins is alone, or it is known that it is not.
LEMMA PublicationBegins ==
  ASSUME PagesInv, NEW p \in Publishers, NEW r, publishing' = [publishing EXCEPT ![p] = r],
         publishing[p].at = "idle", "at" \in DOMAIN r, r.at \in {"clear", "tree"}, Publishes(r),
         UNCHANGED <<dir, branch, remains>>, site' \in P!SiteRows, enabled' \in BOOLEAN, joined' = (joined \/ P!Busy # {})
  PROVE  PagesInv'
<1>1. publishing'[p] = r /\ \A q \in Publishers \ {p} : publishing'[q] = publishing[q]
  BY DEF PagesInv, PagesTyped
<1>2. PagesTyped'
  BY <1>1 DEF PagesInv, PagesTyped, DirsTyped, Swapping
<1>3. ASSUME ~joined' PROVE SiteServed'
  <2>1. SiteServed /\ \A q \in Publishers : publishing[q].at = "idle"
    BY <1>3 DEF PagesInv, P!Busy, P!Doing
  <2>2. OneAtATime'
    BY <1>1, <2>1 DEF OneAtATime
  <2>3. \A q \in Publishers : NewFits(publishing'[q], dir')
    BY <1>1, <2>1 DEF NewFits, Unpacked
  <2> QED
    BY <2>1, <2>2, <2>3 DEF SiteServed, Whole
<1> QED
  BY <1>2, <1>3 DEF PagesInv
\* A directory is emptied, written to, or moved.
LEMMA DirsStayTyped ==
  ASSUME DirsTyped, NEW e, DirTyped(e), NEW d \in {"new", "live", "old"}, dir' = [dir EXCEPT ![d] = e]
  PROVE  DirsTyped' /\ dir'[d] = e /\ \A x \in {"new", "live", "old"} \ {d} : dir'[x] = dir[x]
  BY DEF DirsTyped

LEMMA UnpackKeeps ==
  ASSUME PagesInv, NEW p \in Publishers, NEW step, NEW n, NEW next, P!Extract(p, step, n, next),
         \/ step = "first" /\ n = 1 /\ next = "second"
         \/ step = "second" /\ n = 2 /\ next = "sweep"
  PROVE  PagesInv'
<1> DEFINE r == [publishing[p] EXCEPT !.at = next]
<1>0. /\ publishing[p].at = step /\ step \in Swapping /\ next \in Swapping
      /\ UNCHANGED <<site, enabled, branch, joined, remains>>
  BY DEF P!Extract, P!Doing, Swapping, Unpacked
<1>1. /\ "at" \in DOMAIN publishing[p] /\ publishing[p].commit \in Heads /\ DirsTyped
      /\ site \in P!SiteRows /\ enabled \in BOOLEAN /\ branch \in Heads
  BY <1>0 DEF PagesInv, PagesTyped, Publishes
<1>2. CASE dir["new"] = NoDir
  <2> DEFINE i == [at |-> "idle"]
  <2>1. publishing' = [publishing EXCEPT ![p] = i] /\ dir' = dir
    BY <1>2 DEF P!Extract, P!Gives, P!Then
  <2>2. Publishes(i) /\ NewFits(i, dir') /\ i.at = "idle" /\ "at" \in DOMAIN i
    BY DEF Publishes, NewFits, Swapping, Unpacked
  <2>3. DirsTyped'
    BY <1>1, <2>1 DEF DirsTyped
  <2> HIDE DEF i
  <2> QED
    BY <1>0, <1>1, <2>1, <2>2, <2>3, PublicationGoesOn DEF Swapping
<1>3. CASE dir["new"] # NoDir
  <2>1. publishing' = [publishing EXCEPT ![p] = r] /\ dir' = [dir EXCEPT !["new"][n] = publishing[p].commit]
    BY <1>3 DEF P!Extract, P!Onwards, P!Then
  <2>2. r.at = next /\ r.commit = publishing[p].commit /\ "at" \in DOMAIN r
    BY <1>1
  <2>3. dir["new"] \in (Heads \union {NoDir}) \X (Heads \union {NoDir})
    BY <1>1, <1>3 DEF DirsTyped, DirTyped
  <2> DEFINE e == [dir["new"] EXCEPT ![n] = publishing[p].commit]
  <2>4. dir' = [dir EXCEPT !["new"] = e]
    BY <2>1
  <2>5. e = IF n = 1 THEN <<publishing[p].commit, dir["new"][2]>> ELSE <<dir["new"][1], publishing[p].commit>>
    BY <2>3
  <2>6. DirTyped(e)
    BY <1>1, <2>3, <2>5 DEF DirTyped
  <2>7. DirsTyped' /\ dir'["new"] = e /\ dir'["live"] = dir["live"]
    BY <1>1, <2>4, <2>6, DirsStayTyped
  <2>8. NewFits(publishing[p], dir) => NewFits(r, dir')
    BY <1>0, <2>2, <2>5, <2>7 DEF NewFits, P!Bare, Unpacked
  <2>9. Publishes(r)
    BY <1>1, <2>2 DEF Publishes
  <2> HIDE DEF r, e
  <2> QED
    BY <1>0, <1>1, <2>1, <2>2, <2>7, <2>8, <2>9, PublicationGoesOn DEF Swapping
<1> QED
  BY <1>2, <1>3

LEMMA SwapKeeps ==
  ASSUME PagesInv, NEW p \in Publishers, NEW step, NEW from, NEW to, NEW next, P!SwapMoves(p, step, from, to, next),
         \/ step = "out" /\ from = "live" /\ to = "old" /\ next = "in"
         \/ step = "in" /\ from = "new" /\ to = "live" /\ next = "rid"
  PROVE  PagesInv'
<1> DEFINE r == [publishing[p] EXCEPT !.at = next]
<1>0. /\ publishing[p].at = step /\ step \in Swapping /\ next \in Swapping
      /\ UNCHANGED <<site, enabled, branch, joined>>
  BY DEF P!SwapMoves, P!Doing, Swapping, Unpacked
<1>1. /\ "at" \in DOMAIN publishing[p] /\ publishing[p].commit \in Heads /\ DirsTyped
      /\ site \in P!SiteRows /\ enabled \in BOOLEAN /\ branch \in Heads
  BY <1>0 DEF PagesInv, PagesTyped, Publishes
<1>2. CASE dir[from] = NoDir \/ dir[to] \notin {NoDir, P!Bare}
  <2> DEFINE i == [at |-> "idle"]
  <2>1. publishing' = [publishing EXCEPT ![p] = i] /\ dir' = dir /\ remains' = remains
    BY <1>2 DEF P!SwapMoves, P!Gives, P!Then
  <2>2. Publishes(i) /\ NewFits(i, dir') /\ i.at = "idle" /\ "at" \in DOMAIN i
    BY DEF Publishes, NewFits, Swapping, Unpacked
  <2>3. DirsTyped'
    BY <1>1, <2>1 DEF DirsTyped
  <2> HIDE DEF i
  <2> QED
    BY <1>0, <1>1, <2>1, <2>2, <2>3, PublicationGoesOn DEF Swapping
<1>3. CASE ~(dir[from] = NoDir \/ dir[to] \notin {NoDir, P!Bare})
  <2>1. /\ publishing' = [publishing EXCEPT ![p] = r] /\ dir' = [dir EXCEPT ![to] = dir[from], ![from] = NoDir]
        /\ remains' = FALSE
    BY <1>3 DEF P!SwapMoves, P!Onwards, P!Then
  <2>2. r.at = next /\ r.commit = publishing[p].commit /\ "at" \in DOMAIN r
    BY <1>1
  <2>3. /\ DirsTyped' /\ dir'[from] = NoDir /\ dir'[to] = dir[from]
        /\ \A x \in {"new", "live", "old"} \ {from, to} : dir'[x] = dir[x]
    BY <1>1, <2>1 DEF DirsTyped, DirTyped
  <2>4. (remains \/ Whole(dir["live"])) /\ NewFits(publishing[p], dir) =>
          (remains' \/ Whole(dir'["live"])) /\ NewFits(r, dir')
    BY <1>0, <1>1, <2>2, <2>3 DEF NewFits, Whole, Unpacked
  <2>5. Publishes(r)
    BY <1>1, <2>2 DEF Publishes
  <2> HIDE DEF r
  <2> QED
    BY <1>0, <1>1, <2>1, <2>2, <2>3, <2>4, <2>5, PublicationGoesOn DEF Swapping
<1> QED
  BY <1>2, <1>3

LEMMA PagesNext == PagesInv /\ [P!Next]_P!pagesVars => PagesInv'
<1> SUFFICES ASSUME PagesInv, [P!Next]_P!pagesVars PROVE PagesInv'
  OBVIOUS
<1>a. PagesTyped /\ DirsTyped /\ site \in P!SiteRows /\ enabled \in BOOLEAN /\ branch \in Heads
  BY DEF PagesInv, PagesTyped
<1>b. ASSUME UNCHANGED <<dir, publishing, joined, remains>>, site' \in P!SiteRows, enabled' \in BOOLEAN, branch' \in Heads
      PROVE  PagesInv'
  BY <1>b DEF PagesInv, PagesTyped, DirsTyped, SiteServed, OneAtATime
<1> DEFINE i == [at |-> "idle"]
<1>i. Publishes(i) /\ (\A d : NewFits(i, d)) /\ i.at = "idle" /\ "at" \in DOMAIN i
  BY DEF Publishes, NewFits, Swapping, Unpacked
<1>g. ASSUME NEW p \in Publishers, publishing[p].at \in Swapping
      PROVE  /\ "at" \in DOMAIN publishing[p] /\ publishing[p].commit \in Heads /\ publishing[p].at # "idle"
             /\ \A s : LET r == [publishing[p] EXCEPT !.at = s]
                       IN  r.at = s /\ r.commit = publishing[p].commit /\ "at" \in DOMAIN r /\ Publishes(r)
  <2>1. "at" \in DOMAIN publishing[p] /\ publishing[p].commit \in Heads
    BY <1>a, <1>g DEF PagesTyped, Publishes
  <2> QED
    BY <1>g, <2>1 DEF Publishes, Swapping, Unpacked
<1> HIDE DEF i
<1>1. ASSUME NEW on \in BOOLEAN, P!Configure(on) PROVE PagesInv'
  BY <1>1, <1>a, <1>b DEF P!Configure, P!SiteRows
<1>2. ASSUME NEW c \in Heads, P!MoveBranch(c) PROVE PagesInv'
  BY <1>2, <1>a, <1>b DEF P!MoveBranch
<1>3. ASSUME NEW p \in Publishers, P!publish(p) PROVE PagesInv'
  <2> DEFINE r == [at |-> "clear", commit |-> branch]
  <2>1. /\ publishing' = [publishing EXCEPT ![p] = r] /\ publishing[p].at = "idle"
        /\ joined' = (joined \/ P!Busy # {}) /\ UNCHANGED <<site, enabled, branch, dir, remains>>
    BY <1>3 DEF P!publish, P!Then, P!Doing
  <2>2. r.at = "clear" /\ "at" \in DOMAIN r /\ Publishes(r)
    BY <1>a DEF Publishes
  <2> HIDE DEF r
  <2> QED
    BY <1>a, <2>1, <2>2, PublicationBegins
<1>4. ASSUME NEW p \in Publishers, P!ClearStaging(p) PROVE PagesInv'
  <2> DEFINE r == [publishing[p] EXCEPT !.at = "first"]
  <2>1. /\ publishing' = [publishing EXCEPT ![p] = r] /\ publishing[p].at = "clear"
        /\ dir' = [dir EXCEPT !["new"] = P!Bare] /\ UNCHANGED <<site, enabled, branch, joined, remains>>
    BY <1>4 DEF P!ClearStaging, P!Then, P!Doing, P!Onwards
  <2>2. DirTyped(P!Bare)
    BY DEF DirTyped, P!Bare
  <2>3. DirsTyped' /\ dir'["new"] = P!Bare /\ dir'["live"] = dir["live"]
    BY <1>a, <2>1, <2>2, DirsStayTyped
  <2>4. r.at = "first" /\ "at" \in DOMAIN r /\ Publishes(r) /\ publishing[p].at # "idle" /\ "first" \in Swapping
    BY <1>g, <2>1 DEF Swapping
  <2>5. NewFits(r, dir')
    BY <2>3, <2>4 DEF NewFits, Unpacked
  <2> HIDE DEF r
  <2> QED
    BY <1>a, <2>1, <2>3, <2>4, <2>5, PublicationGoesOn
<1>5. ASSUME NEW p \in Publishers, P!Unpack(p) PROVE PagesInv'
  <2>1. P!Extract(p, "first", 1, "second") => PagesInv'
    BY UnpackKeeps
  <2>2. P!Extract(p, "second", 2, "sweep") => PagesInv'
    BY UnpackKeeps
  <2> QED
    BY <1>5, <2>1, <2>2 DEF P!Unpack
<1>6. ASSUME NEW p \in Publishers, P!SwapSweeps(p) PROVE PagesInv'
  <2>0. PICK s \in {"in", "out"} : /\ publishing' = [publishing EXCEPT ![p] = [publishing[p] EXCEPT !.at = s]]
                                   /\ publishing[p].at = "sweep" /\ dir' = [dir EXCEPT !["old"] = NoDir]
                                   /\ UNCHANGED <<site, enabled, branch, joined, remains>>
    BY <1>6 DEF P!SwapSweeps, P!Then, P!Doing, P!Onwards
  <2> DEFINE r == [publishing[p] EXCEPT !.at = s]
  <2>1. publishing' = [publishing EXCEPT ![p] = r]
    BY <2>0
  <2>2. DirsTyped' /\ dir'["new"] = dir["new"] /\ dir'["live"] = dir["live"]
    BY <1>a, <2>0, DirsStayTyped DEF DirTyped
  <2>3. /\ r.at = s /\ r.commit = publishing[p].commit /\ "at" \in DOMAIN r /\ Publishes(r)
        /\ publishing[p].at # "idle" /\ s \in Swapping
    BY <1>g, <2>0 DEF Swapping, Unpacked
  <2>4. NewFits(publishing[p], dir) => NewFits(r, dir')
    BY <2>0, <2>2, <2>3 DEF NewFits, Unpacked
  <2> HIDE DEF r
  <2> QED
    BY <1>a, <2>0, <2>1, <2>2, <2>3, <2>4, PublicationGoesOn
<1>7. ASSUME NEW p \in Publishers, P!Swap(p) PROVE PagesInv'
  BY <1>7, SwapKeeps DEF P!Swap
<1>8. ASSUME NEW p \in Publishers, P!RidOfOld(p) PROVE PagesInv'
  <2> DEFINE r == [publishing[p] EXCEPT !.at = "row"]
  <2>1. /\ publishing' = [publishing EXCEPT ![p] = r] /\ publishing[p].at = "rid"
        /\ dir' = [dir EXCEPT !["old"] = NoDir] /\ UNCHANGED <<site, enabled, branch, joined, remains>>
    BY <1>8 DEF P!RidOfOld, P!Then, P!Doing, P!Onwards
  <2>2. DirsTyped' /\ dir'["live"] = dir["live"]
    BY <1>a, <2>1, DirsStayTyped DEF DirTyped
  <2>3. r.at = "row" /\ "at" \in DOMAIN r /\ Publishes(r) /\ publishing[p].at # "idle" /\ "row" \in Swapping
    BY <1>g, <2>1 DEF Swapping
  <2>4. NewFits(r, dir')
    BY <2>3 DEF NewFits, Unpacked
  <2> HIDE DEF r
  <2> QED
    BY <1>a, <2>1, <2>2, <2>3, <2>4, PublicationGoesOn
<1>9. ASSUME NEW p \in Publishers, P!CommitSite(p) PROVE PagesInv'
  <2>1. /\ publishing' = [publishing EXCEPT ![p] = i] /\ publishing[p].at = "row"
        /\ UNCHANGED <<enabled, branch, dir, joined, remains>>
    BY <1>9 DEF P!CommitSite, P!Gives, P!Then, P!Doing, i
  <2>2. site' \in P!SiteRows /\ DirsTyped'
    BY <1>9, <1>a, <1>g, <2>1 DEF P!CommitSite, P!SiteRows, Swapping, DirsTyped
  <2> QED
    BY <1>a, <1>i, <2>1, <2>2, PublicationGoesOn
<1>10. ASSUME NEW p \in Publishers, P!RemoveSite(p) PROVE PagesInv'
  <2> DEFINE r == [at |-> "tree"]
  <2>1. /\ publishing' = [publishing EXCEPT ![p] = r] /\ publishing[p].at = "idle"
        /\ joined' = (joined \/ P!Busy # {}) /\ UNCHANGED <<branch, dir, remains>> /\ site' \in P!SiteRows /\ enabled' \in BOOLEAN
    BY <1>10 DEF P!RemoveSite, P!Then, P!Doing, P!SiteRows
  <2>2. r.at = "tree" /\ "at" \in DOMAIN r /\ Publishes(r)
    BY DEF Publishes, Swapping, Unpacked
  <2> HIDE DEF r
  <2> QED
    BY <1>a, <2>1, <2>2, PublicationBegins
<1>11. ASSUME NEW p \in Publishers, P!RemoveTree(p) PROVE PagesInv'
  <2>1. /\ publishing' = [publishing EXCEPT ![p] = i] /\ publishing[p].at = "tree"
        /\ UNCHANGED <<site, enabled, branch, joined>>
        /\ \/ dir' = [dir EXCEPT !["live"] = NoDir]
           \/ dir' = dir /\ remains' = remains
    BY <1>11 DEF P!RemoveTree, P!Gives, P!Then, P!Doing, i
  <2>2. DirsTyped' /\ (dir'["live"] = NoDir \/ (dir' = dir /\ remains' = remains))
    <3>1. CASE dir' = [dir EXCEPT !["live"] = NoDir]
      BY <1>a, <3>1, DirsStayTyped DEF DirTyped
    <3>2. CASE dir' = dir /\ remains' = remains
      BY <1>a, <3>2 DEF DirsTyped
    <3> QED
      BY <2>1, <3>1, <3>2
  <2>3. remains \/ Whole(dir["live"]) => remains' \/ Whole(dir'["live"])
    BY <2>2 DEF Whole
  <2> QED
    BY <1>a, <1>i, <2>1, <2>2, <2>3, PublicationGoesOn
\* What is served is a piece less, and that is known.
<1>14. ASSUME NEW p \in Publishers, NEW n \in {1, 2}, P!RemoveFile(p, n) PROVE PagesInv'
  <2> DEFINE d == [dir["live"] EXCEPT ![n] = NoDir]
  <2>1. /\ publishing' = publishing /\ publishing[p].at = "tree" /\ dir["live"] # NoDir
        /\ dir' = [dir EXCEPT !["live"] = d] /\ remains' = TRUE /\ UNCHANGED <<site, enabled, branch, joined>>
    BY <1>14 DEF P!RemoveFile, P!Doing
  <2>2. dir["live"] \in (Heads \union {NoDir}) \X (Heads \union {NoDir})
    BY <1>a, <2>1 DEF DirsTyped, DirTyped
  <2>3. d = IF n = 1 THEN <<NoDir, dir["live"][2]>> ELSE <<dir["live"][1], NoDir>>
    BY <2>2
  <2>4. DirTyped(d)
    BY <2>2, <2>3 DEF DirTyped
  <2> HIDE DEF d
  <2>5. DirsTyped' /\ dir'["new"] = dir["new"]
    BY <1>a, <2>1, <2>4, DirsStayTyped
  <2> QED
    BY <2>1, <2>5 DEF PagesInv, PagesTyped, SiteServed, OneAtATime, NewFits
<1>12. ASSUME P!Kill PROVE PagesInv'
  <2>1. publishing' = [p \in Publishers |-> i] /\ UNCHANGED <<site, enabled, branch, dir, joined, remains>>
    BY <1>12 DEF P!Kill, i
  <2> QED
    BY <1>a, <1>i, <2>1 DEF PagesInv, PagesTyped, DirsTyped, SiteServed, OneAtATime
<1>13. ASSUME UNCHANGED P!pagesVars PROVE PagesInv'
  BY <1>13, <1>a, <1>b DEF P!pagesVars
<1> QED
  BY <1>1, <1>2, <1>3, <1>4, <1>5, <1>6, <1>7, <1>8, <1>9, <1>10, <1>11, <1>12, <1>13, <1>14
  DEF P!Next, P!publish_site, P!after_push

(* SiteIsWhole: what visitors are served is all of one commit, however     *)
(* often restarts break a publication off between two calls on the file    *)
(* system, unless two publications were at it at a time, or a removal has  *)
(* taken some of its files and left others (pages/service.py publish,      *)
(* _swap, remove).                                                         *)
THEOREM SitesAreWhole == P!Spec => [](P!TypeOK /\ P!SiteIsWhole)
<1>1. PagesInv => P!TypeOK /\ P!SiteIsWhole
  <2> SUFFICES ASSUME PagesInv PROVE P!TypeOK /\ P!SiteIsWhole
    OBVIOUS
  <2>1. P!TypeOK
    BY DEF PagesInv, PagesTyped, DirsTyped, DirTyped, P!TypeOK
  <2>2. P!resolve_file \in {NoDir, dir["live"]}
    BY DEF P!resolve_file
  <2> QED
    BY <2>1, <2>2 DEF PagesInv, SiteServed, Whole, P!SiteIsWhole
<1> QED
  BY <1>1, PagesInit, PagesNext, PTL DEF P!Spec
-----------------------------------------------------------------------------
(* Pushes, and the protection of branches.                                 *)

Compares == {"hook", "update", "commit"}
Rules    == {"list", "open", "store"}
PushFits(q) ==
    /\ q.at \in Compares \union Rules \union {"idle", "before", "after", "tell", "scan"}
    /\ q.at \in Compares \union Rules \union {"before"} => q.branch \in Branches
    /\ q.at = "before" => q.how \in {"look", "forward", "force", "edit"}
    /\ q.at \in {"hook", "update"} => q.how \in {"forward", "force"}
    /\ q.at \in Compares => {"how", "branch", "seen"} \subseteq DOMAIN q
    /\ q.at \in {"open", "store"} => {"branch", "on", "listed"} \subseteq DOMAIN q
    /\ q.at \in Rules => q.on \in BOOLEAN
    /\ q.at \in {"open", "store"} => q.listed \subseteq Branches
    /\ q.at = "tell" => q.moved \subseteq Branches

\* Commits are numbered as they are made, and hold what they were made on.
CommitsFit == /\ parents \in Seq(SUBSET Nat)
              /\ \A c \in 1..Len(parents) : c \in parents[c] /\ parents[c] \subseteq 1..c
PushTyped ==
    /\ DOMAIN push = Requests /\ \A r \in Requests : "at" \in DOMAIN push[r] /\ PushFits(push[r])
    /\ CommitsFit /\ tip \in [Branches -> 0..Len(parents)]
    /\ rules \subseteq Branches /\ hook \subseteq Branches /\ failures \in Nat /\ torn \in BOOLEAN

\* A tip is known to the pipelines, or somebody is about to tell them.
Brings(q, b, t) == \/ q.at = "after" /\ q.before[b] # t
                   \/ q.at = "tell" /\ b \in q.moved /\ q.after[b] = t
TipTold(b) == tip[b] = 0 \/ <<b, tip[b]>> \in told \/ \E r \in Requests : Brings(push[r], b, tip[b])

\* So it is with the scan, which looks up the tip when it comes to it.
Scans(q, t) == \/ q.at = "after" /\ q.before[Default] # t
               \/ q.at = "tell" /\ Default \in q.moved
               \/ q.at = "scan"
TipLooked == tip[Default] \in looked \union {0} \/ \E r \in Requests : Scans(push[r], tip[Default])

PushesTold == failures = 0 =>
    /\ \A b \in Branches \ (byHand \union returned) : TipTold(b)
    /\ Default \notin byHand \union returned => TipLooked

LEMMA PushesCountAlike == \A n \in Nat : U!Cardinality(1..n) = n
<1> SUFFICES ASSUME NEW n \in Nat PROVE U!Cardinality(1..n) = n
  OBVIOUS
<1>1. U!Cardinality(1..n) = Cardinality(1..n)
  BY DEF U!Cardinality, Cardinality
<1>2. Cardinality(1..n) = n
  BY FS_Interval
<1> QED
  BY <1>1, <1>2

LEMMA CommitsAreCounted ==
  ASSUME CommitsFit
  PROVE  Len(parents) \in Nat /\ U!Commits = 1..Len(parents) /\ U!fresh = Len(parents) + 1
<1>1. Len(parents) \in Nat /\ U!Commits = 1..Len(parents)
  BY DEF CommitsFit, U!Commits
<1> QED
  BY <1>1, PushesCountAlike DEF U!fresh

\* A branch moves to a commit that is there, or to one that holds what it kept.
LEMMA BranchMoves ==
  ASSUME PushTyped, NEW b \in Branches, NEW old, NEW new, U!Move(b, old, new)
  PROVE  /\ CommitsFit' /\ tip' \in [Branches -> 0..Len(parents')] /\ tip' = [tip EXCEPT ![b] = new]
<1>0. /\ CommitsFit /\ Len(parents) \in Nat /\ U!Commits = 1..Len(parents) /\ U!fresh = Len(parents) + 1
      /\ tip \in [Branches -> 0..Len(parents)] /\ tip[b] = old /\ tip' = [tip EXCEPT ![b] = new]
  BY CommitsAreCounted DEF PushTyped, U!Move
<1>1. CASE new \in U!Commits \union {0} /\ parents' = parents
  BY <1>0, <1>1 DEF CommitsFit
<1>2. CASE new = U!fresh /\ \E kept \in {{}, IF old = 0 THEN {} ELSE parents[old]} :
                parents' = Append(parents, kept \union {new})
  <2>1. PICK kept : /\ kept = {} \/ (old # 0 /\ kept = parents[old])
                    /\ parents' = Append(parents, kept \union {new})
    BY <1>2
  <2>2. kept \subseteq 1..Len(parents)
    BY <1>0, <2>1 DEF CommitsFit
  <2>3. /\ Len(parents') = Len(parents) + 1 /\ parents' \in Seq(SUBSET Nat)
        /\ \A c \in 1..Len(parents) : parents'[c] = parents[c]
        /\ parents'[new] = kept \union {new}
    BY <1>0, <1>2, <2>1, <2>2 DEF CommitsFit
  <2>4. ASSUME NEW c \in 1..Len(parents') PROVE c \in parents'[c] /\ parents'[c] \subseteq 1..c
    <3>1. CASE c = new
      BY <1>0, <1>2, <2>2, <2>3, <3>1
    <3>2. CASE c # new
      BY <1>0, <1>2, <2>3, <3>2 DEF CommitsFit
    <3> QED
      BY <3>1, <3>2
  <2> QED
    BY <1>0, <1>2, <2>3, <2>4 DEF CommitsFit
<1> QED
  BY <1>1, <1>2 DEF U!Move
\* One change of the rules at a time writes them all; a push that met none was
\* held against the file as it is.
ChangeFits(q, ruled) == /\ q.at \in {"open", "store"} => q.listed = ruled
                        /\ q.at \in Rules /\ q.on => q.branch \in ruled
Forces(q) == q.at \in {"before", "hook", "update"} /\ q.how = "force"
Passed(q, read) == q.at = "update" /\ q.how = "force" /\ q.seen # 0 => q.branch \notin read
Enforced == torn \/
    /\ rewritten = {} /\ answered \subseteq rules
    /\ \A r \in U!Changing, s \in U!Changing : r = s
    /\ U!Changing = {} => hook = rules
    /\ \A r \in Requests : ChangeFits(push[r], rules)
    /\ \A r \in Requests \ alongside : Forces(push[r]) => U!Changing = {} /\ Passed(push[r], hook)

PushInv == PushTyped /\ PushesTold /\ Enforced

LEMMA PushInit == U!Init => PushInv
<1> SUFFICES ASSUME U!Init PROVE PushInv
  OBVIOUS
<1>1. /\ \A r \in Requests : push[r] = [at |-> "idle"]
      /\ DOMAIN push = Requests /\ tip = [b \in Branches |-> 0] /\ parents = <<>>
      /\ rules = {} /\ hook = {} /\ answered = {} /\ torn = FALSE /\ rewritten = {} /\ failures = 0
  BY DEF U!Init, U!Idle
<1>2. U!Changing = {}
  BY <1>1 DEF U!Changing
<1>3. CommitsFit /\ Len(parents) = 0
  BY <1>1 DEF CommitsFit
<1>4. PushTyped
  <2>1. \A r \in Requests : "at" \in DOMAIN push[r] /\ PushFits(push[r])
    BY <1>1 DEF PushFits, Compares, Rules
  <2>2. tip \in [Branches -> 0..Len(parents)]
    BY <1>1, <1>3
  <2> QED
    BY <1>1, <1>3, <2>1, <2>2 DEF PushTyped
<1>5. PushesTold
  <2>1. \A b \in Branches : tip[b] = 0
    BY <1>1
  <2>2. tip[Default] = 0 \/ Default \notin Branches
    BY <2>1
  <2> QED
    BY <1>1, <2>1, ForgeAssumption DEF PushesTold, TipTold, TipLooked, PushesAssumption
<1>6. Enforced
  BY <1>1, <1>2 DEF Enforced, ChangeFits, Forces, Rules
<1> QED
  BY <1>4, <1>5, <1>6 DEF PushInv

LEMMA PushGoesOn ==
  ASSUME PushTyped, NEW r \in Requests, NEW q, push' = [push EXCEPT ![r] = q], "at" \in DOMAIN q, PushFits(q)
  PROVE  /\ push'[r] = q /\ \A s \in Requests \ {r} : push'[s] = push[s]
         /\ DOMAIN push' = Requests /\ \A s \in Requests : "at" \in DOMAIN push'[s] /\ PushFits(push'[s])
  BY DEF PushTyped

\* Whoever goes on without moving a branch brings what it brought, or has told it.
LEMMA ToldStays ==
  ASSUME PushTyped, PushesTold, NEW r \in Requests, NEW q, push' = [push EXCEPT ![r] = q],
         UNCHANGED <<tip, byHand, returned>>, failures' = 0 => failures = 0,
         told \subseteq told', looked \subseteq looked',
         \A b \in Branches : failures' = 0 /\ tip[b] # 0 /\ Brings(push[r], b, tip[b]) =>
                                Brings(q, b, tip[b]) \/ <<b, tip[b]>> \in told',
         failures' = 0 /\ tip[Default] # 0 /\ Scans(push[r], tip[Default]) => Scans(q, tip[Default]) \/ tip[Default] \in looked'
  PROVE  PushesTold'
<1>1. push'[r] = q /\ \A s \in Requests \ {r} : push'[s] = push[s]
  BY DEF PushTyped
<1>2. ASSUME failures' = 0, NEW b \in Branches \ (byHand \union returned) PROVE TipTold(b)'
  <2>1. TipTold(b)
    BY <1>2 DEF PushesTold
  <2>2. CASE \E s \in Requests : Brings(push[s], b, tip[b])
    <3>1. PICK s \in Requests : Brings(push[s], b, tip[b])
      BY <2>2
    <3>2. CASE s = r
      BY <1>1, <1>2, <3>1, <3>2 DEF TipTold
    <3>3. CASE s # r
      BY <1>1, <3>1, <3>3 DEF TipTold
    <3> QED
      BY <3>2, <3>3
  <2>3. CASE tip[b] = 0 \/ <<b, tip[b]>> \in told
    BY <2>3 DEF TipTold
  <2> QED
    BY <2>1, <2>2, <2>3 DEF TipTold
<1>3. ASSUME failures' = 0, Default \notin byHand \union returned PROVE TipLooked'
  <2>1. TipLooked
    BY <1>3 DEF PushesTold
  <2>2. CASE \E s \in Requests : Scans(push[s], tip[Default])
    <3>1. PICK s \in Requests : Scans(push[s], tip[Default])
      BY <2>2
    <3>2. CASE s = r
      BY <1>1, <1>3, <3>1, <3>2 DEF TipLooked
    <3>3. CASE s # r
      BY <1>1, <3>1, <3>3 DEF TipLooked
    <3> QED
      BY <3>2, <3>3
  <2>3. CASE tip[Default] \in looked \union {0}
    BY <2>3 DEF TipLooked
  <2> QED
    BY <2>1, <2>2, <2>3 DEF TipLooked
<1> QED
  BY <1>2, <1>3 DEF PushesTold

\* Whoever moves a branch will tell, unless it compares with the very tip it
\* left behind.
LEMMA MoveIsTold ==
  ASSUME PushTyped, PushesTold, NEW r \in Requests, NEW q, push' = [push EXCEPT ![r] = q],
         push[r].at \notin {"after", "tell", "scan"}, q.at = "after",
         NEW b \in Branches, NEW new, tip' = [tip EXCEPT ![b] = new],
         returned' = IF q.before[b] = new THEN returned \union {b} ELSE returned \ {b},
         UNCHANGED <<byHand, failures, told, looked>>
  PROVE  PushesTold'
<1>1. push'[r] = q /\ \A s \in Requests \ {r} : push'[s] = push[s]
  BY DEF PushTyped
<1>2. tip'[b] = new /\ \A x \in Branches \ {b} : tip'[x] = tip[x]
  BY DEF PushTyped
<1>3. \A x : ~Brings(push[r], x, tip[x]) /\ ~Scans(push[r], tip[Default])
  BY DEF Brings, Scans
<1>4. ASSUME failures = 0, NEW x \in Branches \ (byHand \union returned') PROVE TipTold(x)'
  <2>1. CASE x = b
    BY <1>1, <1>2, <1>4, <2>1 DEF TipTold, Brings
  <2>2. CASE x # b
    <3>1. TipTold(x) /\ tip'[x] = tip[x]
      BY <1>2, <1>4, <2>2 DEF PushesTold
    <3> QED
      BY <1>1, <1>3, <3>1 DEF TipTold
  <2> QED
    BY <2>1, <2>2
<1>5. ASSUME failures = 0, Default \notin byHand \union returned' PROVE TipLooked'
  <2>1. CASE Default = b
    BY <1>1, <1>2, <1>5, <2>1 DEF TipLooked, Scans
  <2>2. CASE Default # b
    <3>1. TipLooked /\ tip'[Default] = tip[Default]
      BY <1>2, <1>5, <2>2, ForgeAssumption DEF PushesTold, PushesAssumption
    <3> QED
      BY <1>1, <1>3, <3>1 DEF TipLooked
  <2> QED
    BY <2>1, <2>2
<1> QED
  BY <1>4, <1>5 DEF PushesTold

\* A request that changes no rules before or after this step.
LEMMA EnforcedStays ==
  ASSUME PushTyped, Enforced, NEW r \in Requests, NEW q, push' = [push EXCEPT ![r] = q],
         push[r].at \notin Rules, q.at \notin Rules, UNCHANGED <<rules, hook, answered, torn>>,
         ~torn => rewritten' = rewritten,
         \A s \in Requests \ {r} : s \in alongside => s \in alongside',
         ~torn /\ Forces(q) /\ r \notin alongside' => U!Changing = {} /\ Passed(q, hook)
  PROVE  Enforced'
<1>1. push'[r] = q /\ \A s \in Requests \ {r} : push'[s] = push[s]
  BY DEF PushTyped
<1>2. U!Changing' = U!Changing
  BY <1>1 DEF U!Changing, Rules
<1>3. SUFFICES ASSUME ~torn PROVE Enforced'
  BY DEF Enforced
<1>4. \A s \in Requests : ChangeFits(push[s], rules)'
  BY <1>1, <1>3 DEF Enforced, ChangeFits, Rules
<1>5. ASSUME NEW s \in Requests \ alongside', Forces(push'[s])
      PROVE  U!Changing = {} /\ Passed(push'[s], hook)
  BY <1>1, <1>3, <1>5 DEF Enforced
<1> QED
  BY <1>1, <1>2, <1>3, <1>4, <1>5 DEF Enforced
\* A step that moves no branch, and one that moves one and will tell of it.
LEMMA PushStep ==
  ASSUME PushInv, NEW r \in Requests, NEW q, push' = [push EXCEPT ![r] = q], "at" \in DOMAIN q, PushFits(q),
         UNCHANGED <<tip, parents, rules, hook, answered, torn, byHand, returned, failures, rewritten>>,
         push[r].at \notin Rules, q.at \notin Rules,
         told \subseteq told', looked \subseteq looked',
         \A s \in Requests \ {r} : s \in alongside => s \in alongside',
         ~torn /\ Forces(q) /\ r \notin alongside' => U!Changing = {} /\ Passed(q, hook),
         \A b \in Branches : tip[b] # 0 /\ Brings(push[r], b, tip[b]) =>
                                Brings(q, b, tip[b]) \/ <<b, tip[b]>> \in told',
         tip[Default] # 0 /\ Scans(push[r], tip[Default]) => Scans(q, tip[Default]) \/ tip[Default] \in looked'
  PROVE  PushInv'
<1>0. PushTyped /\ PushesTold /\ Enforced
  BY DEF PushInv
<1>1. PushTyped'
  BY <1>0, PushGoesOn DEF PushTyped, CommitsFit
<1>2. PushesTold'
  BY <1>0, ToldStays
<1>3. Enforced'
  BY <1>0, EnforcedStays
<1> QED
  BY <1>1, <1>2, <1>3 DEF PushInv

LEMMA PushMoves ==
  ASSUME PushInv, NEW r \in Requests, NEW q, push' = [push EXCEPT ![r] = q], "at" \in DOMAIN q, PushFits(q),
         push[r].at \in Compares, q.at = "after",
         NEW b \in Branches, NEW old, NEW new, U!Move(b, old, new),
         returned' = IF q.before[b] = new THEN returned \union {b} ELSE returned \ {b},
         UNCHANGED <<byHand, failures, told, looked, rules, hook, answered, torn>>,
         ~torn => rewritten' = rewritten,
         \A s \in Requests \ {r} : s \in alongside => s \in alongside'
  PROVE  PushInv'
<1>0. PushTyped /\ PushesTold /\ Enforced
  BY DEF PushInv
<1>1. CommitsFit' /\ tip' \in [Branches -> 0..Len(parents')] /\ tip' = [tip EXCEPT ![b] = new]
  BY <1>0, BranchMoves
<1>2. PushTyped'
  BY <1>0, <1>1, PushGoesOn DEF PushTyped
<1>3. PushesTold'
  BY <1>0, <1>1, MoveIsTold DEF Compares
<1>4. Enforced'
  <2>1. push[r].at \notin Rules /\ q.at \notin Rules /\ ~Forces(q)
    BY DEF Compares, Rules, Forces
  <2> QED
    BY <1>0, <2>1, EnforcedStays
<1> QED
  BY <1>2, <1>3, <1>4 DEF PushInv
LEMMA PushBegins ==
  ASSUME PushInv, NEW r \in Requests, NEW b \in Branches, NEW how, NEW old, U!Begins(r, b, how, old),
         how \in {"look", "forward", "force", "edit"}
  PROVE  PushInv'
<1> DEFINE q == [at |-> "before", how |-> how, branch |-> b, seen |-> old]
<1>1. /\ push' = [push EXCEPT ![r] = q] /\ push[r].at = "idle"
      /\ alongside' = IF U!Changing = {} THEN alongside ELSE alongside \union {r}
      /\ UNCHANGED <<tip, parents, told, looked, rules, hook, answered, torn, rewritten, byHand, returned, failures>>
  BY DEF U!Begins, U!Then, U!In, U!protectionVars, U!movedVars
<1>2. PushFits(q) /\ "at" \in DOMAIN q
  BY DEF PushFits, Compares, Rules
<1>3. push[r].at \notin Rules /\ q.at \notin Rules
  BY <1>1 DEF Rules
<1>4. Forces(q) /\ r \notin alongside' => U!Changing = {} /\ Passed(q, hook)
  BY <1>1 DEF Passed
<1>5. (\A x : ~Brings(push[r], x, tip[x])) /\ ~Scans(push[r], tip[Default])
  BY <1>1 DEF Brings, Scans
<1> HIDE DEF q
<1> QED
  BY <1>1, <1>2, <1>3, <1>4, <1>5, PushStep

LEMMA PushOffers ==
  ASSUME PushInv, NEW r \in Requests, U!branch_tips(r) \/ U!pre_receive(r)
  PROVE  PushInv'
<1>0. PushTyped /\ Enforced /\ PushFits(push[r]) /\ "at" \in DOMAIN push[r]
  BY DEF PushInv, PushTyped
<1>1. CASE U!branch_tips(r)
  <2> DEFINE q == IF push[r].how = "look" THEN [at |-> "after", before |-> tip]
                  ELSE [at |-> IF push[r].how = "edit" THEN "commit" ELSE "hook", how |-> push[r].how,
                        branch |-> push[r].branch, seen |-> push[r].seen, before |-> tip]
  <2>1. /\ push' = [push EXCEPT ![r] = q] /\ push[r].at = "before"
        /\ alongside' = IF push[r].how = "force" THEN alongside ELSE alongside \ {r}
        /\ UNCHANGED <<tip, parents, told, looked, rules, hook, answered, torn, rewritten, byHand, returned, failures>>
    BY <1>1 DEF U!branch_tips, U!Then, U!In, U!protectionVars, U!movedVars
  <2>2. PushFits(q) /\ "at" \in DOMAIN q /\ push[r].at \notin Rules /\ q.at \notin Rules
    BY <1>0, <2>1 DEF PushFits, Compares, Rules
  <2>3. ~torn /\ Forces(q) /\ r \notin alongside' => U!Changing = {} /\ Passed(q, hook)
    <3>1. Forces(q) => push[r].how = "force" /\ q.at = "hook"
      BY DEF Forces
    <3>2. ~torn /\ Forces(push[r]) /\ r \notin alongside => U!Changing = {}
      BY <1>0 DEF Enforced
    <3>3. push[r].how = "force" => Forces(push[r]) /\ alongside' = alongside
      BY <2>1 DEF Forces
    <3> QED
      BY <3>1, <3>2, <3>3 DEF Passed
  <2>4. (\A x : ~Brings(push[r], x, tip[x])) /\ ~Scans(push[r], tip[Default])
    BY <2>1 DEF Brings, Scans
  <2> HIDE DEF q
  <2> QED
    BY <2>1, <2>2, <2>3, <2>4, PushStep
<1>2. CASE U!pre_receive(r)
  <2> DEFINE b == push[r].branch
             old == IF push[r].seen = U!NotTold THEN tip[b] ELSE push[r].seen
             stops == [at |-> "after", before |-> push[r].before]
             passes == [[push[r] EXCEPT !.at = "update"] EXCEPT !.seen = old]
             q == IF b \in hook /\ old # 0 /\ push[r].how # "forward" THEN stops ELSE passes
  <2>1. /\ push' = [push EXCEPT ![r] = q] /\ push[r].at = "hook"
        /\ \A s \in Requests \ {r} : s \in alongside => s \in alongside'
        /\ q.at = "update" => alongside' = alongside
        /\ UNCHANGED <<tip, parents, told, looked, rules, hook, answered, torn, rewritten, byHand, returned, failures>>
    <3>1. /\ push[r].at = "hook"
          /\ UNCHANGED <<tip, parents, told, looked, rules, hook, answered, torn, rewritten, byHand, returned, failures>>
      BY <1>2 DEF U!pre_receive, U!In, U!protectionVars, U!movedVars
    <3>2. CASE b \in hook /\ old # 0 /\ push[r].how # "forward"
      BY <1>2, <3>1, <3>2 DEF U!pre_receive, U!Runs, U!Then
    <3>3. CASE ~(b \in hook /\ old # 0 /\ push[r].how # "forward")
      BY <1>2, <3>1, <3>3 DEF U!pre_receive
    <3> QED
      BY <3>1, <3>2, <3>3
  <2>2. /\ passes.at = "update" /\ passes.how = push[r].how /\ passes.branch = b /\ passes.seen = old
        /\ {"at", "how", "branch", "seen"} \subseteq DOMAIN passes
    BY <1>0, <2>1 DEF PushFits, Compares
  <2>3. PushFits(q) /\ "at" \in DOMAIN q /\ push[r].at \notin Rules /\ q.at \notin Rules
    <3>1. PushFits(stops) /\ "at" \in DOMAIN stops /\ stops.at = "after"
      BY DEF PushFits, Compares, Rules
    <3>2. push[r].how \in {"forward", "force"} /\ b \in Branches
      BY <1>0, <2>1 DEF PushFits, Compares
    <3> HIDE DEF passes
    <3>3. PushFits(passes) /\ "at" \in DOMAIN passes
      BY <2>2, <3>2 DEF PushFits, Compares, Rules
    <3> QED
      BY <2>1, <2>2, <3>1, <3>3 DEF Rules
  <2>4. ~torn /\ Forces(q) /\ r \notin alongside' => U!Changing = {} /\ Passed(q, hook)
    <3>1. Forces(q) => q = passes /\ q.at = "update"
      BY DEF Forces
    <3>2. ~torn /\ Forces(push[r]) /\ r \notin alongside => U!Changing = {}
      BY <1>0 DEF Enforced
    <3> HIDE DEF passes
    <3>3. Forces(passes) => Forces(push[r])
      BY <2>1, <2>2 DEF Forces
    <3>4. q = passes => Passed(q, hook)
      BY <2>2 DEF Passed
    <3> QED
      BY <2>1, <3>1, <3>2, <3>3, <3>4
  <2>5. (\A x : ~Brings(push[r], x, tip[x])) /\ ~Scans(push[r], tip[Default])
    BY <2>1 DEF Brings, Scans
  <2> HIDE DEF q
  <2> QED
    BY <2>1, <2>3, <2>4, <2>5, PushStep
<1> QED
  BY <1>1, <1>2
LEMMA PushLands ==
  ASSUME PushInv, NEW r \in Requests, U!receive_pack(r) \/ U!commit_files(r)
  PROVE  PushInv'
<1>0. PushTyped /\ Enforced /\ PushFits(push[r]) /\ "at" \in DOMAIN push[r]
  BY DEF PushInv, PushTyped
<1> DEFINE b == push[r].branch
           q == [at |-> "after", before |-> push[r].before]
           i == [at |-> "idle"]
<1>1. /\ PushFits(q) /\ "at" \in DOMAIN q /\ q.at = "after" /\ q.before = push[r].before /\ ~Forces(q) /\ q.at \notin Rules
      /\ PushFits(i) /\ "at" \in DOMAIN i /\ i.at = "idle" /\ ~Forces(i) /\ i.at \notin Rules
  BY DEF PushFits, Compares, Rules, Forces
<1> HIDE DEF q, i
<1>2. push[r].at \in {"update", "commit"} => /\ b \in Branches /\ push[r].at \in Compares /\ push[r].at \notin Rules
                                             /\ \A x : ~Brings(push[r], x, tip[x])
                                             /\ ~Scans(push[r], tip[Default])
  BY <1>0 DEF PushFits, Compares, Rules, Brings, Scans
<1>3. CASE U!receive_pack(r)
  <2>1. /\ push' = [push EXCEPT ![r] = q] /\ push[r].at = "update" /\ alongside' = alongside \ {r}
        /\ UNCHANGED <<told, looked, rules, hook, answered, torn, byHand, failures>>
    BY <1>3 DEF U!receive_pack, U!In, U!Runs, U!Then, U!protectionVars, q
  <2>2. CASE tip[b] # push[r].seen
    <3>1. UNCHANGED <<tip, parents, rewritten, returned>>
      BY <1>3, <2>2 DEF U!receive_pack
    <3> QED
      BY <1>1, <1>2, <2>1, <3>1, PushStep
  <2>3. CASE tip[b] = push[r].seen
    <3>1. PICK new \in 0..MaxCommits : U!Move(b, push[r].seen, new) /\ U!Returns(r, b, new)
      BY <1>3, <2>3 DEF U!receive_pack
    <3>2. rewritten' = IF b \in answered /\ r \notin alongside /\ push[r].seen # 0 /\ push[r].how # "forward"
                       THEN rewritten \union {b} ELSE rewritten
      BY <1>3, <2>3 DEF U!receive_pack
    <3>3. ~torn => rewritten' = rewritten
      <4> SUFFICES ASSUME ~torn, r \notin alongside, push[r].seen # 0, push[r].how # "forward" PROVE b \notin answered
        BY <3>2
      <4>1. push[r].how = "force" /\ Forces(push[r])
        BY <1>0, <2>1 DEF PushFits, Forces
      <4>2. U!Changing = {} /\ Passed(push[r], hook) /\ hook = rules /\ answered \subseteq rules
        BY <1>0, <4>1 DEF Enforced
      <4> QED
        BY <2>1, <4>1, <4>2 DEF Passed
    <3>4. returned' = IF q.before[b] = new THEN returned \union {b} ELSE returned \ {b}
      BY <1>1, <3>1 DEF U!Returns
    <3> QED
      BY <1>1, <1>2, <2>1, <3>1, <3>3, <3>4, PushMoves
  <2> QED
    BY <2>2, <2>3
<1>4. CASE U!commit_files(r)
  <2>1. push[r].at = "commit" /\ UNCHANGED <<told, looked, rules, hook, answered, torn, alongside, rewritten, byHand, failures>>
    BY <1>4 DEF U!commit_files, U!In, U!protectionVars, U!historyVars
  <2>2. CASE tip[b] # push[r].seen
    <3>1. push' = [push EXCEPT ![r] = i] /\ UNCHANGED <<tip, parents, returned>>
      BY <1>4, <2>2 DEF U!commit_files, U!Leaves, U!Idle, i
    <3> QED
      BY <1>1, <1>2, <2>1, <3>1, PushStep
  <2>3. CASE tip[b] = push[r].seen
    <3>1. push' = [push EXCEPT ![r] = q] /\ U!Move(b, push[r].seen, U!fresh) /\ U!Returns(r, b, U!fresh)
      BY <1>4, <2>3 DEF U!commit_files, U!Runs, U!Then, q
    <3>2. returned' = IF q.before[b] = U!fresh THEN returned \union {b} ELSE returned \ {b}
      BY <1>1, <3>1 DEF U!Returns
    <3> QED
      BY <1>1, <1>2, <2>1, <3>1, <3>2, PushMoves
  <2> QED
    BY <2>2, <2>3
<1> QED
  BY <1>3, <1>4

\* What follows a push.
LEMMA PushFollows ==
  ASSUME PushInv, NEW r \in Requests, U!handle(r) \/ U!start_pipelines(r) \/ U!scan(r)
  PROVE  PushInv'
<1>0. PushTyped /\ PushFits(push[r]) /\ "at" \in DOMAIN push[r] /\ Default \in Branches /\ tip \in [Branches -> 0..Len(parents)]
  BY ForgeAssumption DEF PushInv, PushTyped, PushesAssumption
<1> DEFINE i == [at |-> "idle"]
<1>i. PushFits(i) /\ "at" \in DOMAIN i /\ i.at = "idle" /\ ~Forces(i) /\ i.at \notin Rules
  BY DEF PushFits, Compares, Rules, Forces
<1>1. CASE U!handle(r)
  <2> DEFINE q == [at |-> "tell", after |-> tip, moved |-> U!moved_branches(push[r].before, tip)]
  <2>1. /\ push' = [push EXCEPT ![r] = q] /\ push[r].at = "after"
        /\ UNCHANGED <<tip, parents, told, looked, rules, hook, answered, torn, alongside, rewritten, byHand, returned, failures>>
    BY <1>1 DEF U!handle, U!In, U!Then, U!protectionVars, U!historyVars, U!movedVars
  <2>2. /\ PushFits(q) /\ "at" \in DOMAIN q /\ ~Forces(q) /\ q.at \notin Rules /\ q.at = "tell" /\ push[r].at \notin Rules
        /\ q.after = tip
        /\ \A x \in Branches : x \in q.moved <=> tip[x] \notin {0, push[r].before[x]}
    BY <2>1 DEF PushFits, Compares, Rules, Forces, U!moved_branches
  <2> HIDE DEF q
  <2>3. \A x \in Branches : tip[x] # 0 /\ Brings(push[r], x, tip[x]) => Brings(q, x, tip[x])
    BY <2>1, <2>2 DEF Brings
  <2>4. tip[Default] # 0 /\ Scans(push[r], tip[Default]) => Scans(q, tip[Default])
    BY <1>0, <2>1, <2>2 DEF Scans
  <2> QED
    BY <2>1, <2>2, <2>3, <2>4, PushStep
<1>2. CASE U!start_pipelines(r)
  <2> DEFINE s == [at |-> "scan"]
             q == IF Default \in push[r].moved THEN s ELSE i
  <2>1. /\ push' = [push EXCEPT ![r] = q] /\ push[r].at = "tell"
        /\ told' = told \union {<<x, push[r].after[x]>> : x \in push[r].moved}
        /\ UNCHANGED <<tip, parents, looked, rules, hook, answered, torn, alongside, rewritten, byHand, returned, failures>>
    BY <1>2 DEF U!start_pipelines, U!In, U!Then, U!Leaves, U!Idle, U!protectionVars, U!historyVars, U!movedVars
  <2>2. PushFits(s) /\ "at" \in DOMAIN s /\ ~Forces(s) /\ s.at \notin Rules /\ s.at = "scan"
    BY DEF PushFits, Compares, Rules, Forces
  <2> HIDE DEF s, i
  <2>3. PushFits(q) /\ "at" \in DOMAIN q /\ ~Forces(q) /\ q.at \notin Rules /\ push[r].at \notin Rules
    BY <1>i, <2>1, <2>2 DEF Rules
  <2>4. \A x \in Branches : tip[x] # 0 /\ Brings(push[r], x, tip[x]) => <<x, tip[x]>> \in told'
    BY <2>1 DEF Brings
  <2>5. tip[Default] # 0 /\ Scans(push[r], tip[Default]) => Scans(q, tip[Default])
    BY <2>1, <2>2 DEF Scans
  <2> HIDE DEF q
  <2> QED
    BY <2>1, <2>3, <2>4, <2>5, PushStep
<1>3. CASE U!scan(r)
  <2>1. /\ push' = [push EXCEPT ![r] = i] /\ push[r].at = "scan" /\ looked' = looked \union {tip[Default]}
        /\ UNCHANGED <<tip, parents, told, rules, hook, answered, torn, alongside, rewritten, byHand, returned, failures>>
    BY <1>3 DEF U!scan, U!In, U!Leaves, U!Idle, U!protectionVars, U!historyVars, U!movedVars
  <2>2. push[r].at \notin Rules /\ \A x \in Branches : ~Brings(push[r], x, tip[x])
    BY <2>1 DEF Rules, Brings
  <2> HIDE DEF i
  <2> QED
    BY <1>i, <2>1, <2>2, PushStep
<1> QED
  BY <1>1, <1>2, <1>3

\* Nobody is told of a change of the protections.
LEMMA RulesAreTyped ==
  ASSUME PushInv, NEW r \in Requests, NEW q, push' = [push EXCEPT ![r] = q], "at" \in DOMAIN q, PushFits(q),
         push[r].at \in Rules \union {"idle"}, rules' \subseteq Branches, hook' \subseteq Branches, torn' \in BOOLEAN,
         UNCHANGED <<tip, parents, byHand, returned, failures, told, looked>>
  PROVE  PushTyped' /\ PushesTold'
<1>0. PushTyped /\ PushesTold
  BY DEF PushInv
<1>1. (\A x : ~Brings(push[r], x, tip[x])) /\ ~Scans(push[r], tip[Default])
  BY DEF Brings, Scans, Rules
<1>2. PushTyped'
  BY <1>0, PushGoesOn DEF PushTyped, CommitsFit
<1>3. PushesTold'
  BY <1>0, <1>1, ToldStays
<1> QED
  BY <1>2, <1>3
LEMMA RulesChange ==
  ASSUME PushInv, NEW r \in Requests, NEW b \in Branches, NEW on \in BOOLEAN, U!ChangesRules(r, b, on)
  PROVE  PushInv'
<1> DEFINE q == [at |-> "list", branch |-> b, on |-> on]
<1>0. PushTyped /\ Enforced
  BY DEF PushInv
<1>1. /\ push' = [push EXCEPT ![r] = q] /\ push[r].at = "idle"
      /\ rules' = IF on THEN rules \union {b} ELSE rules \ {b}
      /\ alongside' = alongside \union U!Offered
      /\ torn' = (torn \/ U!Changing # {})
      /\ answered' = IF torn' \/ ~on THEN answered \ {b} ELSE answered
      /\ UNCHANGED <<tip, parents, hook, told, looked, rewritten, byHand, returned, failures>>
  BY DEF U!ChangesRules, U!In, U!Then, U!movedVars
<1>2. PushFits(q) /\ "at" \in DOMAIN q /\ q.at = "list" /\ q.branch = b /\ q.on = on /\ ~Forces(q)
  BY DEF PushFits, Compares, Rules, Forces
<1>3. rules' \subseteq Branches /\ hook' \subseteq Branches /\ torn' \in BOOLEAN
  BY <1>0, <1>1 DEF PushTyped
<1> HIDE DEF q
<1>4. PushTyped' /\ PushesTold'
  BY <1>1, <1>2, <1>3, RulesAreTyped
<1>5. Enforced'
  <2> SUFFICES ASSUME ~torn' PROVE Enforced'
    BY DEF Enforced
  <2>1. push'[r] = q /\ \A s \in Requests \ {r} : push'[s] = push[s]
    BY <1>0, <1>1 DEF PushTyped
  <2>2. ~torn /\ U!Changing = {} /\ rewritten = {} /\ answered \subseteq rules
    BY <1>0, <1>1 DEF Enforced
  <2>3. U!Changing' = {r}
    BY <1>2, <2>1, <2>2 DEF U!Changing
  <2>4. answered' \subseteq rules'
    BY <1>1, <2>2
  <2>5. ASSUME NEW s \in Requests PROVE ChangeFits(push'[s], rules')
    <3>1. CASE s = r
      BY <1>1, <1>2, <2>1, <3>1 DEF ChangeFits
    <3>2. CASE s # r
      BY <2>1, <2>2, <3>2 DEF ChangeFits, U!Changing, Rules
    <3> QED
      BY <3>1, <3>2
  <2>6. ASSUME NEW s \in Requests \ alongside' PROVE ~Forces(push'[s])
    BY <1>1, <1>2, <2>1, <2>6 DEF U!Offered, Forces
  <2> QED
    BY <1>1, <2>2, <2>3, <2>4, <2>5, <2>6 DEF Enforced
<1> QED
  BY <1>4, <1>5 DEF PushInv

\* The rows are listed, the file is opened and written.
LEMMA RulesAreWritten ==
  ASSUME PushInv, NEW r \in Requests, U!list_protected_branches(r) \/ U!write_protection(r)
  PROVE  PushInv'
<1>0. PushTyped /\ Enforced /\ PushFits(push[r]) /\ "at" \in DOMAIN push[r]
  BY DEF PushInv, PushTyped
<1>1. ASSUME NEW q, push' = [push EXCEPT ![r] = q], push[r].at \in Rules,
             q.at \in {"open", "store"}, q.listed = rules, q.on = push[r].on, q.branch = push[r].branch,
             PushFits(q), "at" \in DOMAIN q, hook' \in {hook, {}},
             UNCHANGED <<tip, parents, rules, told, looked, answered, torn, alongside, rewritten, byHand, returned, failures>>
      PROVE  PushInv'
  <2>1. PushTyped' /\ PushesTold'
    <3>1. rules' \subseteq Branches /\ hook' \subseteq Branches /\ torn' \in BOOLEAN
      BY <1>0, <1>1 DEF PushTyped
    <3> QED
      BY <1>1, <3>1, RulesAreTyped
  <2>2. Enforced'
    <3> SUFFICES ASSUME ~torn PROVE Enforced'
      BY <1>1 DEF Enforced
    <3>1. push'[r] = q /\ \A s \in Requests \ {r} : push'[s] = push[s]
      BY <1>0, <1>1 DEF PushTyped
    <3>2. U!Changing' = U!Changing /\ r \in U!Changing
      BY <1>1, <3>1 DEF U!Changing, Rules
    <3>3. ASSUME NEW s \in Requests PROVE ChangeFits(push'[s], rules)
      BY <1>0, <1>1, <3>1 DEF Enforced, ChangeFits, Rules
    <3>4. ASSUME NEW s \in Requests \ alongside PROVE ~Forces(push'[s])
      <4>1. ~Forces(push[s])
        BY <1>0, <3>2 DEF Enforced
      <4> QED
        BY <1>1, <3>1, <4>1 DEF Forces
    <3> QED
      BY <1>0, <1>1, <3>2, <3>3, <3>4 DEF Enforced
  <2> QED
    BY <2>1, <2>2 DEF PushInv
<1>2. CASE U!list_protected_branches(r)
  <2> DEFINE q == [at |-> "open", branch |-> push[r].branch, on |-> push[r].on, listed |-> rules]
  <2>1. /\ push' = [push EXCEPT ![r] = q] /\ push[r].at = "list"
        /\ UNCHANGED <<tip, parents, rules, hook, told, looked, answered, torn, alongside, rewritten, byHand, returned, failures>>
    BY <1>2 DEF U!list_protected_branches, U!In, U!Then, U!protectionVars, U!historyVars, U!movedVars
  <2>2. /\ q.at = "open" /\ q.listed = rules /\ q.on = push[r].on /\ q.branch = push[r].branch
        /\ PushFits(q) /\ "at" \in DOMAIN q
    BY <1>0, <2>1 DEF PushFits, Compares, Rules, PushTyped
  <2> HIDE DEF q
  <2> QED
    BY <1>1, <2>1, <2>2 DEF Rules
<1>3. CASE U!write_protection(r) /\ push[r].at = "open" /\ ~torn
  <2> DEFINE q == [push[r] EXCEPT !.at = "store"]
  <2>1. /\ push' = [push EXCEPT ![r] = q] /\ hook' = {}
        /\ UNCHANGED <<tip, parents, rules, told, looked, answered, torn, alongside, rewritten, byHand, returned, failures>>
    BY <1>3 DEF U!write_protection, U!In, U!Onwards, U!historyVars, U!movedVars
  <2>2. /\ q.at = "store" /\ q.listed = push[r].listed /\ q.on = push[r].on /\ q.branch = push[r].branch
        /\ "at" \in DOMAIN q /\ {"branch", "on", "listed"} \subseteq DOMAIN q
    BY <1>0, <1>3 DEF PushFits
  <2>3. push[r].listed = rules
    BY <1>0, <1>3 DEF Enforced, ChangeFits
  <2> HIDE DEF q
  <2>4. PushFits(q)
    BY <1>0, <1>3, <2>2 DEF PushFits, Compares, Rules
  <2> QED
    BY <1>1, <1>3, <2>1, <2>2, <2>3, <2>4 DEF Rules
<1>4. CASE U!write_protection(r) /\ push[r].at = "open" /\ torn
  <2> DEFINE q == [push[r] EXCEPT !.at = "store"]
  <2>1. /\ push' = [push EXCEPT ![r] = q] /\ hook' = {}
        /\ UNCHANGED <<tip, parents, rules, told, looked, answered, torn, alongside, rewritten, byHand, returned, failures>>
    BY <1>4 DEF U!write_protection, U!In, U!Onwards, U!historyVars, U!movedVars
  <2>2. /\ q.at = "store" /\ q.listed = push[r].listed /\ q.on = push[r].on /\ q.branch = push[r].branch
        /\ "at" \in DOMAIN q /\ {"branch", "on", "listed"} \subseteq DOMAIN q
    BY <1>0, <1>4 DEF PushFits
  <2> HIDE DEF q
  <2>4. PushFits(q)
    BY <1>0, <1>4, <2>2 DEF PushFits, Compares, Rules
  <2>5. rules' \subseteq Branches /\ hook' \subseteq Branches /\ torn' \in BOOLEAN /\ push[r].at \in Rules
    BY <1>0, <1>4, <2>1 DEF PushTyped, Rules
  <2> QED
    BY <1>4, <2>1, <2>2, <2>4, <2>5, RulesAreTyped DEF PushInv, Enforced
<1>5. CASE U!write_protection(r) /\ push[r].at = "store"
  <2> DEFINE i == [at |-> "idle"]
  <2>1. /\ push' = [push EXCEPT ![r] = i] /\ hook' = push[r].listed
        /\ answered' = IF push[r].on /\ ~torn THEN answered \union {push[r].branch} ELSE answered
        /\ UNCHANGED <<tip, parents, rules, told, looked, torn, alongside, rewritten, byHand, returned, failures>>
    BY <1>5 DEF U!write_protection, U!In, U!Leaves, U!Idle, U!historyVars, U!movedVars
  <2>2. PushFits(i) /\ "at" \in DOMAIN i /\ i.at = "idle" /\ ~Forces(i)
    BY DEF PushFits, Compares, Rules, Forces
  <2> HIDE DEF i
  <2>3. PushTyped' /\ PushesTold'
    <3>1. rules' \subseteq Branches /\ hook' \subseteq Branches /\ torn' \in BOOLEAN /\ push[r].at \in Rules
      BY <1>0, <1>5, <2>1 DEF PushTyped, PushFits, Rules
    <3> QED
      BY <2>1, <2>2, <3>1, RulesAreTyped
  <2>4. Enforced'
    <3> SUFFICES ASSUME ~torn PROVE Enforced'
      BY <2>1 DEF Enforced
    <3>1. push'[r] = i /\ \A s \in Requests \ {r} : push'[s] = push[s]
      BY <1>0, <2>1 DEF PushTyped
    <3>2. U!Changing = {r}
      BY <1>0, <1>5 DEF Enforced, U!Changing
    <3>3. U!Changing' = {}
      BY <2>2, <3>1, <3>2 DEF U!Changing
    <3>4. hook' = rules /\ answered' \subseteq rules
      BY <1>0, <1>5, <2>1 DEF Enforced, ChangeFits, Rules
    <3>5. ASSUME NEW s \in Requests PROVE ChangeFits(push'[s], rules)
      BY <1>0, <2>2, <3>1 DEF Enforced, ChangeFits, Rules
    <3>6. ASSUME NEW s \in Requests \ alongside PROVE ~Forces(push'[s])
      <4>1. ~Forces(push[s])
        BY <1>0, <3>2 DEF Enforced
      <4> QED
        BY <2>2, <3>1, <4>1
    <3> QED
      BY <1>0, <2>1, <3>3, <3>4, <3>5, <3>6 DEF Enforced
  <2> QED
    BY <2>3, <2>4 DEF PushInv
<1>6. U!write_protection(r) => push[r].at \in {"open", "store"}
  BY DEF U!write_protection, U!In
<1> QED
  BY <1>2, <1>3, <1>4, <1>5, <1>6

LEMMA PushFails ==
  ASSUME PushInv, NEW r \in Requests, U!Fails(r)
  PROVE  PushInv'
<1> DEFINE i == [at |-> "idle"]
<1>0. PushTyped /\ Enforced
  BY DEF PushInv
<1>1. /\ push' = [push EXCEPT ![r] = i] /\ torn' = (torn \/ r \in U!Changing) /\ failures' = failures + 1
      /\ alongside' = alongside \ {r}
      /\ UNCHANGED <<tip, parents, told, looked, rules, hook, answered, rewritten, byHand, returned>>
  BY DEF U!Fails, U!Leaves, U!Idle, U!movedVars
<1>2. PushFits(i) /\ "at" \in DOMAIN i /\ i.at \notin Rules /\ ~Forces(i)
  BY DEF PushFits, Compares, Rules, Forces
<1> HIDE DEF i
<1>3. PushTyped'
  BY <1>0, <1>1, <1>2, PushGoesOn DEF PushTyped, CommitsFit
<1>4. PushesTold'
  BY <1>0, <1>1 DEF PushesTold, PushTyped
<1>5. Enforced'
  <2>1. CASE torn'
    BY <2>1 DEF Enforced
  <2>2. CASE ~torn'
    <3>1. push[r].at \notin Rules /\ torn' = torn
      BY <1>0, <1>1, <2>2 DEF U!Changing, Rules, PushTyped
    <3> QED
      BY <1>0, <1>1, <1>2, <3>1, EnforcedStays
  <2> QED
    BY <2>1, <2>2
<1> QED
  BY <1>3, <1>4, <1>5 DEF PushInv

\* The merge button makes a commit on what was there.
LEMMA MergeKeeps ==
  ASSUME PushInv, NEW b \in Branches, U!merge(b)
  PROVE  PushInv'
<1>0. /\ PushTyped /\ PushesTold /\ Enforced /\ CommitsFit /\ tip \in [Branches -> 0..Len(parents)]
      /\ Len(parents) \in Nat /\ U!fresh = Len(parents) + 1 /\ Default \in Branches
  BY CommitsAreCounted, ForgeAssumption DEF PushInv, PushTyped, PushesAssumption
<1> DEFINE new == parents[tip[b]] \union {U!fresh}
<1>1. /\ tip[b] # 0 /\ tip' = [tip EXCEPT ![b] = U!fresh] /\ parents' = Append(parents, new) /\ byHand' = byHand \union {b}
      /\ UNCHANGED <<push, told, looked, rules, hook, answered, torn, alongside, rewritten, returned, failures>>
  BY DEF U!merge, U!protectionVars, U!historyVars
<1>2. new \subseteq 1..U!fresh /\ U!fresh \in new
  <2>1. tip[b] \in 1..Len(parents)
    BY <1>0, <1>1
  <2>2. parents[tip[b]] \subseteq 1..tip[b]
    BY <1>0, <2>1 DEF CommitsFit
  <2> QED
    BY <1>0, <2>1, <2>2
<1> HIDE DEF new
<1>3. CommitsFit' /\ Len(parents') = Len(parents) + 1
  <2>1. /\ Len(parents') = Len(parents) + 1 /\ parents' \in Seq(SUBSET Nat)
        /\ \A c \in 1..Len(parents) : parents'[c] = parents[c]
        /\ parents'[U!fresh] = new
    BY <1>0, <1>1, <1>2 DEF CommitsFit
  <2>2. ASSUME NEW c \in 1..Len(parents') PROVE c \in parents'[c] /\ parents'[c] \subseteq 1..c
    <3>1. CASE c = U!fresh
      BY <1>2, <2>1, <3>1
    <3>2. CASE c # U!fresh
      BY <1>0, <2>1, <3>2 DEF CommitsFit
    <3> QED
      BY <3>1, <3>2
  <2> QED
    BY <2>1, <2>2 DEF CommitsFit
<1>4. PushTyped'
  <2>1. tip' \in [Branches -> 0..Len(parents')]
    BY <1>0, <1>1, <1>3
  <2> QED
    BY <1>0, <1>1, <1>3, <2>1 DEF PushTyped
<1>5. PushesTold'
  <2>1. ASSUME failures = 0, NEW x \in Branches \ (byHand' \union returned) PROVE TipTold(x)'
    <3>1. tip'[x] = tip[x] /\ TipTold(x)
      BY <1>0, <1>1, <2>1 DEF PushesTold
    <3> QED
      BY <1>1, <3>1 DEF TipTold
  <2>2. ASSUME failures = 0, Default \notin byHand' \union returned PROVE TipLooked'
    <3>1. tip'[Default] = tip[Default] /\ TipLooked
      BY <1>0, <1>1, <2>2 DEF PushesTold
    <3> QED
      BY <1>1, <3>1 DEF TipLooked
  <2> QED
    BY <1>1, <2>1, <2>2 DEF PushesTold
<1>6. Enforced'
  BY <1>0, <1>1 DEF Enforced, U!Changing
<1> QED
  BY <1>4, <1>5, <1>6 DEF PushInv

LEMMA PushNext == PushInv /\ [U!Next]_U!pushVars => PushInv'
<1> SUFFICES ASSUME PushInv, [U!Next]_U!pushVars PROVE PushInv'
  OBVIOUS
<1>1. ASSUME NEW r \in Requests, NEW b \in Branches, U!git_over_http(r, b) PROVE PushInv'
  BY <1>1, PushBegins DEF U!git_over_http
<1>2. ASSUME NEW r \in Requests, NEW b \in Branches, U!handle_session(r, b) PROVE PushInv'
  BY <1>2, PushBegins DEF U!handle_session
<1>3. ASSUME NEW r \in Requests, NEW b \in Branches, U!_commit(r, b) PROVE PushInv'
  BY <1>3, PushBegins DEF U!_commit
<1>4. ASSUME NEW r \in Requests, U!branch_tips(r) \/ U!pre_receive(r) PROVE PushInv'
  BY <1>4, PushOffers
<1>5. ASSUME NEW r \in Requests, U!receive_pack(r) \/ U!commit_files(r) PROVE PushInv'
  BY <1>5, PushLands
<1>6. ASSUME NEW r \in Requests, U!handle(r) \/ U!start_pipelines(r) \/ U!scan(r) PROVE PushInv'
  BY <1>6, PushFollows
<1>7. ASSUME NEW r \in Requests, NEW b \in Branches, U!protect_branch(r, b) \/ U!unprotect_branch(r, b) PROVE PushInv'
  BY <1>7, RulesChange DEF U!protect_branch, U!unprotect_branch
<1>8. ASSUME NEW r \in Requests, U!list_protected_branches(r) \/ U!write_protection(r) PROVE PushInv'
  BY <1>8, RulesAreWritten
<1>9. ASSUME NEW r \in Requests, U!Fails(r) PROVE PushInv'
  BY <1>9, PushFails
<1>10. ASSUME NEW b \in Branches, U!merge(b) PROVE PushInv'
  BY <1>10, MergeKeeps
<1>11. CASE UNCHANGED U!pushVars
  <2>1. UNCHANGED <<push, tip, parents, told, looked, rules, hook, answered, torn, alongside, rewritten, byHand, returned, failures>>
    BY <1>11 DEF U!pushVars, U!protectionVars, U!historyVars, U!movedVars
  <2>2. PushTyped'
    BY <2>1 DEF PushInv, PushTyped, CommitsFit
  <2>3. PushesTold'
    BY <2>1 DEF PushInv, PushesTold, TipTold, TipLooked
  <2>4. Enforced'
    BY <2>1 DEF PushInv, Enforced, U!Changing
  <2> QED
    BY <2>2, <2>3, <2>4 DEF PushInv
<1> QED
  BY <1>1, <1>2, <1>3, <1>4, <1>5, <1>6, <1>7, <1>8, <1>9, <1>10, <1>11 DEF U!Next

(* TipsAreTold: once nobody is at work, the pipelines know the tip of      *)
(* every branch and the default branch was scanned where it stands, if no  *)
(* request failed and no merge by hand or push back to the compared tip    *)
(* came last (after_push.handle).  AnsweredIsEnforced: no push rewrote a   *)
(* branch whose protection was answered, if no two changes of the rules    *)
(* met and none was cut off (protection.py, the pre-receive hook).         *)
THEOREM PushesAreTold == U!Spec => [](U!TypeOK /\ U!TipsAreTold /\ U!AnsweredIsEnforced)
<1>1. PushInv => U!TypeOK
  <2> SUFFICES ASSUME PushInv PROVE U!TypeOK
    OBVIOUS
  <2>1. PushTyped /\ U!Commits = 1..Len(parents) /\ Len(parents) \in Nat
    BY CommitsAreCounted DEF PushInv, PushTyped
  <2> QED
    BY <2>1 DEF U!TypeOK, PushTyped, CommitsFit
<1>2. PushInv => U!TipsAreTold
  <2> SUFFICES ASSUME PushInv, U!Quiet
               PROVE  /\ \A b \in Branches \ (byHand \union returned) : tip[b] = 0 \/ <<b, tip[b]>> \in told
                      /\ tip[Default] = 0 \/ Default \in byHand \union returned \/ tip[Default] \in looked
    BY DEF U!TipsAreTold
  <2>1. failures = 0 /\ \A r \in Requests : push[r].at = "idle"
    BY DEF U!Quiet, U!In
  <2>2. /\ \A b \in Branches \ (byHand \union returned) : TipTold(b)
        /\ Default \notin byHand \union returned => TipLooked
    BY <2>1 DEF PushInv, PushesTold
  <2>3. \A r \in Requests : (\A b : ~Brings(push[r], b, tip[b])) /\ ~Scans(push[r], tip[Default])
    BY <2>1 DEF Brings, Scans
  <2> QED
    BY <2>2, <2>3 DEF TipTold, TipLooked
<1>3. PushInv => U!AnsweredIsEnforced
  BY DEF PushInv, Enforced, U!AnsweredIsEnforced
<1> QED
  BY <1>1, <1>2, <1>3, PushInit, PushNext, PTL DEF U!Spec
-----------------------------------------------------------------------------
(* Workspaces.  Kinds are told for so many containers, commits and pieces  *)
(* of work, so that they keep as those grow.                               *)

Steps == {"start", "stop", "delete", "refresh", "save", "resolve", "run", "failed",
          "fill", "started", "stopped", "gone", "commit", "saved"}
RowFits(x, n, m) == x \in [state : {"stopped", "running", "failed"}, container : 0..n, commit : 0..m]
BoxFits(x, n, k) == x \in [id : 1..n, holds : SUBSET (1..k)]
TaskFits(q, n, m, k) ==
    /\ "at" \in DOMAIN q /\ q.at \in Steps \union {"idle", "rows", "rm"}
    /\ q.at \in Steps => /\ {"space", "read", "id", "commit", "held"} \subseteq DOMAIN q
                         /\ q.space \in Spaces /\ RowFits(q.read, n, m)
                         /\ q.id \in 0..n /\ q.commit \in 0..m /\ q.held \subseteq 1..k
                         /\ q.at \in {"run", "fill", "started", "saved"} => q.commit # 0
    /\ q.at \in {"rows", "rm"} => q.found \subseteq Spaces
HistoryFits == /\ history \in Seq(SUBSET Nat) /\ Len(history) >= 1
               /\ \A i \in 1..Len(history) : history[i] \subseteq 1..work
SpacesFit ==
    /\ DOMAIN space = Spaces /\ DOMAIN box = Spaces
    /\ \A w \in Spaces : /\ space[w] \in {NotYet, Removed} \/ RowFits(space[w], boxes, Len(history))
                         /\ box[w] = NoBox \/ BoxFits(box[w], boxes, work)
TasksFit == DOMAIN task = Tasks /\ \A t \in Tasks : TaskFits(task[t], boxes, Len(history), work)
WorkTyped == /\ work \in Nat /\ boxes \in Nat /\ boxes <= MaxBoxes
             /\ HistoryFits /\ SpacesFit /\ TasksFit

\* Nobody is at work in a workspace that is yet to be, and a sweep that is
\* about to remove has seen that the row went.
TaskAlive(q, sp) == /\ q.at \in Steps => sp[q.space] # NotYet
                    /\ q.at = "rows" => \A w \in q.found : sp[w] # NotYet
                    /\ q.at = "rm" => \A w \in q.found : sp[w] = Removed
Alive == /\ \A w \in Spaces : box[w] # NoBox => space[w] # NotYet
         /\ \A t \in Tasks : TaskAlive(task[t], space)
         /\ taken \subseteq {w \in Spaces : space[w] = Removed}

\* One request at a workspace knows its row, and the container that the row
\* names holds what the commit in the row holds.
Holds(x, id, what) == x # NoBox /\ x.id = id => what \ W!Unarchived \subseteq x.holds
SteadyTask(q, sp, bx, h) ==
    /\ sp[q.space] = q.read
    /\ q.at \in {"run", "fill", "started", "saved"} => q.commit \in 1..Len(h)
    /\ q.at = "fill" => q.read.container # q.id
    /\ q.at = "started" => Holds(bx[q.space], q.id, h[q.commit])
    /\ q.at = "saved" => Holds(bx[q.space], q.read.container, h[q.commit])
    /\ q.at = "commit" => /\ q.read.commit \in 1..Len(h) /\ h[q.read.commit] \ W!Unarchived \subseteq q.held
                          /\ Holds(bx[q.space], q.read.container, q.held)
SteadySpace(w, sp, bx, h) ==
    sp[w] \notin {NotYet, Removed} /\ bx[w] # NoBox /\ bx[w].id = sp[w].container =>
        sp[w].commit \in 1..Len(h) /\ h[sp[w].commit] \ W!Unarchived \subseteq bx[w].holds
Steady == tangled = {} =>
    /\ \A t \in Tasks, s \in Tasks : task[t].at \in Steps /\ task[s].at \in Steps /\ task[t].space = task[s].space => t = s
    /\ \A t \in Tasks : task[t].at \in Steps => SteadyTask(task[t], space, box, history)
    /\ \A w \in Spaces : SteadySpace(w, space, box, history)
    /\ \A i \in 2..Len(history) : history[i - 1] \ W!Unarchived \subseteq history[i]

WorkInv == WorkTyped /\ Alive /\ Steady

LEMMA WorkInit == W!Init => WorkInv
<1> SUFFICES ASSUME W!Init PROVE WorkInv
  OBVIOUS
<1>1. /\ history = <<{}>> /\ DOMAIN space = Spaces /\ DOMAIN box = Spaces /\ DOMAIN task = Tasks
      /\ \A w \in Spaces : space[w] = NotYet /\ box[w] = NoBox
      /\ \A t \in Tasks : task[t] = [at |-> "idle"]
      /\ tangled = {} /\ taken = {} /\ work = 0 /\ boxes = 0
  BY DEF W!Init, W!Idle
<1>2. Len(history) = 1 /\ history[1] = {} /\ history \in Seq(SUBSET Nat)
  BY <1>1
<1>3. \A t \in Tasks : TaskFits(task[t], boxes, Len(history), work) /\ TaskAlive(task[t], space) /\ task[t].at \notin Steps
  BY <1>1 DEF TaskFits, TaskAlive, Steps
<1>4. WorkTyped
  BY <1>1, <1>2, <1>3, ForgeAssumption DEF WorkTyped, HistoryFits, SpacesFit, TasksFit, WorkspacesAssumption
<1>5. Alive
  BY <1>1, <1>3 DEF Alive
<1>6. Steady
  BY <1>1, <1>2, <1>3 DEF Steady, SteadySpace
<1> QED
  BY <1>4, <1>5, <1>6 DEF WorkInv

LEMMA KindsGrow ==
  ASSUME NEW n \in Nat, NEW n2 \in Nat, n <= n2, NEW m \in Nat, NEW m2 \in Nat, m <= m2,
         NEW k \in Nat, NEW k2 \in Nat, k <= k2
  PROVE  /\ \A x : RowFits(x, n, m) => RowFits(x, n2, m2)
         /\ \A x : BoxFits(x, n, k) => BoxFits(x, n2, k2)
         /\ \A q : TaskFits(q, n, m, k) => TaskFits(q, n2, m2, k2)
<1>1. 0..n \subseteq 0..n2 /\ 1..n \subseteq 1..n2 /\ 0..m \subseteq 0..m2 /\ 1..k \subseteq 1..k2
  OBVIOUS
<1>2. ASSUME NEW x, RowFits(x, n, m) PROVE RowFits(x, n2, m2)
  BY <1>1, <1>2 DEF RowFits
<1>3. ASSUME NEW x, BoxFits(x, n, k) PROVE BoxFits(x, n2, k2)
  BY <1>1, <1>3 DEF BoxFits
<1>4. ASSUME NEW q, TaskFits(q, n, m, k) PROVE TaskFits(q, n2, m2, k2)
  BY <1>1, <1>2, <1>4 DEF TaskFits
<1> QED
  BY <1>2, <1>3, <1>4

\* Rows and containers are none of the values that stand for their absence.
LEMMA RowsAndBoxes ==
  ASSUME NEW n \in Nat, NEW m \in Nat, NEW k \in Nat
  PROVE  /\ \A x : RowFits(x, n, m) => x # NotYet /\ x # Removed
         /\ \A x : BoxFits(x, n, k) => x # NoBox
         /\ NotYet # Removed
<1>1. ASSUME NEW x, RowFits(x, n, m) PROVE x \in [state : {"stopped", "running", "failed"}, container : Nat, commit : Nat]
  BY <1>1 DEF RowFits
<1>2. ASSUME NEW x, BoxFits(x, n, k) PROVE x \in [id : Nat, holds : SUBSET Nat]
  BY <1>2 DEF BoxFits
<1> QED
  BY <1>1, <1>2, ForgeAssumption DEF WorkspacesAssumption

Grows == /\ Len(history) <= Len(history') /\ \A i \in 1..Len(history) : history'[i] = history[i]
\* A container goes, or gets more to hold.
Wears(x, y) == y = NoBox \/ (x # NoBox /\ y.id = x.id /\ x.holds \subseteq y.holds)

\* Where nobody changes the row, a task and a workspace are as steady as before.
LEMMA SteadyElsewhere ==
  ASSUME WorkTyped, Grows, HistoryFits', NEW w \in Spaces, space'[w] = space[w], Wears(box[w], box'[w])
  PROVE  /\ SteadySpace(w, space, box, history) => SteadySpace(w, space', box', history')
         /\ \A q : q.space = w /\ SteadyTask(q, space, box, history) => SteadyTask(q, space', box', history')
<1>1. Len(history) \in Nat /\ Len(history') \in Nat /\ 1..Len(history) \subseteq 1..Len(history')
  BY DEF WorkTyped, HistoryFits, Grows
<1>2. \A id, what : Holds(box[w], id, what) => Holds(box'[w], id, what)
  BY DEF Holds, Wears
<1>3. \A i \in 1..Len(history) : history'[i] = history[i]
  BY DEF Grows
<1>4. SteadySpace(w, space, box, history) => SteadySpace(w, space', box', history')
  BY <1>1, <1>3 DEF SteadySpace, Wears
<1>5. ASSUME NEW q, q.space = w, SteadyTask(q, space, box, history) PROVE SteadyTask(q, space', box', history')
  BY <1>1, <1>2, <1>3, <1>5 DEF SteadyTask
<1> QED
  BY <1>4, <1>5

\* A step of one request.
LEMMA TaskStep ==
  ASSUME WorkInv, NEW t \in Tasks, NEW q, task' = [task EXCEPT ![t] = q],
         HistoryFits', Grows, SpacesFit', work' \in Nat, work <= work', boxes' \in Nat, boxes <= boxes', boxes' <= MaxBoxes,
         TaskFits(q, boxes', Len(history'), work'), TaskAlive(q, space'),
         \A w \in Spaces : /\ space[w] # NotYet => space'[w] # NotYet
                           /\ space[w] = Removed => space'[w] = Removed
                           /\ box'[w] # NoBox => space'[w] # NotYet,
         taken' \subseteq {w \in Spaces : space'[w] = Removed},
         tangled' = {} => tangled = {},
         tangled' = {} => /\ q.at \in Steps => SteadyTask(q, space', box', history')
                          /\ q.at \in Steps => \A s \in Tasks \ {t} : task[s].at \in Steps => task[s].space # q.space
                          /\ \A i \in 2..Len(history') : history'[i - 1] \ W!Unarchived \subseteq history'[i]
                          /\ \A w \in Spaces : \/ space'[w] = space[w] /\ Wears(box[w], box'[w])
                                               \/ /\ SteadySpace(w, space', box', history')
                                                  /\ \A s \in Tasks \ {t} : task[s].at \in Steps => task[s].space # w
  PROVE  WorkInv'
<1>0. WorkTyped /\ Alive /\ Steady
  BY DEF WorkInv
<1>1. DOMAIN task' = Tasks /\ task'[t] = q /\ \A s \in Tasks \ {t} : task'[s] = task[s]
  BY <1>0 DEF WorkTyped, TasksFit
<1>2. WorkTyped'
  <2>1. \A s \in Tasks : TaskFits(task[s], boxes', Len(history'), work')
    <3>1. Len(history) \in Nat /\ Len(history') \in Nat /\ Len(history) <= Len(history')
      BY <1>0 DEF WorkTyped, HistoryFits, Grows
    <3> QED
      BY <1>0, <3>1, KindsGrow DEF WorkTyped, TasksFit
  <2> QED
    BY <1>1, <2>1 DEF WorkTyped, TasksFit
<1>3. Alive'
  <2>1. ASSUME NEW s \in Tasks \ {t} PROVE TaskAlive(task[s], space')
    <3>1. TaskAlive(task[s], space) /\ TaskFits(task[s], boxes, Len(history), work)
      BY <1>0 DEF Alive, WorkTyped, TasksFit
    <3> QED
      BY <3>1 DEF TaskAlive, TaskFits
  <2> QED
    BY <1>1, <2>1 DEF Alive
<1>4. Steady'
  <2> SUFFICES ASSUME tangled' = {} PROVE Steady'
    BY DEF Steady
  <2>1. ASSUME NEW s \in Tasks \ {t}, task[s].at \in Steps PROVE SteadyTask(task[s], space', box', history')
    <3>1. task[s].space \in Spaces /\ SteadyTask(task[s], space, box, history)
      BY <1>0, <2>1 DEF WorkTyped, TasksFit, TaskFits, Steady
    <3>2. space'[task[s].space] = space[task[s].space] /\ Wears(box[task[s].space], box'[task[s].space])
      BY <2>1, <3>1
    <3> QED
      BY <1>0, <3>1, <3>2, SteadyElsewhere
  <2>2. ASSUME NEW w \in Spaces PROVE SteadySpace(w, space', box', history')
    <3>1. CASE space'[w] = space[w] /\ Wears(box[w], box'[w])
      BY <1>0, <3>1, SteadyElsewhere DEF Steady
    <3> QED
      BY <3>1
  <2>3. \A s \in Tasks : task'[s].at \in Steps => SteadyTask(task'[s], space', box', history')
    BY <1>1, <2>1
  <2>4. \A s \in Tasks, u \in Tasks : task'[s].at \in Steps /\ task'[u].at \in Steps /\ task'[s].space = task'[u].space => s = u
    BY <1>0, <1>1 DEF Steady
  <2> QED
    BY <2>2, <2>3, <2>4 DEF Steady
<1> QED
  BY <1>2, <1>3, <1>4 DEF WorkInv
\* A step that changes nothing but where the request stands.
LEMMA TaskMoves ==
  ASSUME WorkInv, NEW t \in Tasks, NEW q, task' = [task EXCEPT ![t] = q],
         UNCHANGED <<history, space, box, taken, work, boxes>>, tangled \subseteq tangled',
         TaskFits(q, boxes, Len(history), work), TaskAlive(q, space),
         tangled' = {} /\ q.at \in Steps =>
             /\ SteadyTask(q, space, box, history)
             /\ \A s \in Tasks \ {t} : task[s].at \in Steps => task[s].space # q.space
  PROVE  WorkInv'
<1>0. WorkTyped /\ Alive /\ Steady
  BY DEF WorkInv
<1>1. HistoryFits' /\ Grows /\ SpacesFit' /\ work \in Nat /\ boxes \in Nat /\ boxes <= MaxBoxes
  BY <1>0 DEF WorkTyped, HistoryFits, SpacesFit, Grows
<1>2. \A w \in Spaces : space'[w] = space[w] /\ Wears(box[w], box'[w])
  BY DEF Wears
<1>3. taken' \subseteq {w \in Spaces : space'[w] = Removed} /\ \A w \in Spaces : box'[w] # NoBox => space'[w] # NotYet
  BY <1>0 DEF Alive
<1>4. tangled' = {} => \A i \in 2..Len(history') : history'[i - 1] \ W!Unarchived \subseteq history'[i]
  BY <1>0 DEF Steady
<1>5. /\ work' \in Nat /\ work <= work' /\ boxes' \in Nat /\ boxes <= boxes' /\ boxes' <= MaxBoxes
      /\ TaskFits(q, boxes', Len(history'), work') /\ TaskAlive(q, space')
      /\ tangled' = {} => tangled = {}
      /\ tangled' = {} /\ q.at \in Steps => SteadyTask(q, space', box', history')
  BY <1>1
<1> QED
  BY <1>1, <1>2, <1>3, <1>4, <1>5, TaskStep

LEMMA TaskLeaves ==
  ASSUME WorkInv, NEW t \in Tasks, task' = [task EXCEPT ![t] = [at |-> "idle"]],
         UNCHANGED <<history, space, box, taken, work, boxes>>, tangled \subseteq tangled'
  PROVE  WorkInv'
<1> DEFINE q == [at |-> "idle"]
<1>1. TaskFits(q, boxes, Len(history), work) /\ TaskAlive(q, space) /\ q.at \notin Steps
  BY DEF TaskFits, TaskAlive, Steps
<1> HIDE DEF q
<1>2. task' = [task EXCEPT ![t] = q]
  BY DEF q
<1> QED
  BY <1>1, <1>2, TaskMoves

\* What is known of a request that is at work.
LEMMA TaskIs ==
  ASSUME WorkInv, NEW t \in Tasks, task[t].at \in Steps
  PROVE  /\ {"at", "space", "read", "id", "commit", "held"} \subseteq DOMAIN task[t]
         /\ task[t].space \in Spaces /\ RowFits(task[t].read, boxes, Len(history))
         /\ task[t].id \in 0..boxes /\ task[t].commit \in 0..Len(history) /\ task[t].held \subseteq 1..work
         /\ task[t].at \in {"run", "fill", "started", "saved"} => task[t].commit # 0
         /\ space[task[t].space] # NotYet
         /\ tangled = {} => /\ SteadyTask(task[t], space, box, history)
                            /\ \A s \in Tasks \ {t} : task[s].at \in Steps => task[s].space # task[t].space
<1>1. TaskFits(task[t], boxes, Len(history), work) /\ TaskAlive(task[t], space)
  BY DEF WorkInv, WorkTyped, TasksFit, Alive
<1>2. tangled = {} => /\ SteadyTask(task[t], space, box, history)
                      /\ \A s \in Tasks \ {t} : task[s].at \in Steps => task[s].space # task[t].space
  BY DEF WorkInv, Steady
<1> QED
  BY <1>1, <1>2 DEF TaskFits, TaskAlive

\* A write changes one row, and leaves what was written if the row is as read.
LEMMA RowIsWritten ==
  ASSUME WorkInv, NEW t \in Tasks, task[t].at \in Steps,
         NEW state \in {"stopped", "running", "failed"}, NEW id \in 0..boxes, NEW commit \in 0..Len(history),
         W!Write(t, state, id, commit)
  PROVE  LET w == task[t].space IN
         /\ DOMAIN space' = Spaces /\ \A x \in Spaces \ {w} : space'[x] = space[x]
         /\ space[w] \in {NotYet, Removed} => space'[w] = space[w]
         /\ space[w] \notin {NotYet, Removed} => RowFits(space'[w], boxes, Len(history))
         /\ space[w] = task[t].read => space'[w].container = id /\ space'[w].commit = commit
<1> DEFINE w == task[t].space
<1>0. /\ w \in Spaces /\ RowFits(task[t].read, boxes, Len(history)) /\ DOMAIN space = Spaces
      /\ space[w] \in {NotYet, Removed} \/ RowFits(space[w], boxes, Len(history))
      /\ boxes \in Nat /\ Len(history) \in Nat
  BY TaskIs DEF WorkInv, WorkTyped, SpacesFit, HistoryFits
<1>1. CASE space[w] \in {NotYet, Removed}
  <2>1. space' = space
    BY <1>1 DEF W!Write, W!Has, W!Of
  <2>2. space[w] # task[t].read
    BY <1>0, <1>1, RowsAndBoxes
  <2> QED
    BY <1>0, <1>1, <2>1, <2>2
<1>2. CASE space[w] \notin {NotYet, Removed}
  <2> DEFINE line == [state     |-> IF state = task[t].read.state THEN space[w].state ELSE state,
                     container |-> IF id = task[t].read.container THEN space[w].container ELSE id,
                     commit    |-> IF commit = task[t].read.commit THEN space[w].commit ELSE commit]
  <2>1. space' = [space EXCEPT ![w] = line]
    BY <1>0, <1>2 DEF W!Write, W!Has, W!Of, W!Read
  <2>2. RowFits(line, boxes, Len(history))
    BY <1>0, <1>2 DEF RowFits
  <2>3. space[w] = task[t].read => line.container = id /\ line.commit = commit
    BY <1>0, <1>2 DEF RowFits
  <2> HIDE DEF line
  <2> QED
    BY <1>0, <1>2, <2>1, <2>2, <2>3
<1> QED
  BY <1>1, <1>2

LEMMA WriteStep ==
  ASSUME WorkInv, NEW t \in Tasks, task[t].at \in Steps,
         NEW state \in {"stopped", "running", "failed"}, NEW id \in 0..boxes, NEW commit \in 0..Len(history),
         W!Write(t, state, id, commit), task' = [task EXCEPT ![t] = [at |-> "idle"]],
         UNCHANGED <<history, box, tangled, taken, work, boxes>>,
         tangled = {} => id = 0 \/ (commit \in 1..Len(history) /\ Holds(box[task[t].space], id, history[commit]))
  PROVE  WorkInv'
<1> DEFINE q == [at |-> "idle"]
           w == task[t].space
<1>0. WorkTyped /\ Alive /\ Steady /\ SpacesFit /\ w \in Spaces /\ space[w] # NotYet
  BY TaskIs DEF WorkInv, WorkTyped
<1>1. TaskFits(q, boxes, Len(history), work) /\ TaskAlive(q, space') /\ q.at \notin Steps
  BY DEF TaskFits, TaskAlive, Steps
<1>2. task' = [task EXCEPT ![t] = q]
  OBVIOUS
<1> HIDE DEF q
<1>3. /\ DOMAIN space' = Spaces /\ \A x \in Spaces \ {w} : space'[x] = space[x]
      /\ space[w] \in {NotYet, Removed} => space'[w] = space[w]
      /\ space[w] \notin {NotYet, Removed} => RowFits(space'[w], boxes, Len(history))
      /\ space[w] = task[t].read => space'[w].container = id /\ space'[w].commit = commit
  BY RowIsWritten
<1>4. HistoryFits' /\ Grows /\ work \in Nat /\ boxes \in Nat /\ boxes <= MaxBoxes /\ Len(history) \in Nat
  BY <1>0 DEF WorkTyped, HistoryFits, Grows
<1>5. SpacesFit'
  BY <1>0, <1>3 DEF SpacesFit
<1>6. space'[w] # NotYet /\ (space[w] = Removed => space'[w] = Removed)
  BY <1>0, <1>3, <1>4, RowsAndBoxes
<1>7. \A x \in Spaces : /\ space[x] # NotYet => space'[x] # NotYet
                        /\ space[x] = Removed => space'[x] = Removed
                        /\ box'[x] # NoBox => space'[x] # NotYet
  BY <1>0, <1>3, <1>6 DEF Alive
<1>8. taken' \subseteq {x \in Spaces : space'[x] = Removed}
  BY <1>0, <1>7 DEF Alive
<1>9. ASSUME tangled = {} PROVE /\ SteadySpace(w, space', box', history')
                                /\ \A s \in Tasks \ {t} : task[s].at \in Steps => task[s].space # w
                                /\ \A i \in 2..Len(history') : history'[i - 1] \ W!Unarchived \subseteq history'[i]
  <2>1. space[w] = task[t].read /\ \A s \in Tasks \ {t} : task[s].at \in Steps => task[s].space # w
    BY <1>9, TaskIs DEF SteadyTask
  <2>2. box[w] = NoBox \/ (box[w].id \in 1..boxes)
    BY <1>0 DEF SpacesFit, BoxFits
  <2>3. SteadySpace(w, space', box', history')
    BY <1>3, <1>4, <1>9, <2>1, <2>2 DEF SteadySpace, Holds
  <2> QED
    BY <1>0, <1>9, <2>1, <2>3 DEF Steady
<1>10. \A x \in Spaces : Wears(box[x], box'[x])
  BY DEF Wears
<1>11. ASSUME tangled' = {}
       PROVE  \A x \in Spaces : \/ space'[x] = space[x] /\ Wears(box[x], box'[x])
                                \/ /\ SteadySpace(x, space', box', history')
                                   /\ \A s \in Tasks \ {t} : task[s].at \in Steps => task[s].space # x
  BY <1>3, <1>9, <1>10, <1>11
<1>12. /\ work' \in Nat /\ work <= work' /\ boxes' \in Nat /\ boxes <= boxes' /\ boxes' <= MaxBoxes
       /\ TaskFits(q, boxes', Len(history'), work') /\ tangled' = {} => tangled = {}
       /\ tangled' = {} => \A i \in 2..Len(history') : history'[i - 1] \ W!Unarchived \subseteq history'[i]
  BY <1>1, <1>4, <1>9
<1> QED
  BY <1>1, <1>2, <1>4, <1>5, <1>7, <1>8, <1>11, <1>12, TaskStep
\* A step that no request takes.
LEMMA WorldStep ==
  ASSUME WorkInv, UNCHANGED <<task, taken, tangled, boxes>>,
         HistoryFits', Grows, SpacesFit', work' \in Nat, work <= work',
         \A w \in Spaces : /\ space[w] # NotYet => space'[w] # NotYet
                           /\ space[w] = Removed => space'[w] = Removed
                           /\ box'[w] # NoBox => space'[w] # NotYet,
         tangled = {} => \A i \in 2..Len(history') : history'[i - 1] \ W!Unarchived \subseteq history'[i],
         tangled = {} => \A w \in Spaces : \/ space'[w] = space[w] /\ Wears(box[w], box'[w])
                                           \/ /\ SteadySpace(w, space', box', history')
                                              /\ \A s \in Tasks : task[s].at \in Steps => task[s].space # w
  PROVE  WorkInv'
<1>0. WorkTyped /\ Alive /\ Steady
  BY DEF WorkInv
<1>1. Len(history) \in Nat /\ Len(history') \in Nat /\ Len(history) <= Len(history') /\ boxes \in Nat
  BY <1>0 DEF WorkTyped, HistoryFits, Grows
<1>2. \A s \in Tasks : TaskFits(task[s], boxes, Len(history'), work')
  BY <1>0, <1>1, KindsGrow DEF WorkTyped, TasksFit
<1>3. WorkTyped'
  BY <1>0, <1>2 DEF WorkTyped, TasksFit
<1>4. ASSUME NEW s \in Tasks PROVE TaskAlive(task[s], space')
  <2>1. TaskAlive(task[s], space) /\ TaskFits(task[s], boxes, Len(history), work)
    BY <1>0 DEF Alive, WorkTyped, TasksFit
  <2> QED
    BY <2>1 DEF TaskAlive, TaskFits
<1>5. Alive'
  BY <1>0, <1>4 DEF Alive
<1>6. Steady'
  <2> SUFFICES ASSUME tangled = {} PROVE Steady'
    BY DEF Steady
  <2>1. ASSUME NEW s \in Tasks, task[s].at \in Steps PROVE SteadyTask(task[s], space', box', history')
    <3>1. task[s].space \in Spaces /\ SteadyTask(task[s], space, box, history)
      BY <1>0, <2>1 DEF WorkTyped, TasksFit, TaskFits, Steady
    <3>2. space'[task[s].space] = space[task[s].space] /\ Wears(box[task[s].space], box'[task[s].space])
      BY <2>1, <3>1
    <3> QED
      BY <1>0, <3>1, <3>2, SteadyElsewhere
  <2>2. ASSUME NEW w \in Spaces PROVE SteadySpace(w, space', box', history')
    <3>1. CASE space'[w] = space[w] /\ Wears(box[w], box'[w])
      BY <1>0, <3>1, SteadyElsewhere DEF Steady
    <3> QED
      BY <3>1
  <2> QED
    BY <1>0, <2>1, <2>2 DEF Steady
<1> QED
  BY <1>3, <1>5, <1>6 DEF WorkInv

\* A step of a request on the container of its workspace.
LEMMA BoxStep ==
  ASSUME WorkInv, NEW t \in Tasks, NEW q, task' = [task EXCEPT ![t] = q], task[t].at \in Steps,
         NEW x, box' = [box EXCEPT ![task[t].space] = x],
         UNCHANGED <<history, space, tangled, taken, work>>,
         boxes' \in Nat, boxes <= boxes', boxes' <= MaxBoxes, x = NoBox \/ BoxFits(x, boxes', work),
         TaskFits(q, boxes', Len(history), work), q.at \in Steps, q.space = task[t].space,
         tangled = {} => /\ SteadyTask(q, space, box', history)
                         /\ SteadySpace(q.space, space, box', history)
  PROVE  WorkInv'
<1> DEFINE w == task[t].space
<1>0. /\ WorkTyped /\ Alive /\ Steady /\ SpacesFit /\ w \in Spaces /\ space[w] # NotYet
      /\ boxes \in Nat /\ work \in Nat /\ Len(history) \in Nat
  BY TaskIs DEF WorkInv, WorkTyped, HistoryFits
<1>1. HistoryFits' /\ Grows
  BY <1>0 DEF WorkTyped, HistoryFits, Grows
<1>2. box'[w] = x /\ \A y \in Spaces \ {w} : box'[y] = box[y]
  BY <1>0 DEF SpacesFit
<1>3. SpacesFit'
  <2>1. /\ \A y : RowFits(y, boxes, Len(history)) => RowFits(y, boxes', Len(history))
        /\ \A y : BoxFits(y, boxes, work) => BoxFits(y, boxes', work)
    BY <1>0, KindsGrow
  <2> QED
    BY <1>0, <1>2, <2>1 DEF SpacesFit
<1>4. TaskAlive(q, space')
  BY <1>0 DEF TaskAlive, Steps
<1>5. \A y \in Spaces : /\ space[y] # NotYet => space'[y] # NotYet
                        /\ space[y] = Removed => space'[y] = Removed
                        /\ box'[y] # NoBox => space'[y] # NotYet
  BY <1>0, <1>2 DEF Alive
<1>6. taken' \subseteq {y \in Spaces : space'[y] = Removed}
  BY <1>0 DEF Alive
<1>7. ASSUME tangled' = {}
      PROVE  /\ SteadyTask(q, space', box', history')
             /\ \A s \in Tasks \ {t} : task[s].at \in Steps => task[s].space # q.space
             /\ \A i \in 2..Len(history') : history'[i - 1] \ W!Unarchived \subseteq history'[i]
             /\ \A y \in Spaces : \/ space'[y] = space[y] /\ Wears(box[y], box'[y])
                                  \/ /\ SteadySpace(y, space', box', history')
                                     /\ \A s \in Tasks \ {t} : task[s].at \in Steps => task[s].space # y
  <2>1. \A s \in Tasks \ {t} : task[s].at \in Steps => task[s].space # w
    BY <1>7, TaskIs
  <2>2. \A i \in 2..Len(history') : history'[i - 1] \ W!Unarchived \subseteq history'[i]
    BY <1>0, <1>7 DEF Steady
  <2>3. \A y \in Spaces \ {w} : Wears(box[y], box'[y])
    BY <1>2 DEF Wears
  <2> QED
    BY <1>7, <2>1, <2>2, <2>3
<1>8. /\ work' \in Nat /\ work <= work' /\ TaskFits(q, boxes', Len(history'), work')
      /\ tangled' = {} => tangled = {}
  BY <1>0
<1> QED
  BY <1>1, <1>3, <1>4, <1>5, <1>6, <1>7, <1>8, TaskStep
LEMMA TaskBegins ==
  ASSUME WorkInv, NEW t \in Tasks, NEW w \in Spaces, NEW what \in {"start", "stop", "delete", "refresh", "save"},
         W!_mine(t, w, what)
  PROVE  WorkInv'
<1> DEFINE q == [at |-> what, space |-> w, read |-> space[w], id |-> 0, commit |-> 0, held |-> {}]
<1>0. WorkTyped /\ boxes \in Nat /\ work \in Nat /\ Len(history) \in Nat
  BY DEF WorkInv, WorkTyped, HistoryFits
<1>1. /\ task' = [task EXCEPT ![t] = q] /\ space[w] \notin {NotYet, Removed} /\ task[t].at = "idle"
      /\ tangled' = (IF W!With(w) = {} THEN tangled ELSE tangled \union {w})
      /\ UNCHANGED <<history, space, box, taken, work, boxes>>
  BY DEF W!_mine, W!In, W!Has, W!bounds
<1>2. RowFits(space[w], boxes, Len(history))
  BY <1>0, <1>1 DEF WorkTyped, SpacesFit
<1>3. /\ {"space", "read", "id", "commit", "held"} \subseteq DOMAIN q /\ "at" \in DOMAIN q /\ q.at = what
      /\ q.space = w /\ q.read = space[w] /\ q.id = 0 /\ q.commit = 0 /\ q.held = {}
  OBVIOUS
<1>4. what \in Steps
  BY DEF Steps
<1> HIDE DEF q
<1>5. TaskFits(q, boxes, Len(history), work) /\ TaskAlive(q, space)
  BY <1>0, <1>1, <1>2, <1>3, <1>4 DEF TaskFits, TaskAlive, Steps
<1>6. SteadyTask(q, space, box, history)
  BY <1>3 DEF SteadyTask
<1>7. tangled' = {} => \A s \in Tasks \ {t} : task[s].at \in Steps => task[s].space # q.space
  <2>1. tangled' = {} => W!With(w) = {}
    BY <1>1
  <2> QED
    BY <1>3, <2>1 DEF W!With, W!In, W!Of, Steps
<1> QED
  BY <1>1, <1>5, <1>6, <1>7, TaskMoves

\* A request that is at work goes on.
LEMMA TaskGoesOn ==
  ASSUME WorkInv, NEW t \in Tasks, task[t].at \in Steps, NEW s \in Steps,
         NEW id \in 0..boxes, NEW commit \in 0..Len(history), NEW kept \in SUBSET (1..work), NEW q,
         s \in {"run", "fill", "started", "saved"} => commit # 0,
         q.at = s, q.space = task[t].space, q.read = task[t].read, q.id = id, q.commit = commit, q.held = kept,
         {"at", "space", "read", "id", "commit", "held"} \subseteq DOMAIN q
  PROVE  TaskFits(q, boxes, Len(history), work) /\ TaskAlive(q, space)
<1>1. s \notin {"idle", "rows", "rm"} /\ s # "rows" /\ s # "rm"
  BY DEF Steps
<1> QED
  BY <1>1, TaskIs DEF TaskFits, TaskAlive

LEMMA TaskMovesOn ==
  ASSUME WorkInv, NEW t \in Tasks, task[t].at \in Steps, NEW s \in Steps,
         NEW id \in 0..boxes, NEW commit \in 0..Len(history), NEW kept \in SUBSET (1..work), NEW q,
         s \in {"run", "fill", "started", "saved"} => commit # 0,
         q.at = s, q.space = task[t].space, q.read = task[t].read, q.id = id, q.commit = commit, q.held = kept,
         {"at", "space", "read", "id", "commit", "held"} \subseteq DOMAIN q,
         task' = [task EXCEPT ![t] = q], UNCHANGED <<history, space, box, taken, work, boxes, tangled>>,
         tangled = {} => SteadyTask(q, space, box, history)
  PROVE  WorkInv'
<1>1. TaskFits(q, boxes, Len(history), work) /\ TaskAlive(q, space)
  BY TaskGoesOn
<1>2. tangled' = {} => \A u \in Tasks \ {t} : task[u].at \in Steps => task[u].space # q.space
  BY TaskIs
<1> QED
  BY <1>1, <1>2, TaskMoves

LEMMA ForgetKeeps ==
  ASSUME WorkInv, NEW t \in Tasks, W!_forget_container(t)
  PROVE  WorkInv'
<1> DEFINE s == CASE task[t].at = "start" -> "resolve" [] task[t].at = "stop" -> "stopped" [] OTHER -> "gone"
           q == [task[t] EXCEPT !.at = s]
           w == task[t].space
<1>1. /\ task[t].at \in {"start", "stop", "delete"} /\ task' = [task EXCEPT ![t] = q]
      /\ box' = [box EXCEPT ![w] = NoBox] \/ box' = box
      /\ UNCHANGED <<history, space, tangled, taken, work, boxes>>
  BY DEF W!_forget_container, W!To, W!Of, W!In
<1>2. task[t].at \in Steps /\ s \in {"resolve", "stopped", "gone"} /\ s \in Steps
  BY <1>1 DEF Steps
<1>3. /\ q.at = s /\ q.space = w /\ q.read = task[t].read /\ q.id = task[t].id /\ q.commit = task[t].commit
      /\ q.held = task[t].held /\ {"at", "space", "read", "id", "commit", "held"} \subseteq DOMAIN q
      /\ task[t].id \in 0..boxes /\ task[t].commit \in 0..Len(history) /\ task[t].held \in SUBSET (1..work)
      /\ w \in Spaces /\ boxes \in Nat /\ boxes <= MaxBoxes /\ DOMAIN box = Spaces
  BY <1>2, TaskIs DEF WorkInv, WorkTyped, SpacesFit
<1>4. tangled = {} => space[w] = task[t].read
  BY <1>2, TaskIs DEF SteadyTask
<1>5. tangled = {} => \A bx : SteadyTask(q, space, bx, history)
  BY <1>2, <1>3, <1>4 DEF SteadyTask
<1> HIDE DEF q, s
<1>6. CASE box' = box
  BY <1>1, <1>2, <1>3, <1>5, <1>6, TaskMovesOn
<1>7. CASE box' = [box EXCEPT ![w] = NoBox]
  <2>1. TaskFits(q, boxes, Len(history), work)
    BY <1>2, <1>3, TaskGoesOn
  <2>2. SteadySpace(q.space, space, box', history)
    BY <1>3, <1>7 DEF SteadySpace
  <2>3. /\ boxes' \in Nat /\ boxes <= boxes' /\ boxes' <= MaxBoxes /\ q.at \in Steps
        /\ TaskFits(q, boxes', Len(history), work)
    BY <1>1, <1>2, <1>3, <2>1
  <2>4. tangled = {} => SteadyTask(q, space, box', history)
    BY <1>5
  <2> DEFINE x == NoBox
  <2>5. box' = [box EXCEPT ![w] = x] /\ (x = NoBox \/ BoxFits(x, boxes', work))
    BY <1>7
  <2> HIDE DEF x
  <2> QED
    BY <1>1, <1>2, <1>3, <2>2, <2>3, <2>4, <2>5, BoxStep
<1> QED
  BY <1>1, <1>6, <1>7

LEMMA ResolveKeeps ==
  ASSUME WorkInv, NEW t \in Tasks, W!resolve(t)
  PROVE  WorkInv'
<1> DEFINE q == [[task[t] EXCEPT !.at = "run"] EXCEPT !.commit = Len(history)]
<1>1. /\ task[t].at = "resolve" /\ task' = [task EXCEPT ![t] = q]
      /\ UNCHANGED <<history, space, box, tangled, taken, work, boxes>>
  BY DEF W!resolve, W!In, W!bounds, W!tip
<1>2. task[t].at \in Steps /\ "run" \in Steps
  BY <1>1 DEF Steps
<1>3. /\ q.at = "run" /\ q.space = task[t].space /\ q.read = task[t].read /\ q.id = task[t].id
      /\ q.commit = Len(history) /\ q.held = task[t].held
      /\ {"at", "space", "read", "id", "commit", "held"} \subseteq DOMAIN q
      /\ task[t].id \in 0..boxes /\ task[t].held \in SUBSET (1..work)
      /\ Len(history) \in 1..Len(history) /\ Len(history) \in 0..Len(history) /\ Len(history) # 0
  BY <1>2, TaskIs DEF WorkInv, WorkTyped, HistoryFits
<1>4. tangled = {} => space[task[t].space] = task[t].read
  BY <1>2, TaskIs DEF SteadyTask
<1>5. tangled = {} => SteadyTask(q, space, box, history)
  BY <1>3, <1>4 DEF SteadyTask
<1> HIDE DEF q
<1> QED
  BY <1>1, <1>2, <1>3, <1>5, TaskMovesOn

LEMMA RunKeeps ==
  ASSUME WorkInv, NEW t \in Tasks, W!run_idle(t)
  PROVE  WorkInv'
<1> DEFINE w == task[t].space
<1>1. /\ task[t].at = "run" /\ boxes < MaxBoxes
      /\ UNCHANGED <<history, space, tangled, taken, work>>
  BY DEF W!run_idle, W!In
<1>2. task[t].at \in Steps /\ "failed" \in Steps /\ "fill" \in Steps
  BY <1>1 DEF Steps
<1>3. /\ task[t].id \in 0..boxes /\ task[t].commit \in 0..Len(history) /\ task[t].held \in SUBSET (1..work)
      /\ {"at", "space", "read", "id", "commit", "held"} \subseteq DOMAIN task[t]
      /\ RowFits(task[t].read, boxes, Len(history))
      /\ w \in Spaces /\ boxes \in Nat /\ boxes <= MaxBoxes /\ DOMAIN box = Spaces /\ work \in Nat
      /\ Len(history) \in Nat /\ MaxBoxes \in Nat /\ SpacesFit /\ task[t].commit # 0
  BY <1>1, <1>2, TaskIs, ForgeAssumption DEF WorkInv, WorkTyped, SpacesFit, HistoryFits, WorkspacesAssumption
<1>4. tangled = {} => space[w] = task[t].read /\ task[t].commit \in 1..Len(history)
  BY <1>1, <1>2, TaskIs DEF SteadyTask
<1>5. CASE box[w] # NoBox
  <2> DEFINE q == [task[t] EXCEPT !.at = "failed"]
  <2>1. task' = [task EXCEPT ![t] = q] /\ UNCHANGED <<box, boxes>>
    BY <1>5 DEF W!run_idle, W!Of, W!To
  <2>2. /\ q.at = "failed" /\ q.space = w /\ q.read = task[t].read /\ q.id = task[t].id /\ q.commit = task[t].commit
        /\ q.held = task[t].held /\ {"at", "space", "read", "id", "commit", "held"} \subseteq DOMAIN q
    BY <1>3
  <2>3. tangled = {} => SteadyTask(q, space, box, history)
    BY <1>4, <2>2 DEF SteadyTask
  <2> HIDE DEF q
  <2> QED
    BY <1>1, <1>2, <1>3, <2>1, <2>2, <2>3, TaskMovesOn
<1>6. CASE box[w] = NoBox
  <2> DEFINE q == [[task[t] EXCEPT !.at = "fill"] EXCEPT !.id = boxes + 1]
             x == [id |-> boxes + 1, holds |-> {}]
  <2>1. task' = [task EXCEPT ![t] = q] /\ boxes' = boxes + 1 /\ box' = [box EXCEPT ![w] = x]
    BY <1>6 DEF W!run_idle, W!Of
  <2>2. /\ q.at = "fill" /\ q.space = w /\ q.read = task[t].read /\ q.id = boxes + 1 /\ q.commit = task[t].commit
        /\ q.held = task[t].held /\ {"at", "space", "read", "id", "commit", "held"} \subseteq DOMAIN q
        /\ x.id = boxes + 1
    BY <1>3
  <2>3. boxes' \in Nat /\ boxes <= boxes' /\ boxes' <= MaxBoxes /\ BoxFits(x, boxes', work)
    BY <1>1, <1>3, <2>1 DEF BoxFits
  <2> HIDE DEF q, x
  <2>4. TaskFits(q, boxes', Len(history), work)
    <3>1. RowFits(task[t].read, boxes', Len(history))
      BY <1>3, <2>3, KindsGrow
    <3>2. boxes + 1 \in 0..boxes'
      BY <2>1, <2>3
    <3> QED
      BY <1>2, <1>3, <2>2, <3>1, <3>2 DEF TaskFits
  <2>5. tangled = {} => SteadyTask(q, space, box', history)
    <3>1. task[t].read.container # boxes + 1
      BY <1>3 DEF RowFits
    <3> QED
      BY <1>4, <2>2, <3>1 DEF SteadyTask
  <2>6. SteadySpace(w, space, box', history)
    <3>1. space[w] \notin {NotYet, Removed} => space[w].container # boxes + 1
      BY <1>3 DEF SpacesFit, RowFits
    <3> QED
      BY <1>3, <2>1, <2>2, <3>1 DEF SteadySpace
  <2> QED
    BY <1>1, <1>2, <2>1, <2>2, <2>3, <2>4, <2>5, <2>6, BoxStep
<1> QED
  BY <1>5, <1>6
LEMMA FillKeeps ==
  ASSUME WorkInv, NEW t \in Tasks, W!copy_into(t)
  PROVE  WorkInv'
<1> DEFINE w == task[t].space
           ends == [task[t] EXCEPT !.at = "failed"]
           q == [task[t] EXCEPT !.at = "started"]
<1>1. task[t].at = "fill" /\ UNCHANGED <<history, space, tangled, taken, work, boxes>>
  BY DEF W!copy_into, W!In
<1>2. task[t].at \in Steps /\ "failed" \in Steps /\ "started" \in Steps
  BY <1>1 DEF Steps
<1>3. /\ task[t].id \in 0..boxes /\ task[t].commit \in 0..Len(history) /\ task[t].held \in SUBSET (1..work)
      /\ {"at", "space", "read", "id", "commit", "held"} \subseteq DOMAIN task[t]
      /\ w \in Spaces /\ boxes \in Nat /\ boxes <= MaxBoxes /\ DOMAIN box = Spaces /\ work \in Nat
      /\ Len(history) \in Nat /\ SpacesFit /\ HistoryFits
      /\ task[t].commit \in 1..Len(history) /\ task[t].commit # 0
  BY <1>1, <1>2, TaskIs DEF WorkInv, WorkTyped, SpacesFit, HistoryFits
<1>4. tangled = {} => space[w] = task[t].read /\ task[t].commit \in 1..Len(history) /\ task[t].read.container # task[t].id
  BY <1>1, <1>2, TaskIs DEF SteadyTask
<1>5. CASE box' = box /\ task' = [task EXCEPT ![t] = ends]
  <2>1. /\ ends.at = "failed" /\ ends.space = w /\ ends.read = task[t].read /\ ends.id = task[t].id
        /\ ends.commit = task[t].commit /\ ends.held = task[t].held
        /\ {"at", "space", "read", "id", "commit", "held"} \subseteq DOMAIN ends
    BY <1>3
  <2>2. tangled = {} => SteadyTask(ends, space, box, history)
    BY <1>4, <2>1 DEF SteadyTask
  <2> HIDE DEF ends
  <2> QED
    BY <1>1, <1>2, <1>3, <1>5, <2>1, <2>2, TaskMovesOn
<1>6. CASE /\ box[w] # NoBox /\ box[w].id = task[t].id /\ task' = [task EXCEPT ![t] = q]
           /\ box' = [box EXCEPT ![w].holds = history[task[t].commit] \ Unexported]
  <2> DEFINE x == [box[w] EXCEPT !.holds = history[task[t].commit] \ Unexported]
  <2>1. box' = [box EXCEPT ![w] = x]
    BY <1>6
  <2>2. BoxFits(box[w], boxes, work) /\ history[task[t].commit] \in SUBSET (1..work)
    BY <1>3, <1>6 DEF SpacesFit, HistoryFits
  <2>3. BoxFits(x, boxes, work) /\ x.id = task[t].id /\ x.holds = history[task[t].commit] \ Unexported
    BY <1>6, <2>2 DEF BoxFits
  <2>4. /\ q.at = "started" /\ q.space = w /\ q.read = task[t].read /\ q.id = task[t].id
        /\ q.commit = task[t].commit /\ q.held = task[t].held
        /\ {"at", "space", "read", "id", "commit", "held"} \subseteq DOMAIN q
    BY <1>3
  <2> HIDE DEF x, q
  <2>5. TaskFits(q, boxes, Len(history), work)
    BY <1>2, <1>3, <2>4, TaskGoesOn
  <2>6. box'[w] = x
    BY <1>3, <2>1
  <2>0. history[task[t].commit] \ W!Unarchived \subseteq history[task[t].commit] \ Unexported
    BY DEF W!Unarchived
  <2>7. tangled = {} => SteadyTask(q, space, box', history)
    BY <1>4, <2>0, <2>3, <2>4, <2>6 DEF SteadyTask, Holds
  <2>8. tangled = {} => SteadySpace(q.space, space, box', history)
    BY <1>4, <2>0, <2>3, <2>4, <2>6 DEF SteadySpace
  <2>9. boxes' \in Nat /\ boxes <= boxes' /\ boxes' <= MaxBoxes /\ BoxFits(x, boxes', work) /\ q.at \in Steps
    BY <1>1, <1>2, <1>3, <2>3, <2>4
  <2>10. TaskFits(q, boxes', Len(history), work)
    BY <1>1, <2>5
  <2> QED
    BY <1>1, <1>2, <1>6, <2>1, <2>4, <2>7, <2>8, <2>9, <2>10, BoxStep
<1> QED
  BY <1>1, <1>3, <1>5, <1>6 DEF W!copy_into, W!Runs, W!To, W!Of
LEMMA RowKeeps ==
  ASSUME WorkInv, NEW t \in Tasks, W!start(t) \/ W!stop(t) \/ W!refresh(t) \/ W!save(t)
  PROVE  WorkInv'
<1> DEFINE w == task[t].space
<1>1. /\ task[t].at \in {"started", "failed", "stopped", "refresh", "saved"} /\ task' = [task EXCEPT ![t] = [at |-> "idle"]]
      /\ UNCHANGED <<history, box, tangled, taken, work, boxes>>
  BY DEF W!start, W!stop, W!refresh, W!save, W!In, W!Leaves, W!Idle, W!bounds
<1>2. task[t].at \in Steps
  BY <1>1 DEF Steps
<1>3. /\ task[t].id \in 0..boxes /\ task[t].commit \in 0..Len(history)
      /\ task[t].read.container \in 0..boxes /\ task[t].read.commit \in 0..Len(history)
      /\ task[t].read.state \in {"stopped", "running", "failed"} /\ 0 \in 0..boxes
      /\ tangled = {} => SteadyTask(task[t], space, box, history)
  BY <1>2, TaskIs DEF RowFits, WorkInv, WorkTyped
<1>4. ASSUME W!Write(t, "running", task[t].id, task[t].commit), task[t].at = "started" PROVE WorkInv'
  <2>1. tangled = {} => task[t].commit \in 1..Len(history) /\ Holds(box[w], task[t].id, history[task[t].commit])
    BY <1>3, <1>4 DEF SteadyTask
  <2> QED
    BY <1>1, <1>2, <1>3, <1>4, <2>1, WriteStep
<1>5. ASSUME NEW state \in {"stopped", "failed"}, W!Write(t, state, 0, task[t].read.commit) PROVE WorkInv'
  BY <1>1, <1>2, <1>3, <1>5, WriteStep
<1>6. ASSUME W!Write(t, task[t].read.state, task[t].read.container, task[t].commit), task[t].at = "saved" PROVE WorkInv'
  <2>1. tangled = {} => /\ task[t].commit \in 1..Len(history)
                        /\ Holds(box[w], task[t].read.container, history[task[t].commit])
    BY <1>3, <1>6 DEF SteadyTask
  <2> QED
    BY <1>1, <1>2, <1>3, <1>6, <2>1, WriteStep
<1>7. ASSUME UNCHANGED space PROVE WorkInv'
  BY <1>1, <1>7, TaskLeaves
<1>8. CASE W!start(t)
  BY <1>4, <1>5, <1>8 DEF W!start, W!In, W!Read
<1>9. CASE W!stop(t)
  BY <1>5, <1>9 DEF W!stop, W!Read
<1>10. CASE W!refresh(t)
  BY <1>5, <1>7, <1>10 DEF W!refresh, W!Read
<1>11. CASE W!save(t)
  BY <1>6, <1>11 DEF W!save, W!In, W!Read
<1> QED
  BY <1>8, <1>9, <1>10, <1>11

LEMMA DeleteKeeps ==
  ASSUME WorkInv, NEW t \in Tasks, W!delete(t)
  PROVE  WorkInv'
<1> DEFINE w == task[t].space
           q == [at |-> "idle"]
<1>1. /\ task[t].at = "gone" /\ task' = [task EXCEPT ![t] = q] /\ space' = [space EXCEPT ![w] = Removed]
      /\ UNCHANGED <<history, box, tangled, taken, work, boxes>>
  BY DEF W!delete, W!In, W!Leaves, W!Idle, W!bounds, W!Of
<1>2. task[t].at \in Steps
  BY <1>1 DEF Steps
<1>3. TaskFits(q, boxes, Len(history), work) /\ TaskAlive(q, space') /\ q.at \notin Steps
  BY DEF TaskFits, TaskAlive, Steps
<1> HIDE DEF q
<1>4. /\ WorkTyped /\ Alive /\ Steady /\ SpacesFit /\ w \in Spaces /\ NotYet # Removed
      /\ boxes \in Nat /\ work \in Nat /\ Len(history) \in Nat
  BY <1>2, TaskIs, ForgeAssumption DEF WorkInv, WorkTyped, HistoryFits, WorkspacesAssumption
<1>5. space'[w] = Removed /\ DOMAIN space' = Spaces /\ \A x \in Spaces \ {w} : space'[x] = space[x]
  BY <1>1, <1>4 DEF SpacesFit
<1>6. HistoryFits' /\ Grows
  BY <1>1, <1>4 DEF WorkTyped, HistoryFits, Grows
<1>7. SpacesFit'
  BY <1>1, <1>4, <1>5 DEF SpacesFit
<1>8. \A x \in Spaces : /\ space[x] # NotYet => space'[x] # NotYet
                        /\ space[x] = Removed => space'[x] = Removed
                        /\ box'[x] # NoBox => space'[x] # NotYet
  BY <1>1, <1>4, <1>5 DEF Alive
<1>9. taken' \subseteq {x \in Spaces : space'[x] = Removed}
  BY <1>1, <1>4, <1>8 DEF Alive
<1>10. ASSUME tangled' = {}
       PROVE  /\ \A i \in 2..Len(history') : history'[i - 1] \ W!Unarchived \subseteq history'[i]
              /\ \A x \in Spaces : \/ space'[x] = space[x] /\ Wears(box[x], box'[x])
                                   \/ /\ SteadySpace(x, space', box', history')
                                      /\ \A s \in Tasks \ {t} : task[s].at \in Steps => task[s].space # x
  <2>1. \A s \in Tasks \ {t} : task[s].at \in Steps => task[s].space # w
    BY <1>1, <1>2, <1>10, TaskIs
  <2>2. SteadySpace(w, space', box', history')
    BY <1>5 DEF SteadySpace
  <2>3. \A x \in Spaces : Wears(box[x], box'[x])
    BY <1>1 DEF Wears
  <2> QED
    BY <1>1, <1>4, <1>5, <1>10, <2>1, <2>2, <2>3 DEF Steady
<1>11. /\ work' \in Nat /\ work <= work' /\ boxes' \in Nat /\ boxes <= boxes' /\ boxes' <= MaxBoxes
       /\ TaskFits(q, boxes', Len(history'), work') /\ tangled' = {} => tangled = {}
  BY <1>1, <1>3, <1>4 DEF WorkTyped
<1> QED
  BY <1>1, <1>3, <1>6, <1>7, <1>8, <1>9, <1>10, <1>11, TaskStep

LEMMA CopyOutKeeps ==
  ASSUME WorkInv, NEW t \in Tasks, W!copy_out(t)
  PROVE  WorkInv'
<1> DEFINE w == task[t].space
           q == [[task[t] EXCEPT !.at = "commit"] EXCEPT !.held = box[w].holds \ Links]
           there == box[w] # NoBox /\ box[w].id = task[t].read.container
<1>1. /\ task[t].at = "save" /\ UNCHANGED <<history, space, box, tangled, taken, work, boxes>>
      /\ task' = [task EXCEPT ![t] = IF there THEN q ELSE [at |-> "idle"]]
  BY DEF W!copy_out, W!In, W!Leaves, W!Idle, W!bounds, W!Runs, W!Of, W!Read
<1>2. task[t].at \in Steps /\ "commit" \in Steps
  BY <1>1 DEF Steps
<1>3. CASE ~there
  BY <1>1, <1>3, TaskLeaves
<1>4. CASE there
  <2>1. /\ {"at", "space", "read", "id", "commit", "held"} \subseteq DOMAIN task[t]
        /\ w \in Spaces /\ RowFits(task[t].read, boxes, Len(history))
        /\ task[t].id \in 0..boxes /\ task[t].commit \in 0..Len(history) /\ SpacesFit
        /\ boxes \in Nat /\ Len(history) \in Nat /\ work \in Nat
    BY <1>2, TaskIs DEF WorkInv, WorkTyped, HistoryFits
  <2>2. /\ q.at = "commit" /\ q.space = w /\ q.read = task[t].read /\ q.id = task[t].id
        /\ q.commit = task[t].commit /\ q.held = box[w].holds \ Links
        /\ {"at", "space", "read", "id", "commit", "held"} \subseteq DOMAIN q
    BY <2>1
  <2>3. box[w].holds \in SUBSET (1..work)
    BY <1>4, <2>1 DEF SpacesFit, BoxFits
  <2>4. tangled = {} => SteadyTask(q, space, box, history)
    <3> SUFFICES ASSUME tangled = {} PROVE SteadyTask(q, space, box, history)
      OBVIOUS
    <3>1. space[w] = task[t].read /\ SteadySpace(w, space, box, history)
      BY <1>2, <2>1, TaskIs DEF SteadyTask, WorkInv, Steady
    <3>2. space[w] \notin {NotYet, Removed}
      BY <2>1, <3>1, RowsAndBoxes
    <3>3. task[t].read.commit \in 1..Len(history) /\ history[task[t].read.commit] \ W!Unarchived \subseteq box[w].holds
      BY <1>4, <3>1, <3>2 DEF SteadySpace
    <3>4. /\ history[task[t].read.commit] \ W!Unarchived \subseteq box[w].holds \ Links
          /\ (box[w].holds \ Links) \ W!Unarchived \subseteq box[w].holds
      BY <3>3 DEF W!Unarchived
    <3> HIDE DEF q
    <3> QED
      BY <2>2, <3>1, <3>3, <3>4 DEF SteadyTask, Holds
  <2>5. task' = [task EXCEPT ![t] = q]
    BY <1>1, <1>4
  <2> HIDE DEF q
  <2>6. TaskFits(q, boxes, Len(history), work)
    BY <1>2, <2>1, <2>2, <2>3 DEF TaskFits
  <2>7. TaskAlive(q, space)
    BY <1>2, <2>2, TaskIs DEF TaskAlive
  <2>8. tangled = {} => \A u \in Tasks \ {t} : task[u].at \in Steps => task[u].space # q.space
    BY <1>2, <2>2, TaskIs
  <2> QED
    BY <1>1, <2>4, <2>5, <2>6, <2>7, <2>8, TaskMoves
<1> QED
  BY <1>3, <1>4
\* Nothing of what the branch holds is taken out by adding to it.
LEMMA HistoryGrows ==
  ASSUME WorkInv, NEW new \in SUBSET (1..work'), work' \in Nat, work <= work', history' = Append(history, new)
  PROVE  /\ HistoryFits' /\ Grows /\ Len(history') = Len(history) + 1 /\ history'[Len(history')] = new
         /\ tangled = {} /\ history[Len(history)] \ W!Unarchived \subseteq new =>
              \A i \in 2..Len(history') : history'[i - 1] \ W!Unarchived \subseteq history'[i]
<1>0. /\ history \in Seq(SUBSET Nat) /\ Len(history) \in Nat /\ Len(history) >= 1 /\ work \in Nat
      /\ \A i \in 1..Len(history) : history[i] \subseteq 1..work
  BY DEF WorkInv, WorkTyped, HistoryFits
<1>1. /\ Len(history') = Len(history) + 1 /\ history'[Len(history')] = new /\ history' \in Seq(SUBSET Nat)
      /\ \A i \in 1..Len(history) : history'[i] = history[i]
  BY <1>0
<1>2. ASSUME NEW i \in 1..Len(history') PROVE history'[i] \subseteq 1..work'
  <2>1. CASE i = Len(history')
    BY <1>1, <2>1
  <2>2. CASE i # Len(history')
    <3>1. i \in 1..Len(history) /\ 1..work \subseteq 1..work'
      BY <1>0, <1>1, <2>2
    <3> QED
      BY <1>0, <1>1, <3>1
  <2> QED
    BY <2>1, <2>2
<1>3. HistoryFits' /\ Grows
  BY <1>0, <1>1, <1>2 DEF HistoryFits, Grows
<1>4. ASSUME tangled = {}, history[Len(history)] \ W!Unarchived \subseteq new, NEW i \in 2..Len(history')
      PROVE  history'[i - 1] \ W!Unarchived \subseteq history'[i]
  <2>1. CASE i = Len(history')
    <3>1. i - 1 = Len(history) /\ i - 1 \in 1..Len(history)
      BY <1>0, <1>1, <2>1
    <3> QED
      BY <1>1, <1>4, <2>1, <3>1
  <2>2. CASE i # Len(history')
    <3>1. i \in 2..Len(history) /\ i \in 1..Len(history) /\ i - 1 \in 1..Len(history)
      BY <1>0, <1>1, <2>2
    <3>2. history[i - 1] \ W!Unarchived \subseteq history[i]
      BY <1>4, <3>1 DEF WorkInv, Steady
    <3> QED
      BY <1>1, <3>1, <3>2
  <2> QED
    BY <2>1, <2>2
<1> QED
  BY <1>1, <1>3, <1>4

\* The commit of a save holds what the container held.
LEMMA SaveCommits ==
  ASSUME WorkInv, NEW t \in Tasks, W!commit_files(t)
  PROVE  WorkInv'
<1> DEFINE w == task[t].space
           base == task[t].read.commit
           q == [[task[t] EXCEPT !.at = "saved"] EXCEPT !.commit = Len(history) + 1]
<1>1. /\ task[t].at = "commit" /\ UNCHANGED <<space, box, tangled, taken, work, boxes>>
  BY DEF W!commit_files, W!In, W!bounds
<1>2. task[t].at \in Steps /\ "saved" \in Steps
  BY <1>1 DEF Steps
<1>3. /\ {"at", "space", "read", "id", "commit", "held"} \subseteq DOMAIN task[t]
      /\ w \in Spaces /\ RowFits(task[t].read, boxes, Len(history))
      /\ task[t].id \in 0..boxes /\ task[t].held \in SUBSET (1..work)
      /\ boxes \in Nat /\ boxes <= MaxBoxes /\ Len(history) \in Nat /\ work \in Nat /\ SpacesFit
  BY <1>2, TaskIs DEF WorkInv, WorkTyped, HistoryFits
<1>4. CASE history' = history /\ task' = [task EXCEPT ![t] = [at |-> "idle"]]
  BY <1>1, <1>4, TaskLeaves
<1>5. CASE /\ Len(history) = base /\ task' = [task EXCEPT ![t] = q]
           /\ history' = Append(history, (history[Len(history)] \ (history[base] \ task[t].held))
                                           \union (task[t].held \ history[base]))
  <2>1. history' = Append(history, task[t].held)
    <3>1. (history[Len(history)] \ (history[base] \ task[t].held)) \union (task[t].held \ history[base]) = task[t].held
      BY <1>5
    <3> QED
      BY <1>5, <3>1
  <2>2. /\ HistoryFits' /\ Grows /\ Len(history') = Len(history) + 1 /\ history'[Len(history')] = task[t].held
        /\ tangled = {} /\ history[Len(history)] \ W!Unarchived \subseteq task[t].held =>
              \A i \in 2..Len(history') : history'[i - 1] \ W!Unarchived \subseteq history'[i]
    BY <1>1, <1>3, <2>1, HistoryGrows
  <2>3. /\ q.at = "saved" /\ q.space = w /\ q.read = task[t].read /\ q.id = task[t].id
        /\ q.commit = Len(history) + 1 /\ q.held = task[t].held
        /\ {"at", "space", "read", "id", "commit", "held"} \subseteq DOMAIN q
    BY <1>3
  <2> HIDE DEF q
  <2>4. /\ \A x : RowFits(x, boxes, Len(history)) => RowFits(x, boxes', Len(history'))
        /\ \A x : BoxFits(x, boxes, work) => BoxFits(x, boxes', work')
    BY <1>1, <1>3, <2>2, KindsGrow
  <2>5. SpacesFit'
    BY <1>1, <1>3, <2>4 DEF SpacesFit
  <2>6. TaskFits(q, boxes', Len(history'), work')
    <3>1. Len(history) + 1 \in 0..Len(history') /\ Len(history) + 1 # 0
      BY <1>3, <2>2
    <3> QED
      BY <1>1, <1>2, <1>3, <2>3, <2>4, <3>1 DEF TaskFits
  <2>7. TaskAlive(q, space')
    BY <1>1, <1>2, <2>3, TaskIs DEF TaskAlive
  <2>8. /\ \A x \in Spaces : box'[x] # NoBox => space'[x] # NotYet
        /\ taken' \subseteq {x \in Spaces : space'[x] = Removed}
    BY <1>1 DEF WorkInv, Alive
  <2>9. ASSUME tangled' = {}
        PROVE  /\ SteadyTask(q, space', box', history')
               /\ \A s \in Tasks \ {t} : task[s].at \in Steps => task[s].space # q.space
               /\ \A i \in 2..Len(history') : history'[i - 1] \ W!Unarchived \subseteq history'[i]
    <3>1. /\ SteadyTask(task[t], space, box, history) /\ tangled = {}
          /\ \A s \in Tasks \ {t} : task[s].at \in Steps => task[s].space # w
      BY <1>1, <1>2, <2>9, TaskIs
    <3>2. /\ space[w] = task[t].read /\ history[base] \ W!Unarchived \subseteq task[t].held
          /\ Holds(box[w], task[t].read.container, task[t].held)
      BY <1>1, <3>1 DEF SteadyTask
    <3>3. Len(history') \in 1..Len(history')
      BY <1>3, <2>2
    <3>4. SteadyTask(q, space', box', history')
      BY <1>1, <2>2, <2>3, <3>2, <3>3 DEF SteadyTask
    <3> QED
      BY <1>5, <2>2, <2>3, <3>1, <3>2, <3>4
  <2>10. \A x \in Spaces : space'[x] = space[x] /\ Wears(box[x], box'[x])
    BY <1>1 DEF Wears
  <2>11. /\ work' \in Nat /\ work <= work' /\ boxes' \in Nat /\ boxes <= boxes' /\ boxes' <= MaxBoxes
         /\ tangled' = {} => tangled = {}
    BY <1>1, <1>3
  <2> QED
    BY <1>5, <2>2, <2>5, <2>6, <2>7, <2>8, <2>9, <2>10, <2>11, TaskStep
<1>6. history' = history \/ Len(history) = base
  BY DEF W!commit_files, W!tip, W!save_base, W!Read
<1> QED
  BY <1>4, <1>5, <1>6 DEF W!commit_files, W!changes, W!tip, W!save_base, W!Read, W!Leaves, W!Idle
LEMMA SweepKeeps ==
  ASSUME WorkInv, NEW t \in Tasks, W!sweep(t)
  PROVE  WorkInv'
<1> DEFINE all == {w \in Spaces : box[w] # NoBox}
           lost == {w \in task[t].found : ~W!Has(w)}
           q == [at |-> "rows", found |-> all]
           r == [at |-> "rm", found |-> lost]
<1>1. /\ UNCHANGED <<history, space, box, tangled, taken, work, boxes>>
      /\ \/ task' = [task EXCEPT ![t] = q]
         \/ task[t].at = "rows" /\ task' = [task EXCEPT ![t] = r]
  BY DEF W!sweep, W!In, W!bounds
<1>2. q.at = "rows" /\ q.found = all /\ "at" \in DOMAIN q /\ r.at = "rm" /\ r.found = lost /\ "at" \in DOMAIN r
  OBVIOUS
<1>3. "rows" \notin Steps /\ "rm" \notin Steps
  BY DEF Steps
<1> HIDE DEF q, r
<1>4. CASE task' = [task EXCEPT ![t] = q]
  <2>1. TaskFits(q, boxes, Len(history), work) /\ TaskAlive(q, space)
    BY <1>2, <1>3 DEF TaskFits, TaskAlive, WorkInv, Alive
  <2> QED
    BY <1>1, <1>2, <1>3, <1>4, <2>1, TaskMoves
<1>5. CASE task[t].at = "rows" /\ task' = [task EXCEPT ![t] = r]
  <2>1. TaskFits(task[t], boxes, Len(history), work) /\ TaskAlive(task[t], space)
    BY DEF WorkInv, WorkTyped, TasksFit, Alive
  <2>2. TaskFits(r, boxes, Len(history), work)
    BY <1>2, <1>3, <1>5, <2>1 DEF TaskFits
  <2>3. TaskAlive(r, space)
    BY <1>2, <1>3, <1>5, <2>1 DEF TaskAlive, W!Has
  <2> QED
    BY <1>1, <1>2, <1>3, <1>5, <2>2, <2>3, TaskMoves
<1> QED
  BY <1>1, <1>4, <1>5

LEMMA SweptKeeps ==
  ASSUME WorkInv, NEW t \in Tasks, W!sweep_removes(t)
  PROVE  WorkInv'
<1> DEFINE q == [at |-> "idle"]
<1>1. /\ task[t].at = "rm" /\ task' = [task EXCEPT ![t] = q] /\ UNCHANGED <<history, space, tangled, work, boxes>>
      /\ box' = [w \in Spaces |-> IF w \in task[t].found THEN NoBox ELSE box[w]]
      /\ taken' = taken \union {w \in task[t].found : box[w] # NoBox}
  BY DEF W!sweep_removes, W!In, W!Leaves, W!Idle, W!bounds
<1>2. TaskFits(q, boxes, Len(history), work) /\ TaskAlive(q, space') /\ q.at \notin Steps
  BY DEF TaskFits, TaskAlive, Steps
<1> HIDE DEF q
<1>3. /\ WorkTyped /\ Alive /\ Steady /\ SpacesFit /\ TaskFits(task[t], boxes, Len(history), work)
      /\ TaskAlive(task[t], space) /\ boxes \in Nat /\ boxes <= MaxBoxes /\ work \in Nat
  BY DEF WorkInv, WorkTyped, TasksFit, Alive
<1>4. HistoryFits' /\ Grows
  BY <1>1, <1>3 DEF WorkTyped, HistoryFits, Grows
<1>5. SpacesFit'
  BY <1>1, <1>3 DEF SpacesFit
<1>6. /\ \A w \in Spaces : box'[w] # NoBox => space'[w] # NotYet
      /\ taken' \subseteq {w \in Spaces : space'[w] = Removed}
  BY <1>1, <1>3 DEF Alive, TaskAlive, TaskFits
<1>7. \A w \in Spaces : space'[w] = space[w] /\ Wears(box[w], box'[w])
  BY <1>1 DEF Wears
<1>8. tangled' = {} => \A i \in 2..Len(history') : history'[i - 1] \ W!Unarchived \subseteq history'[i]
  BY <1>1, <1>3 DEF Steady
<1>9. /\ work' \in Nat /\ work <= work' /\ boxes' \in Nat /\ boxes <= boxes' /\ boxes' <= MaxBoxes
      /\ TaskFits(q, boxes', Len(history'), work') /\ tangled' = {} => tangled = {}
  BY <1>1, <1>2, <1>3
<1> QED
  BY <1>1, <1>2, <1>4, <1>5, <1>6, <1>7, <1>8, <1>9, TaskStep

LEMMA CreateKeeps ==
  ASSUME WorkInv, NEW w \in Spaces, W!create(w)
  PROVE  WorkInv'
<1> DEFINE x == [state |-> "stopped", container |-> 0, commit |-> 0]
<1>1. /\ space[w] = NotYet /\ space' = [space EXCEPT ![w] = x]
      /\ UNCHANGED <<history, box, task, tangled, taken, work, boxes>>
  BY DEF W!create, W!bounds
<1>2. /\ WorkTyped /\ Alive /\ Steady /\ SpacesFit /\ boxes \in Nat /\ work \in Nat /\ Len(history) \in Nat
      /\ NotYet # Removed
  BY ForgeAssumption DEF WorkInv, WorkTyped, HistoryFits, WorkspacesAssumption
<1>3. RowFits(x, boxes, Len(history))
  BY <1>2 DEF RowFits
<1> HIDE DEF x
<1>4. space'[w] = x /\ DOMAIN space' = Spaces /\ (\A y \in Spaces \ {w} : space'[y] = space[y]) /\ x # NotYet
  BY <1>1, <1>2, <1>3, RowsAndBoxes DEF SpacesFit
<1>5. HistoryFits' /\ Grows
  BY <1>1, <1>2 DEF WorkTyped, HistoryFits, Grows
<1>6. SpacesFit'
  BY <1>1, <1>2, <1>3, <1>4 DEF SpacesFit
<1>7. \A y \in Spaces : /\ space[y] # NotYet => space'[y] # NotYet
                        /\ space[y] = Removed => space'[y] = Removed
                        /\ box'[y] # NoBox => space'[y] # NotYet
  BY <1>1, <1>2, <1>4 DEF Alive
<1>8. SteadySpace(w, space', box', history')
  BY <1>1, <1>2 DEF SteadySpace, Alive
<1>9. \A s \in Tasks : task[s].at \in Steps => task[s].space # w
  BY <1>1, <1>2 DEF Alive, TaskAlive
<1>10. \A y \in Spaces \ {w} : space'[y] = space[y] /\ Wears(box[y], box'[y])
  BY <1>1, <1>4 DEF Wears
<1>11. tangled = {} => \A i \in 2..Len(history') : history'[i - 1] \ W!Unarchived \subseteq history'[i]
  BY <1>1, <1>2 DEF Steady
<1>12. work' \in Nat /\ work <= work'
  BY <1>1, <1>2
<1>13. \A y \in Spaces : \/ space'[y] = space[y] /\ Wears(box[y], box'[y])
                         \/ /\ SteadySpace(y, space', box', history')
                            /\ \A s \in Tasks : task[s].at \in Steps => task[s].space # y
  BY <1>8, <1>9, <1>10
<1> QED
  BY <1>1, <1>5, <1>6, <1>7, <1>11, <1>12, <1>13, WorldStep

\* Somebody works, in a terminal or beside it.
LEMMA WorkKeeps ==
  ASSUME WorkInv, W!Pushes \/ \E w \in Spaces : W!terminal(w)
  PROVE  WorkInv'
<1>1. work' = work + 1 /\ UNCHANGED <<space, task, tangled, taken, boxes>>
  BY DEF W!Pushes, W!terminal
<1>2. /\ WorkTyped /\ Alive /\ Steady /\ SpacesFit /\ boxes \in Nat /\ work \in Nat /\ Len(history) \in Nat
      /\ HistoryFits /\ work' \in Nat /\ work <= work' /\ 1..work \subseteq 1..work' /\ work + 1 \in 1..work'
  BY <1>1 DEF WorkInv, WorkTyped, HistoryFits
<1>3. \A y \in Spaces : /\ space[y] # NotYet => space'[y] # NotYet
                        /\ space[y] = Removed => space'[y] = Removed
  BY <1>1
<1>4. CASE W!Pushes
  <2> DEFINE new == history[Len(history)] \union {work + 1}
  <2>1. history' = Append(history, new) /\ UNCHANGED box
    BY <1>4 DEF W!Pushes, W!tip
  <2>2. new \in SUBSET (1..work')
    BY <1>2 DEF HistoryFits
  <2>3. history[Len(history)] \subseteq new
    OBVIOUS
  <2> HIDE DEF new
  <2>4. /\ HistoryFits' /\ Grows /\ Len(history') = Len(history) + 1
        /\ tangled = {} => \A i \in 2..Len(history') : history'[i - 1] \ W!Unarchived \subseteq history'[i]
    BY <1>2, <2>1, <2>2, <2>3, HistoryGrows
  <2>5. /\ \A x : RowFits(x, boxes, Len(history)) => RowFits(x, boxes, Len(history'))
        /\ \A x : BoxFits(x, boxes, work) => BoxFits(x, boxes, work')
    BY <1>2, <2>4, KindsGrow
  <2>6. SpacesFit'
    BY <1>1, <1>2, <2>1, <2>5 DEF SpacesFit
  <2>7. \A x \in Spaces : space'[x] = space[x] /\ Wears(box[x], box'[x])
    BY <1>1, <2>1 DEF Wears
  <2>8. \A x \in Spaces : box'[x] # NoBox => space'[x] # NotYet
    BY <1>1, <1>2, <2>1 DEF Alive
  <2> QED
    BY <1>1, <1>2, <1>3, <2>4, <2>6, <2>7, <2>8, WorldStep
<1>5. ASSUME NEW w \in Spaces, W!terminal(w) PROVE WorkInv'
  <2> DEFINE x == [box[w] EXCEPT !.holds = box[w].holds \union {work + 1}]
  <2>1. box[w] # NoBox /\ box' = [box EXCEPT ![w] = x] /\ UNCHANGED history
    BY <1>5 DEF W!terminal, W!Runs
  <2>2. BoxFits(box[w], boxes, work) /\ BoxFits(box[w], boxes, work')
    BY <1>2, <2>1, KindsGrow DEF SpacesFit
  <2>3. BoxFits(x, boxes, work') /\ x.id = box[w].id /\ box[w].holds \subseteq x.holds
    BY <1>2, <2>2 DEF BoxFits
  <2> HIDE DEF x
  <2>4. box'[w] = x /\ DOMAIN box' = Spaces /\ \A y \in Spaces \ {w} : box'[y] = box[y]
    BY <1>2, <2>1 DEF SpacesFit
  <2>5. \A y : BoxFits(y, boxes, work) => BoxFits(y, boxes, work')
    BY <1>2, KindsGrow
  <2>6. SpacesFit'
    BY <1>1, <1>2, <2>1, <2>3, <2>4, <2>5 DEF SpacesFit
  <2>7. HistoryFits' /\ Grows
    BY <1>2, <2>1 DEF HistoryFits, Grows
  <2>8. \A y \in Spaces : space'[y] = space[y] /\ Wears(box[y], box'[y])
    BY <1>1, <2>1, <2>3, <2>4 DEF Wears
  <2>9. \A y \in Spaces : box'[y] # NoBox => space'[y] # NotYet
    BY <1>1, <1>2, <2>1, <2>4 DEF Alive
  <2>10. tangled = {} => \A i \in 2..Len(history') : history'[i - 1] \ W!Unarchived \subseteq history'[i]
    BY <1>2, <2>1 DEF Steady
  <2> QED
    BY <1>1, <1>2, <1>3, <2>6, <2>7, <2>8, <2>9, <2>10, WorldStep
<1> QED
  BY <1>4, <1>5

LEMMA WorkNext == WorkInv /\ [W!Next]_W!workspaceVars => WorkInv'
<1> SUFFICES ASSUME WorkInv, [W!Next]_W!workspaceVars PROVE WorkInv'
  OBVIOUS
<1>1. ASSUME NEW w \in Spaces, W!create(w) PROVE WorkInv'
  BY <1>1, CreateKeeps
<1>2. ASSUME W!Pushes \/ \E w \in Spaces : W!terminal(w) PROVE WorkInv'
  BY <1>2, WorkKeeps
<1>3. ASSUME NEW t \in Tasks, NEW w \in Spaces,
             \/ W!start_workspace(t, w) \/ W!stop_workspace(t, w) \/ W!delete_workspace(t, w)
             \/ W!read_workspace(t, w) \/ W!save_workspace(t, w)
      PROVE  WorkInv'
  <2>1. W!_mine(t, w, "start") => WorkInv'
    BY TaskBegins
  <2>2. W!_mine(t, w, "stop") => WorkInv'
    BY TaskBegins
  <2>3. W!_mine(t, w, "delete") => WorkInv'
    BY TaskBegins
  <2>4. W!_mine(t, w, "refresh") => WorkInv'
    BY TaskBegins
  <2>5. W!_mine(t, w, "save") => WorkInv'
    BY TaskBegins
  <2> QED
    BY <1>3, <2>1, <2>2, <2>3, <2>4, <2>5
    DEF W!start_workspace, W!stop_workspace, W!delete_workspace, W!read_workspace, W!save_workspace
<1>4. ASSUME NEW t \in Tasks, W!_forget_container(t) PROVE WorkInv'
  BY <1>4, ForgetKeeps
<1>5. ASSUME NEW t \in Tasks, W!resolve(t) PROVE WorkInv'
  BY <1>5, ResolveKeeps
<1>6. ASSUME NEW t \in Tasks, W!run_idle(t) PROVE WorkInv'
  BY <1>6, RunKeeps
<1>7. ASSUME NEW t \in Tasks, W!copy_into(t) PROVE WorkInv'
  BY <1>7, FillKeeps
<1>8. ASSUME NEW t \in Tasks, W!start(t) \/ W!stop(t) \/ W!refresh(t) \/ W!save(t) PROVE WorkInv'
  BY <1>8, RowKeeps
<1>9. ASSUME NEW t \in Tasks, W!delete(t) PROVE WorkInv'
  BY <1>9, DeleteKeeps
<1>10. ASSUME NEW t \in Tasks, W!copy_out(t) PROVE WorkInv'
  BY <1>10, CopyOutKeeps
<1>11. ASSUME NEW t \in Tasks, W!commit_files(t) PROVE WorkInv'
  BY <1>11, SaveCommits
<1>12. ASSUME NEW t \in Tasks, W!sweep(t) PROVE WorkInv'
  BY <1>12, SweepKeeps
<1>13. ASSUME NEW t \in Tasks, W!sweep_removes(t) PROVE WorkInv'
  BY <1>13, SweptKeeps
<1>14. ASSUME NEW t \in Tasks, W!Dies(t) PROVE WorkInv'
  <2>1. task' = [task EXCEPT ![t] = [at |-> "idle"]] /\ UNCHANGED <<history, space, box, tangled, taken, work, boxes>>
    BY <1>14 DEF W!Dies, W!Leaves, W!Idle
  <2> QED
    BY <2>1, TaskLeaves
<1>15. CASE UNCHANGED W!workspaceVars
  <2>1. UNCHANGED <<history, space, box, task, tangled, taken, work, boxes>>
    BY <1>15 DEF W!workspaceVars
  <2>2. WorkTyped'
    BY <2>1 DEF WorkInv, WorkTyped, HistoryFits, SpacesFit, TasksFit
  <2> QED
    BY <2>1, <2>2 DEF WorkInv, Alive, Steady
<1> QED
  BY <1>1, <1>2, <1>3, <1>4, <1>5, <1>6, <1>7, <1>8, <1>9, <1>10, <1>11, <1>12, <1>13, <1>14, <1>15
  DEF W!Next

(* WorkIsNotUndone: no commit of a save takes a regular file out of the    *)
(* branch that the commit before it held, if no two requests were at one   *)
(* workspace at a time (workspaces/service.py save, git.py commit_files).  *)
(* SweepSparesTheLiving: containers are swept from under removed           *)
(* workspaces only (workspaces/service.py sweep).                          *)
THEOREM WorkspacesAreKept == W!Spec => [](W!TypeOK /\ W!WorkIsNotUndone /\ W!SweepSparesTheLiving)
<1>1. WorkInv => W!TypeOK
  <2> SUFFICES ASSUME WorkInv PROVE W!TypeOK
    OBVIOUS
  <2>1. WorkTyped /\ boxes \in Nat /\ boxes <= MaxBoxes /\ MaxBoxes \in Nat /\ W!tip = Len(history) /\ Len(history) \in Nat
    BY ForgeAssumption DEF WorkInv, WorkTyped, HistoryFits, W!tip, WorkspacesAssumption
  <2>2. ASSUME NEW w \in Spaces, W!Has(w) PROVE space[w] \in W!WorkspaceRows
    <3>1. RowFits(space[w], boxes, Len(history))
      BY <2>1, <2>2 DEF WorkTyped, SpacesFit, W!Has
    <3>2. RowFits(space[w], MaxBoxes, Len(history))
      BY <2>1, <3>1 DEF RowFits
    <3> QED
      BY <2>1, <3>2 DEF RowFits, W!WorkspaceRows
  <2>3. ASSUME NEW w \in Spaces, box[w] # NoBox PROVE box[w].id \in 1..MaxBoxes /\ box[w].holds \subseteq 1..work
    BY <2>1, <2>3 DEF WorkTyped, SpacesFit, BoxFits
  <2> QED
    BY <2>1, <2>2, <2>3 DEF W!TypeOK, WorkTyped, HistoryFits
<1>2. WorkInv => W!WorkIsNotUndone /\ W!SweepSparesTheLiving
  BY DEF WorkInv, Alive, Steady, W!WorkIsNotUndone, W!SweepSparesTheLiving, W!tip
<1> QED
  BY <1>1, <1>2, WorkInit, WorkNext, PTL DEF W!Spec
-----------------------------------------------------------------------------
(* Suggestions.                                                            *)

BranchCommits == [file : Seq(Lines), parent : Nat, by : L!CommentRows \union {None}]
BranchFits ==
    /\ commits \in Seq(BranchCommits) /\ Len(commits) \in 1..MaxSuggested
    /\ \A k \in 1..Len(commits) : Len(commits[k].file) >= 1

\* What a request read is a commit of the branch, and what it will write is the
\* file of that commit with the one line replaced.
ApplyFits(q, branches) ==
    /\ "at" \in DOMAIN q /\ q.at \in {"idle", "resolve", "read", "commit"}
    /\ q.at # "idle" => q.comment \in L!CommentRows
    /\ q.at \in {"read", "commit"} => q.tip \in 1..Len(branches)
    /\ q.at = "commit" => /\ q.comment.line \in 1..Len(branches[q.tip].file)
                          /\ q.file = L!Replaced(branches[q.tip].file, q.comment)
TakesOneLine(before, after, said) ==
    /\ said.line \in DOMAIN before
    /\ Len(after) = Len(before) - 1 + Len(said.body) \/ after = <<Blank>>
    /\ \A i \in 1..(said.line - 1) : after[i] = before[i]
    /\ \A i \in (said.line + 1)..Len(before) : after[i + Len(said.body) - 1] = before[i]
LinesAreTaken == \A k \in 2..Len(commits) : commits[k].by # None =>
    TakesOneLine(commits[k - 1].file, commits[k].file, commits[k].by)

SuggestInv ==
    /\ BranchFits /\ LinesAreTaken
    /\ \A c \in Comments : comments[c] \in L!CommentRows \union {None}
    /\ DOMAIN comments = Comments /\ DOMAIN apply = Appliers
    /\ \A a \in Appliers : ApplyFits(apply[a], commits)

\* The file with one line replaced: all that was before it and after it stays.
LEMMA OneLineIsReplaced ==
  ASSUME NEW before \in Seq(Lines), NEW said \in L!CommentRows, said.line \in 1..Len(before)
  PROVE  /\ L!Replaced(before, said) \in Seq(Lines) /\ Len(L!Replaced(before, said)) >= 1
         /\ TakesOneLine(before, L!Replaced(before, said), said)
<1> DEFINE r == said.line
           body == said.body
           top == SubSeq(before, 1, r - 1)
           rest == SubSeq(before, r + 1, Len(before))
           head == top \o body
           all == head \o rest
<1>0. /\ body \in Seq(Lines) /\ Len(body) \in Nat /\ r \in Nat /\ r >= 1 /\ r <= Len(before) /\ Len(before) \in Nat
      /\ Blank \in Lines
  BY ForgeAssumption DEF L!CommentRows, SuggestionsAssumption
<1> HIDE DEF r, body
<1>1. /\ top \in Seq(Lines) /\ Len(top) = r - 1
      /\ \A i \in 1..(r - 1) : top[i] = before[i]
  <2>1. \A i \in 1..(r - 1) : before[i] \in Lines
    BY <1>0
  <2>2. r - 1 \in Int /\ 1 \in Int
    BY <1>0
  <2>3. /\ top \in Seq(Lines) /\ Len(top) = IF 1 <= r - 1 THEN (r - 1) - 1 + 1 ELSE 0
        /\ \A i \in 1..((r - 1) - 1 + 1) : top[i] = before[1 + i - 1]
    BY <2>1, <2>2, SubSeqProperties
  <2> QED
    BY <1>0, <2>3
<1>2. /\ rest \in Seq(Lines) /\ Len(rest) = Len(before) - r
      /\ \A i \in 1..(Len(before) - r) : rest[i] = before[r + i]
  <2>1. \A i \in (r + 1)..Len(before) : before[i] \in Lines
    BY <1>0
  <2>2. r + 1 \in Int /\ Len(before) \in Int
    BY <1>0
  <2>3. /\ rest \in Seq(Lines) /\ Len(rest) = IF r + 1 <= Len(before) THEN Len(before) - (r + 1) + 1 ELSE 0
        /\ \A i \in 1..(Len(before) - (r + 1) + 1) : rest[i] = before[(r + 1) + i - 1]
    BY <2>1, <2>2, SubSeqProperties
  <2> QED
    BY <1>0, <2>3
<1> HIDE DEF top, rest
<1>3. /\ head \in Seq(Lines) /\ Len(head) = Len(top) + Len(body)
      /\ \A i \in 1..(Len(top) + Len(body)) : head[i] = IF i <= Len(top) THEN top[i] ELSE body[i - Len(top)]
  BY <1>0, <1>1, ConcatProperties
<1> HIDE DEF head
<1>4. /\ all \in Seq(Lines) /\ Len(all) = Len(head) + Len(rest)
      /\ \A i \in 1..(Len(head) + Len(rest)) : all[i] = IF i <= Len(head) THEN head[i] ELSE rest[i - Len(head)]
  <2>1. head \in Seq(Lines) /\ rest \in Seq(Lines)
    BY <1>2, <1>3
  <2> QED
    BY <2>1, ConcatProperties
<1> HIDE DEF all
<1>5. Len(all) = Len(before) - 1 + Len(body)
  BY <1>0, <1>1, <1>2, <1>3, <1>4
<1>6. ASSUME NEW i \in 1..(r - 1) PROVE all[i] = before[i]
  <2>1. i \in 1..(Len(head) + Len(rest)) /\ i <= Len(head) /\ i \in 1..(Len(top) + Len(body)) /\ i <= Len(top)
    BY <1>0, <1>1, <1>2, <1>3
  <2>2. all[i] = head[i] /\ head[i] = top[i]
    BY <1>3, <1>4, <2>1
  <2> QED
    BY <1>1, <2>2
<1>7. ASSUME NEW i \in (r + 1)..Len(before) PROVE all[i + Len(body) - 1] = before[i]
  <2> DEFINE j == i + Len(body) - 1
  <2>1. j \in 1..(Len(head) + Len(rest)) /\ j > Len(head) /\ j - Len(head) = i - r /\ i - r \in 1..(Len(before) - r)
    BY <1>0, <1>1, <1>2, <1>3
  <2>2. all[j] = rest[i - r]
    BY <1>1, <1>2, <1>3, <1>4, <2>1
  <2> QED
    BY <1>0, <1>2, <2>1, <2>2
<1>8. L!Replaced(before, said) = IF all = <<>> THEN <<Blank>> ELSE all
  BY DEF L!Replaced, L!Joined, all, head, top, rest, r, body
<1>9. CASE all = <<>>
  <2>1. Len(all) = 0 /\ r = 1 /\ Len(before) = 1
    <3>1. Len(all) = 0
      BY <1>9
    <3>2. \A m \in Nat, n \in Nat : m >= 1 /\ 0 = m - 1 + n => m = 1
      OBVIOUS
    <3>3. Len(before) >= 1 /\ 0 = Len(before) - 1 + Len(body)
      BY <1>0, <1>5, <3>1
    <3>4. Len(before) = 1
      BY <1>0, <3>2, <3>3
    <3> QED
      BY <1>0, <3>1, <3>4
  <2>2. L!Replaced(before, said) = <<Blank>>
    BY <1>8, <1>9
  <2> QED
    BY <1>0, <2>1, <2>2 DEF TakesOneLine, r
<1>10. CASE all # <<>>
  <2>1. L!Replaced(before, said) = all /\ Len(all) >= 1
    BY <1>4, <1>8, <1>10
  <2>2. TakesOneLine(before, all, said)
    BY <1>0, <1>5, <1>6, <1>7 DEF TakesOneLine, r, body
  <2> QED
    BY <1>4, <2>1, <2>2
<1> QED
  BY <1>9, <1>10
LEMMA BranchFiles ==
  ASSUME BranchFits, NEW k \in 1..Len(commits)
  PROVE  commits[k].file \in Seq(Lines) /\ Len(commits[k].file) \in Nat /\ Len(commits[k].file) >= 1
<1>1. commits[k] \in BranchCommits /\ Len(commits[k].file) >= 1
  BY DEF BranchFits
<1>2. commits[k].file \in Seq(Lines)
  BY <1>1 DEF BranchCommits
<1> QED
  BY <1>1, <1>2

LEMMA SuggestInit == L!Init => SuggestInv
<1> SUFFICES ASSUME L!Init PROVE SuggestInv
  OBVIOUS
<1> DEFINE root == [file |-> <<Blank>>, parent |-> 0, by |-> None]
<1>1. /\ commits = <<root>> /\ DOMAIN comments = Comments /\ DOMAIN apply = Appliers
      /\ \A c \in Comments : comments[c] = None
      /\ \A a \in Appliers : apply[a] = [at |-> "idle"]
  BY DEF L!Init, L!Idle
<1>2. root \in BranchCommits /\ Len(root.file) = 1
  BY ForgeAssumption DEF BranchCommits, SuggestionsAssumption
<1> HIDE DEF root
<1>3. Len(commits) = 1 /\ commits[1] = root /\ commits \in Seq(BranchCommits)
  BY <1>1, <1>2
<1>4. BranchFits
  <2>1. MaxSuggested \in Nat /\ MaxSuggested # 0
    BY ForgeAssumption DEF SuggestionsAssumption
  <2>2. \A k \in 1..Len(commits) : commits[k] = root
    BY <1>3
  <2> QED
    BY <1>2, <1>3, <2>1, <2>2 DEF BranchFits
<1>5. LinesAreTaken
  BY <1>3 DEF LinesAreTaken
<1>6. \A a \in Appliers : ApplyFits(apply[a], commits)
  BY <1>1 DEF ApplyFits
<1> QED
  BY <1>1, <1>4, <1>5, <1>6 DEF SuggestInv

\* A request goes on, and the branch stays.
LEMMA ApplyGoesOn ==
  ASSUME SuggestInv, NEW a \in Appliers, NEW q, apply' = [apply EXCEPT ![a] = q], ApplyFits(q, commits),
         UNCHANGED <<commits, comments>>
  PROVE  SuggestInv'
<1>1. DOMAIN apply' = Appliers /\ \A b \in Appliers : ApplyFits(apply'[b], commits)
  BY DEF SuggestInv
<1>2. BranchFits' /\ LinesAreTaken'
  BY DEF SuggestInv, BranchFits, LinesAreTaken
<1> QED
  BY <1>1, <1>2 DEF SuggestInv

\* A commit is added to the branch; what requests read of it stays as it was.
LEMMA BranchGrows ==
  ASSUME SuggestInv, Len(commits) < MaxSuggested, NEW new \in BranchCommits, Len(new.file) >= 1,
         commits' = Append(commits, new), UNCHANGED comments, DOMAIN apply' = Appliers,
         \A a \in Appliers : ApplyFits(apply'[a], commits),
         new.by # None => TakesOneLine(commits[Len(commits)].file, new.file, new.by)
  PROVE  SuggestInv'
<1>0. commits \in Seq(BranchCommits) /\ Len(commits) \in Nat /\ Len(commits) >= 1 /\ MaxSuggested \in Nat
  BY ForgeAssumption DEF SuggestInv, BranchFits, SuggestionsAssumption
<1>1. /\ Len(commits') = Len(commits) + 1 /\ commits' \in Seq(BranchCommits)
      /\ \A k \in 1..Len(commits) : commits'[k] = commits[k]
      /\ commits'[Len(commits')] = new
  BY <1>0
<1>2. BranchFits'
  <2>1. ASSUME NEW k \in 1..Len(commits') PROVE Len(commits'[k].file) >= 1
    <3>1. CASE k = Len(commits')
      BY <1>1, <3>1
    <3>2. CASE k # Len(commits')
      <4>1. k \in 1..Len(commits)
        BY <1>0, <1>1, <3>2
      <4> QED
        BY <1>1, <4>1 DEF SuggestInv, BranchFits
    <3> QED
      BY <3>1, <3>2
  <2>2. Len(commits') \in 1..MaxSuggested
    BY <1>0, <1>1
  <2> QED
    BY <1>1, <2>1, <2>2 DEF BranchFits
<1>3. LinesAreTaken'
  <2> SUFFICES ASSUME NEW k \in 2..Len(commits'), commits'[k].by # None
               PROVE  TakesOneLine(commits'[k - 1].file, commits'[k].file, commits'[k].by)
    BY DEF LinesAreTaken
  <2>1. CASE k = Len(commits')
    <3>1. k - 1 = Len(commits) /\ k - 1 \in 1..Len(commits)
      BY <1>0, <1>1, <2>1
    <3> QED
      BY <1>1, <2>1, <3>1
  <2>2. CASE k # Len(commits')
    <3>1. k \in 2..Len(commits) /\ k \in 1..Len(commits) /\ k - 1 \in 1..Len(commits)
      BY <1>0, <1>1, <2>2
    <3> QED
      BY <1>1, <3>1 DEF SuggestInv, LinesAreTaken
  <2> QED
    BY <2>1, <2>2
<1>4. ASSUME NEW a \in Appliers PROVE ApplyFits(apply'[a], commits')
  <2>1. 1..Len(commits) \subseteq 1..Len(commits')
    BY <1>0, <1>1
  <2> QED
    BY <1>1, <2>1 DEF ApplyFits
<1> QED
  BY <1>2, <1>3, <1>4 DEF SuggestInv

LEMMA SuggestNext == SuggestInv /\ [L!Next]_L!suggestionVars => SuggestInv'
<1> SUFFICES ASSUME SuggestInv, [L!Next]_L!suggestionVars PROVE SuggestInv'
  OBVIOUS
<1>0. /\ BranchFits /\ commits \in Seq(BranchCommits) /\ Len(commits) \in Nat /\ Len(commits) >= 1 /\ L!Tip = Len(commits)
      /\ DOMAIN apply = Appliers /\ \A a \in Appliers : ApplyFits(apply[a], commits)
  BY DEF SuggestInv, BranchFits, L!Tip
<1> DEFINE i == [at |-> "idle"]
<1>i. ApplyFits(i, commits)
  BY DEF ApplyFits
<1> HIDE DEF i
<1>1. ASSUME L!Push PROVE SuggestInv'
  <2> DEFINE old == commits[Len(commits)].file
  <2>0. old \in Seq(Lines) /\ Len(old) >= 1 /\ Len(old) \in Nat /\ L!FileAt(L!Tip) = old
    <3>1. Len(commits) \in 1..Len(commits)
      BY <1>0
    <3> QED
      BY <1>0, <3>1, BranchFiles DEF L!FileAt
  <2>1. /\ Len(commits) < MaxSuggested /\ UNCHANGED <<comments, apply>>
    BY <1>0, <1>1 DEF L!Push
  <2>2. ASSUME NEW new \in Seq(Lines), Len(new) >= 1, L!Commit(new, None) PROVE SuggestInv'
    <3> DEFINE c == [file |-> new, parent |-> Len(commits), by |-> None]
    <3>1. c \in BranchCommits /\ Len(c.file) >= 1 /\ c.by = None /\ commits' = Append(commits, c)
      BY <1>0, <2>2 DEF BranchCommits, L!Commit
    <3> HIDE DEF c
    <3> QED
      BY <1>0, <2>1, <3>1, BranchGrows
  <2> HIDE DEF old
  <2>3. ASSUME NEW l \in Lines PROVE <<l>> \o old \in Seq(Lines) /\ Len(<<l>> \o old) >= 1
    <3>1. <<l>> \in Seq(Lines) /\ Len(<<l>>) = 1
      OBVIOUS
    <3>2. <<l>> \o old \in Seq(Lines) /\ Len(<<l>> \o old) = Len(<<l>>) + Len(old)
      BY <2>0, <3>1, ConcatProperties
    <3> QED
      BY <2>0, <3>1, <3>2
  <2>4. Len(old) > 1 => SubSeq(old, 1, Len(old) - 1) \in Seq(Lines) /\ Len(SubSeq(old, 1, Len(old) - 1)) >= 1
    <3>1. \A k \in 1..(Len(old) - 1) : old[k] \in Lines
      BY <2>0
    <3>2. 1 \in Int /\ Len(old) - 1 \in Int
      BY <2>0
    <3>3. /\ SubSeq(old, 1, Len(old) - 1) \in Seq(Lines)
          /\ Len(SubSeq(old, 1, Len(old) - 1)) = IF 1 <= Len(old) - 1 THEN (Len(old) - 1) - 1 + 1 ELSE 0
      BY <3>1, <3>2, SubSeqProperties
    <3> QED
      BY <2>0, <3>3
  <2>5. ASSUME NEW k \in DOMAIN old, NEW l \in Lines
        PROVE  [old EXCEPT ![k] = l] \in Seq(Lines) /\ Len([old EXCEPT ![k] = l]) >= 1
    BY <2>0
  <2>6. \/ \E l \in Lines : L!Commit(<<l>> \o old, None)
        \/ Len(old) > 1 /\ L!Commit(SubSeq(old, 1, Len(old) - 1), None)
        \/ \E k \in DOMAIN old : \E l \in Lines : L!Commit([old EXCEPT ![k] = l], None)
    BY <1>1, <2>0 DEF L!Push
  <2> QED
    BY <2>2, <2>3, <2>4, <2>5, <2>6
<1>2. ASSUME L!BranchIsDeleted PROVE SuggestInv'
  BY <1>2 DEF L!BranchIsDeleted, SuggestInv, BranchFits, LinesAreTaken
<1>3. ASSUME NEW c \in Comments, L!add_comment(c) \/ L!delete_comment(c) PROVE SuggestInv'
  <2>1. /\ \A x \in Comments : comments'[x] \in L!CommentRows \union {None}
        /\ DOMAIN comments' = Comments /\ UNCHANGED <<commits, apply>>
    BY <1>3 DEF SuggestInv, L!add_comment, L!delete_comment
  <2> QED
    BY <2>1 DEF SuggestInv, BranchFits, LinesAreTaken
<1>4. ASSUME NEW a \in Appliers, NEW c \in Comments, L!apply_suggestion(a, c) PROVE SuggestInv'
  <2> DEFINE q == [at |-> "resolve", comment |-> comments[c]]
  <2>1. apply' = [apply EXCEPT ![a] = q] /\ comments[c] # None /\ UNCHANGED <<commits, comments>>
    BY <1>4 DEF L!apply_suggestion
  <2>2. ApplyFits(q, commits)
    BY <2>1 DEF ApplyFits, SuggestInv
  <2> HIDE DEF q
  <2> QED
    BY <2>1, <2>2, ApplyGoesOn
<1>5. ASSUME NEW a \in Appliers, L!resolve(a) PROVE SuggestInv'
  <2> DEFINE q == [at |-> "read", comment |-> apply[a].comment, tip |-> Len(commits)]
  <2>1. /\ apply[a].at = "resolve" /\ UNCHANGED <<commits, comments>>
        /\ apply' = [apply EXCEPT ![a] = i] \/ apply' = [apply EXCEPT ![a] = q]
    BY <1>0, <1>5 DEF L!resolve, L!Stands, L!Over, L!Idle, i
  <2>2. ApplyFits(q, commits)
    BY <1>0, <2>1 DEF ApplyFits
  <2> HIDE DEF q
  <2> QED
    BY <1>i, <2>1, <2>2, ApplyGoesOn
<1>6. ASSUME NEW a \in Appliers, L!read_blob(a) PROVE SuggestInv'
  <2> DEFINE old == commits[apply[a].tip].file
             said == apply[a].comment
             q == [at |-> "commit", comment |-> said, tip |-> apply[a].tip, file |-> L!Replaced(old, said)]
  <2>1. /\ apply[a].at = "read" /\ UNCHANGED <<commits, comments>>
        /\ \/ apply' = [apply EXCEPT ![a] = i]
           \/ ~(said.line > Len(old)) /\ apply' = [apply EXCEPT ![a] = q]
    BY <1>6 DEF L!read_blob, L!Stands, L!Over, L!Idle, L!FileAt, i
  <2>2. said \in L!CommentRows /\ apply[a].tip \in 1..Len(commits)
    BY <1>0, <2>1 DEF ApplyFits
  <2>3. said.line \in Nat /\ said.line >= 1 /\ Len(old) \in Nat
    <3>1. Len(old) \in Nat
      BY <1>0, <2>2, BranchFiles
    <3>2. said.line \in 1..MaxLines /\ MaxLines \in Nat
      BY <2>2, ForgeAssumption DEF L!CommentRows, SuggestionsAssumption
    <3> QED
      BY <3>1, <3>2
  <2>4. ~(said.line > Len(old)) => ApplyFits(q, commits)
    BY <2>2, <2>3 DEF ApplyFits
  <2> HIDE DEF q
  <2> QED
    BY <1>i, <2>1, <2>4, ApplyGoesOn
<1>7. ASSUME NEW a \in Appliers, L!commit_files(a) PROVE SuggestInv'
  <2> DEFINE said == apply[a].comment
             new == [file |-> apply[a].file, parent |-> Len(commits), by |-> said]
  <2>1. apply[a].at = "commit" /\ apply' = [apply EXCEPT ![a] = i] /\ UNCHANGED comments
    BY <1>7 DEF L!commit_files, L!Stands, L!Over, L!Idle, i
  <2>2. CASE UNCHANGED commits
    BY <1>i, <2>1, <2>2, ApplyGoesOn
  <2>3. CASE Len(commits) = apply[a].tip /\ Len(commits) < MaxSuggested /\ commits' = Append(commits, new)
    <3> DEFINE old == commits[Len(commits)].file
    <3>1. /\ said \in L!CommentRows /\ said.line \in 1..Len(old) /\ apply[a].file = L!Replaced(old, said)
          /\ old \in Seq(Lines)
      <4>1. Len(commits) \in 1..Len(commits) /\ ApplyFits(apply[a], commits)
        BY <1>0
      <4>2. old \in Seq(Lines)
        BY <1>0, <4>1, BranchFiles
      <4> QED
        BY <2>1, <2>3, <4>1, <4>2 DEF ApplyFits
    <3>2. /\ apply[a].file \in Seq(Lines) /\ Len(apply[a].file) >= 1
          /\ TakesOneLine(old, apply[a].file, said)
      BY <3>1, OneLineIsReplaced
    <3>3. /\ new \in BranchCommits /\ Len(new.file) >= 1 /\ TakesOneLine(old, new.file, new.by)
      BY <1>0, <3>1, <3>2 DEF BranchCommits
    <3>4. DOMAIN apply' = Appliers /\ \A b \in Appliers : ApplyFits(apply'[b], commits)
      BY <1>0, <1>i, <2>1
    <3> HIDE DEF new
    <3> QED
      BY <2>1, <2>3, <3>3, <3>4, BranchGrows
  <2>4. L!Tip >= MaxSuggested \/ Len(commits) < MaxSuggested
    BY <1>0, ForgeAssumption DEF SuggestionsAssumption
  <2> QED
    BY <1>0, <1>7, <2>2, <2>3, <2>4 DEF L!commit_files, L!Commit
<1>8. CASE UNCHANGED L!suggestionVars
  BY <1>8 DEF L!suggestionVars, SuggestInv, BranchFits, LinesAreTaken
<1> QED
  BY <1>1, <1>2, <1>3, <1>4, <1>5, <1>6, <1>7, <1>8 DEF L!Next

(* OneLineAtATime: a suggestion that is taken changes its line and no      *)
(* other, whatever was pushed or taken while it was                        *)
(* (collaboration/suggestions.py apply, git.py commit_files).              *)
THEOREM SuggestionsTakeALine == L!Spec => [](L!TypeOK /\ L!OneLineAtATime)
<1>1. SuggestInv => L!TypeOK /\ L!OneLineAtATime
  BY DEF SuggestInv, BranchFits, LinesAreTaken, TakesOneLine, L!TypeOK, L!OneLineAtATime, L!Tip, L!FileAt
<1> QED
  BY <1>1, SuggestInit, SuggestNext, PTL DEF L!Spec
-----------------------------------------------------------------------------
(* Projects: made and removed.                                             *)

Removers == {"sweep", "row", "rmtree"}
Makers   == {"init", "guard"}
Users    == {"git", "known", "place", "keep"}
Unrowed  == {"anew", "flush"}

AtMostOne(S) == S = {} \/ \E p \in S : S = {p}
CallerFits(q, known) ==
    /\ "at" \in DOMAIN q /\ q.at \in Removers \union Makers \union Users \union Unrowed \union {"idle"}
    /\ q.at # "idle" => "project" \in DOMAIN q /\ q.project \in known
ProjectSets ==
    /\ made \subseteq Projects /\ row \subseteq made /\ dropped \subseteq made /\ files \subseteq made
    /\ AtMostOne(row) /\ repo \in [Projects -> {"none", "bare", "guarded"}]
CallersFit == DOMAIN caller = Callers /\ \A c \in Callers : CallerFits(caller[c], made)

\* Who removes a project that nobody else was using has it to himself,
Unshared == \A c \in Callers, d \in Callers :
    caller[c].at \in Removers /\ caller[d].at # "idle" /\ caller[c].project = caller[d].project => caller[c].project \in met \/ c = d
\* and whoever uses such a project finds its row until the removal took it.
StandsFor(q, rowsNow) == q.at \notin Unrowed /\ (q.project \in rowsNow <=> q.at # "rmtree")
RowStands == \A c \in Callers : caller[c].at # "idle" => caller[c].project \in met \/ StandsFor(caller[c], row)
HasRepository == \A p \in row : \/ p \in met \union halfMade \/ repo[p] # "none"
                                \/ \E c \in Callers : caller[c].at = "init" /\ caller[c].project = p
NothingLeft == \A p \in dropped : \/ p \in met
                                  \/ /\ p \notin row /\ repo[p] = "none"
                                     /\ \A c \in Callers : caller[c].at # "idle" => caller[c].project # p

ProjectsInv == CallersFit /\ ProjectSets /\ Unshared /\ RowStands /\ HasRepository /\ NothingLeft

LEMMA ProjectsInit == J!Init => ProjectsInv
<1> SUFFICES ASSUME J!Init PROVE ProjectsInv
  OBVIOUS
<1>1. /\ row = {} /\ repo = [p \in Projects |-> "none"] /\ files = {} /\ made = {} /\ dropped = {}
      /\ DOMAIN caller = Callers /\ \A c \in Callers : caller[c] = [at |-> "idle"]
  BY DEF J!Init, J!Idle
<1>2. \A c \in Callers : CallerFits(caller[c], made) /\ caller[c].at = "idle" /\ caller[c].at \notin Removers
  BY <1>1 DEF CallerFits, Removers
<1>3. CallersFit /\ ProjectSets
  BY <1>1, <1>2 DEF CallersFit, ProjectSets, AtMostOne
<1> QED
  BY <1>1, <1>2, <1>3 DEF ProjectsInv, Unshared, RowStands, HasRepository, NothingLeft

\* What a step by which c comes to be at q owes to the others.
Shares(c, q) == q.at # "idle" =>
    \A d \in Callers \ {c} : caller[d].at # "idle" /\ caller[d].project = q.project =>
        q.project \in met' \/ (q.at \notin Removers /\ caller[d].at \notin Removers)
Finds(q) == q.at # "idle" => q.project \in met' \/ StandsFor(q, row')
OthersFind(c) == \A d \in Callers \ {c} : caller[d].at # "idle" =>
    caller[d].project \in met' \/ (caller[d].project \in row' <=> caller[d].project \in row)
RowsHave(c, q) == \A p \in row' :
    \/ p \in met' \union halfMade' \/ repo'[p] # "none" \/ (q.at = "init" /\ q.project = p)
    \/ p \in row /\ repo'[p] = repo[p] /\ ~(caller[c].at = "init" /\ caller[c].project = p)
DroppedHave(c, q) == \A p \in dropped' :
    \/ p \in met'
    \/ p \in dropped /\ p \notin row' /\ repo'[p] = repo[p] /\ (q.at # "idle" => q.project # p)
    \/ /\ p \notin row' /\ repo'[p] = "none" /\ (q.at # "idle" => q.project # p)
       /\ \A d \in Callers \ {c} : caller[d].at # "idle" => caller[d].project # p
Grow == made \subseteq made' /\ met \subseteq met' /\ halfMade \subseteq halfMade'

LEMMA CallerStep ==
  ASSUME ProjectsInv, NEW c \in Callers, NEW q, caller' = [caller EXCEPT ![c] = q], CallerFits(q, made'),
         ProjectSets', Grow, Shares(c, q), Finds(q), OthersFind(c), RowsHave(c, q), DroppedHave(c, q)
  PROVE  ProjectsInv'
<1>0. /\ DOMAIN caller' = Callers /\ caller'[c] = q /\ \A d \in Callers \ {c} : caller'[d] = caller[d]
      /\ \A d \in Callers : CallerFits(caller[d], made)
  BY DEF ProjectsInv, CallersFit
<1>1. CallersFit'
  BY <1>0 DEF CallersFit, CallerFits, Grow
<1>2. Unshared'
  <2> SUFFICES ASSUME NEW x \in Callers, NEW y \in Callers, caller'[x].at \in Removers, caller'[y].at # "idle",
                      caller'[x].project = caller'[y].project, x # y
               PROVE  caller'[x].project \in met'
    BY DEF Unshared
  <2>1. CASE x = c \/ y = c
    BY <1>0, <2>1 DEF Removers, Shares
  <2>2. CASE x # c /\ y # c
    BY <1>0, <2>2 DEF ProjectsInv, Unshared, Grow
  <2> QED
    BY <2>1, <2>2
<1>3. RowStands'
  BY <1>0 DEF ProjectsInv, RowStands, StandsFor, Grow, Finds, OthersFind
<1>4. HasRepository'
  <2> SUFFICES ASSUME NEW p \in row', p \notin met' \union halfMade', repo'[p] = "none"
               PROVE  \E d \in Callers : caller'[d].at = "init" /\ caller'[d].project = p
    BY DEF HasRepository
  <2>0. (q.at = "init" /\ q.project = p) \/ (p \in row /\ repo'[p] = repo[p] /\ ~(caller[c].at = "init" /\ caller[c].project = p))
    BY DEF RowsHave
  <2>1. CASE q.at = "init" /\ q.project = p
    BY <1>0, <2>1
  <2>2. CASE p \in row /\ repo'[p] = repo[p] /\ ~(caller[c].at = "init" /\ caller[c].project = p)
    <3>1. PICK d \in Callers : caller[d].at = "init" /\ caller[d].project = p
      BY <2>2 DEF ProjectsInv, HasRepository, Grow
    <3> QED
      BY <1>0, <2>2, <3>1
  <2> QED
    BY <2>0, <2>1, <2>2
<1>5. NothingLeft'
  BY <1>0 DEF ProjectsInv, NothingLeft, Grow, DroppedHave
<1> QED
  BY <1>1, <1>2, <1>3, <1>4, <1>5 DEF ProjectsInv

\* Somebody finds the row of a project, and begins to use it.
LEMMA CallerBegins ==
  ASSUME ProjectsInv, NEW c \in Callers, NEW p \in Projects, NEW s \in {"sweep", "git", "place"}, J!Begins(c, p, s),
         p \in row, UNCHANGED <<row, repo, files, made, dropped, halfMade>>
  PROVE  ProjectsInv'
<1> DEFINE q == [at |-> s, project |-> p]
<1>1. /\ caller' = [caller EXCEPT ![c] = q] /\ caller[c].at = "idle" /\ met \subseteq met'
      /\ J!Removing(p) => p \in met'
      /\ s = "sweep" /\ J!On(p) # {} => p \in met'
  BY DEF J!Begins, J!In
<1>2. q.at = s /\ q.project = p /\ {"at", "project"} \subseteq DOMAIN q
  OBVIOUS
<1> HIDE DEF q
<1>3. p \in made /\ ProjectSets' /\ s # "idle" /\ s # "init"
  BY DEF ProjectsInv, ProjectSets
<1>4. CallerFits(q, made') /\ StandsFor(q, row')
  BY <1>2, <1>3 DEF CallerFits, StandsFor, Removers, Makers, Users, Unrowed
<1>5. ASSUME NEW d \in Callers \ {c}, caller[d].at # "idle", caller[d].project = p, p \notin met'
      PROVE  s \notin Removers /\ caller[d].at \notin Removers
  <2>1. d \in J!On(p)
    BY <1>5 DEF J!On, J!In, J!Of
  <2> QED
    BY <1>1, <1>5, <2>1 DEF J!Removing, Removers
<1>6. DroppedHave(c, q)
  BY <1>1, <1>2 DEF ProjectsInv, NothingLeft, DroppedHave
<1>7. Shares(c, q)
  BY <1>2, <1>5 DEF Shares
<1>8. RowsHave(c, q) /\ Grow /\ OthersFind(c) /\ Finds(q)
  BY <1>1, <1>4 DEF RowsHave, Grow, OthersFind, Finds
<1> QED
  BY <1>1, <1>3, <1>4, <1>6, <1>7, <1>8, CallerStep

\* A request goes on or leaves, and neither row nor repository changes.
LEMMA CallerMoves ==
  ASSUME ProjectsInv, NEW c \in Callers, NEW q, caller' = [caller EXCEPT ![c] = q], CallerFits(q, made),
         caller[c].at # "idle", q.at = "idle" \/ q.project = caller[c].project,
         UNCHANGED <<row, repo, made, dropped, met>>, halfMade \subseteq halfMade', files' \subseteq made,
         caller[c].at = "init" => caller[c].project \in halfMade',
         q.at \in Removers => caller[c].at \in Removers,
         q.at # "idle" => q.project \in met \/ StandsFor(q, row)
  PROVE  ProjectsInv'
<1>1. ProjectSets'
  BY DEF ProjectsInv, ProjectSets
<1>2. ASSUME q.at # "idle", NEW d \in Callers \ {c}, caller[d].at # "idle", caller[d].project = q.project, q.project \notin met
      PROVE  q.at \notin Removers /\ caller[d].at \notin Removers
  BY <1>2 DEF ProjectsInv, Unshared
<1>3. DroppedHave(c, q)
  BY DEF ProjectsInv, NothingLeft, DroppedHave
<1>4. Shares(c, q)
  BY <1>2 DEF Shares
<1>5. RowsHave(c, q) /\ Grow /\ OthersFind(c)
  BY DEF RowsHave, Grow, OthersFind
<1>6. CallerFits(q, made') /\ Finds(q)
  BY DEF StandsFor, Finds
<1> QED
  BY <1>1, <1>3, <1>4, <1>5, <1>6, CallerStep
LEMMA ProjectIsMade ==
  ASSUME ProjectsInv, NEW c \in Callers, NEW p \in Projects, J!create_project(c, p) PROVE ProjectsInv'
<1> DEFINE q == [at |-> "init", project |-> p]
<1>1. /\ caller' = [caller EXCEPT ![c] = q] /\ caller[c].at = "idle" /\ met \subseteq met' /\ p \notin made
      /\ row = {} /\ row' = {p} /\ made' = made \union {p} /\ UNCHANGED <<repo, files, dropped, halfMade>>
  BY DEF J!create_project, J!create, J!Begins, J!In
<1>2. q.at = "init" /\ q.project = p /\ {"at", "project"} \subseteq DOMAIN q
  OBVIOUS
<1> HIDE DEF q
<1>3. \A d \in Callers : caller[d].at # "idle" => caller[d].project \in made
  BY DEF ProjectsInv, CallersFit, CallerFits
<1>4. ProjectSets'
  BY <1>1 DEF ProjectsInv, ProjectSets, AtMostOne
<1>5. CallerFits(q, made') /\ Grow
  BY <1>1, <1>2 DEF CallerFits, Makers, Grow
<1>6. Finds(q) /\ RowsHave(c, q)
  BY <1>1, <1>2 DEF Finds, StandsFor, Unrowed, RowsHave
<1>7. Shares(c, q) /\ OthersFind(c)
  BY <1>1, <1>2, <1>3 DEF Shares, OthersFind
<1>8. DroppedHave(c, q)
  BY <1>1, <1>2 DEF ProjectsInv, ProjectSets, NothingLeft, DroppedHave
<1> QED
  BY <1>1, <1>4, <1>5, <1>6, <1>7, <1>8, CallerStep

LEMMA RepositoryIsMade ==
  ASSUME ProjectsInv, NEW c \in Callers, J!create_repository(c) \/ J!write_protection(c) PROVE ProjectsInv'
<1> DEFINE q == [caller[c] EXCEPT !.at = "guard"]
           p == caller[c].project
           i == [at |-> "idle"]
<1>1. /\ UNCHANGED <<row, files, made, dropped, met, halfMade>>
      /\ \/ caller[c].at = "init" /\ repo' = [repo EXCEPT ![p] = "bare"] /\ caller' = [caller EXCEPT ![c] = q]
         \/ /\ caller[c].at = "guard" /\ caller' = [caller EXCEPT ![c] = i]
            /\ repo' = IF repo[p] = "none" THEN repo ELSE [repo EXCEPT ![p] = "guarded"]
  <2>1. CASE J!create_repository(c)
    BY <2>1 DEF J!create_repository, J!In, J!Of, J!Goes, ProjectsInv, CallersFit
  <2>2. CASE J!write_protection(c)
    BY <2>2 DEF J!write_protection, J!In, J!Of, J!Leaves, J!Idle
  <2> QED
    BY <2>1, <2>2
<1>2. /\ p \in Projects /\ p \in made /\ q.at = "guard" /\ q.project = p /\ {"at", "project"} \subseteq DOMAIN q
      /\ i.at = "idle" /\ "at" \in DOMAIN i /\ repo \in [Projects -> {"none", "bare", "guarded"}]
  BY <1>1 DEF ProjectsInv, ProjectSets, CallersFit, CallerFits
<1> HIDE DEF q, i
<1>3. ProjectSets' /\ Grow /\ OthersFind(c)
  BY <1>1, <1>2 DEF ProjectsInv, ProjectSets, Grow, OthersFind
<1>4. p \in met \/ p \in row
  BY <1>1 DEF ProjectsInv, RowStands, StandsFor
<1>5. p \in met \/ p \notin dropped
  BY <1>1 DEF ProjectsInv, NothingLeft
<1>6. \A x \in Projects : x # p => repo'[x] = repo[x]
  BY <1>1, <1>2
<1>7. row' \subseteq Projects /\ dropped' \subseteq Projects
  BY <1>3 DEF ProjectSets
<1>8. CASE caller[c].at = "init"
  <2>1. caller' = [caller EXCEPT ![c] = q] /\ repo'[p] = "bare"
    BY <1>1, <1>2, <1>8
  <2>2. CallerFits(q, made') /\ Finds(q)
    BY <1>1, <1>2, <1>4 DEF CallerFits, Makers, Finds, StandsFor, Unrowed
  <2>3. Shares(c, q)
    BY <1>1, <1>2, <1>8 DEF Shares, ProjectsInv, Unshared, Removers
  <2>4. RowsHave(c, q)
    BY <1>1, <1>2, <1>6, <1>7, <2>1 DEF RowsHave
  <2>5. DroppedHave(c, q)
    BY <1>1, <1>2, <1>5, <1>6, <1>7 DEF DroppedHave, ProjectsInv, NothingLeft
  <2> QED
    BY <1>3, <2>1, <2>2, <2>3, <2>4, <2>5, CallerStep
<1>9. CASE caller[c].at = "guard"
  <2>1. caller' = [caller EXCEPT ![c] = i] /\ (repo'[p] = repo[p] \/ repo'[p] # "none")
    BY <1>1, <1>2, <1>9
  <2>2. CallerFits(i, made') /\ Finds(i) /\ Shares(c, i)
    BY <1>2 DEF CallerFits, Finds, Shares
  <2>3. RowsHave(c, i)
    BY <1>1, <1>2, <1>6, <1>7, <1>9, <2>1 DEF RowsHave
  <2>4. DroppedHave(c, i)
    BY <1>1, <1>2, <1>5, <1>6, <1>7 DEF DroppedHave, ProjectsInv, NothingLeft
  <2> QED
    BY <1>3, <2>1, <2>2, <2>3, <2>4, CallerStep
<1> QED
  BY <1>1, <1>8, <1>9

LEMMA ProjectIsDeleted ==
  ASSUME ProjectsInv, NEW c \in Callers, J!delete(c) PROVE ProjectsInv'
<1> DEFINE q == [caller[c] EXCEPT !.at = "rmtree"]
           p == caller[c].project
           i == [at |-> "idle"]
<1>1. /\ UNCHANGED <<files, made, met, halfMade>>
      /\ \/ caller[c].at = "row" /\ row' = row \ {p} /\ caller' = [caller EXCEPT ![c] = q] /\ UNCHANGED <<repo, dropped>>
         \/ /\ caller[c].at = "rmtree" /\ repo' = [repo EXCEPT ![p] = "none"] /\ caller' = [caller EXCEPT ![c] = i]
            /\ dropped' = dropped \union {p} /\ UNCHANGED row
  BY DEF J!delete, J!In, J!Of, J!Goes, J!Leaves, J!Idle, ProjectsInv, CallersFit
<1>2. /\ p \in Projects /\ p \in made /\ q.at = "rmtree" /\ q.project = p /\ {"at", "project"} \subseteq DOMAIN q
      /\ i.at = "idle" /\ "at" \in DOMAIN i /\ repo \in [Projects -> {"none", "bare", "guarded"}]
      /\ caller[c].at \in Removers
  BY <1>1 DEF ProjectsInv, ProjectSets, CallersFit, CallerFits, Removers
<1> HIDE DEF q, i
<1>3. \A d \in Callers \ {c} : caller[d].at # "idle" /\ caller[d].project = p => p \in met
  BY <1>2 DEF ProjectsInv, Unshared
<1>4. ProjectSets' /\ Grow
  BY <1>1, <1>2 DEF ProjectsInv, ProjectSets, AtMostOne, Grow
<1>5. row \subseteq Projects /\ dropped \subseteq Projects
  BY DEF ProjectsInv, ProjectSets
<1>6. CASE caller[c].at = "row"
  <2>1. /\ caller' = [caller EXCEPT ![c] = q] /\ row' = row \ {p} /\ UNCHANGED <<repo, dropped, met>>
    BY <1>1, <1>6
  <2>2. CallerFits(q, made') /\ Finds(q) /\ Shares(c, q)
    BY <1>1, <1>2, <1>3, <2>1 DEF CallerFits, Removers, Finds, StandsFor, Unrowed, Shares
  <2>3. OthersFind(c) /\ RowsHave(c, q)
    BY <1>3, <1>6, <2>1 DEF OthersFind, RowsHave
  <2>4. DroppedHave(c, q)
    BY <1>2, <1>6, <2>1 DEF DroppedHave, ProjectsInv, NothingLeft
  <2> QED
    BY <1>4, <2>1, <2>2, <2>3, <2>4, CallerStep
<1>7. CASE caller[c].at = "rmtree"
  <2>1. /\ caller' = [caller EXCEPT ![c] = i] /\ dropped' = dropped \union {p} /\ UNCHANGED <<row, met>>
        /\ repo'[p] = "none" /\ \A x \in Projects : x # p => repo'[x] = repo[x]
    BY <1>1, <1>2, <1>7
  <2>2. p \in met \/ p \notin row
    BY <1>7 DEF ProjectsInv, RowStands, StandsFor
  <2>3. CallerFits(i, made') /\ Finds(i) /\ Shares(c, i) /\ OthersFind(c)
    BY <1>2, <2>1 DEF CallerFits, Finds, Shares, OthersFind
  <2>4. RowsHave(c, i)
    BY <1>5, <1>7, <2>1, <2>2 DEF RowsHave
  <2>5. DroppedHave(c, i)
    <3> SUFFICES ASSUME NEW x \in dropped', x \notin met'
                 PROVE  \/ x \in dropped /\ x \notin row' /\ repo'[x] = repo[x] /\ (i.at # "idle" => i.project # x)
                        \/ /\ x \notin row' /\ repo'[x] = "none" /\ (i.at # "idle" => i.project # x)
                           /\ \A d \in Callers \ {c} : caller[d].at # "idle" => caller[d].project # x
      BY DEF DroppedHave
    <3>1. CASE x = p
      BY <1>2, <1>3, <2>1, <2>2, <3>1
    <3>2. CASE x # p
      BY <1>2, <1>5, <2>1, <3>2 DEF ProjectsInv, NothingLeft
    <3> QED
      BY <3>1, <3>2
  <2> QED
    BY <1>4, <2>1, <2>3, <2>4, <2>5, CallerStep
<1> QED
  BY <1>1, <1>6, <1>7

\* A push to a project that was removed meanwhile puts a row back.
LEMMA ProjectComesBack ==
  ASSUME ProjectsInv, NEW c \in Callers, J!flush(c) PROVE ProjectsInv'
<1> DEFINE p == caller[c].project
           i == [at |-> "idle"]
<1>1. /\ caller[c].at = "flush" /\ caller' = [caller EXCEPT ![c] = i] /\ UNCHANGED <<repo, files, made, dropped, met, halfMade>>
      /\ row' = IF row = {} THEN {p} ELSE row
  BY DEF J!flush, J!In, J!Of, J!Leaves, J!Idle
<1>2. p \in made /\ p \in met /\ i.at = "idle" /\ "at" \in DOMAIN i
  BY <1>1 DEF ProjectsInv, CallersFit, CallerFits, RowStands, StandsFor, Unrowed
<1> HIDE DEF i
<1>3. ProjectSets' /\ Grow
  BY <1>1, <1>2 DEF ProjectsInv, ProjectSets, AtMostOne, Grow
<1>4. CallerFits(i, made') /\ Finds(i) /\ Shares(c, i)
  BY <1>2 DEF CallerFits, Finds, Shares
<1>5. OthersFind(c) /\ RowsHave(c, i)
  BY <1>1, <1>2 DEF OthersFind, RowsHave
<1>6. DroppedHave(c, i)
  BY <1>1, <1>2 DEF DroppedHave, ProjectsInv, NothingLeft
<1> QED
  BY <1>1, <1>3, <1>4, <1>5, <1>6, CallerStep

LEMMA ProjectsNext == ProjectsInv /\ [J!Next]_J!projectVars => ProjectsInv'
<1> SUFFICES ASSUME ProjectsInv, [J!Next]_J!projectVars PROVE ProjectsInv'
  OBVIOUS
<1> DEFINE i == [at |-> "idle"]
           Now(c, s) == [caller[c] EXCEPT !.at = s]
<1>0. /\ \A c \in Callers : CallerFits(caller[c], made)
      /\ i.at = "idle" /\ CallerFits(i, made) /\ files \subseteq made
  BY DEF ProjectsInv, CallersFit, ProjectSets, CallerFits
<1>n. ASSUME NEW c \in Callers, NEW s, caller[c].at # "idle", s \in Removers \union Users \union Unrowed
      PROVE  Now(c, s).at = s /\ Now(c, s).project = caller[c].project /\ CallerFits(Now(c, s), made)
  BY <1>0, <1>n DEF CallerFits
<1>g. ASSUME NEW c \in Callers, NEW s, caller[c].at # "idle", J!Goes(c, s) PROVE caller' = [caller EXCEPT ![c] = Now(c, s)]
  BY <1>g DEF J!Goes, ProjectsInv, CallersFit
<1>r. \A c \in Callers : caller[c].at # "idle" => caller[c].project \in met \/ StandsFor(caller[c], row)
  BY DEF ProjectsInv, RowStands
<1> HIDE DEF i, Now
<1>1. ASSUME NEW c \in Callers, NEW p \in Projects, J!create_project(c, p) PROVE ProjectsInv'
  BY <1>1, ProjectIsMade
<1>2. ASSUME NEW c \in Callers, NEW p \in Projects, J!delete_project(c, p) PROVE ProjectsInv'
  BY <1>2, CallerBegins, "sweep" \in {"sweep", "git", "place"} DEF J!delete_project, J!find
<1>3. ASSUME NEW c \in Callers, NEW p \in Projects, J!handle_session(c, p) PROVE ProjectsInv'
  BY <1>3, CallerBegins, "git" \in {"sweep", "git", "place"} DEF J!handle_session, J!find
<1>4. ASSUME NEW c \in Callers, NEW p \in Projects, J!upload(c, p) PROVE ProjectsInv'
  BY <1>4, CallerBegins, "place" \in {"sweep", "git", "place"} DEF J!upload, J!find
<1>5. ASSUME NEW c \in Callers, J!create_repository(c) \/ J!write_protection(c) PROVE ProjectsInv'
  BY <1>5, RepositoryIsMade
<1>6. ASSUME NEW c \in Callers, J!sweep(c) PROVE ProjectsInv'
  <2>1. /\ caller[c].at = "sweep" /\ J!Goes(c, "row") /\ files' \subseteq made /\ halfMade \subseteq halfMade'
        /\ UNCHANGED <<row, repo, made, dropped, met>>
    BY <1>0, <1>6 DEF J!sweep, J!In
  <2>2. Now(c, "row").at = "row" /\ Now(c, "row").project = caller[c].project /\ CallerFits(Now(c, "row"), made)
    BY <1>n, <2>1 DEF Removers
  <2>3. caller' = [caller EXCEPT ![c] = Now(c, "row")]
    BY <1>g, <2>1
  <2>4. Now(c, "row").project \in met \/ StandsFor(Now(c, "row"), row)
    BY <1>r, <2>1, <2>2 DEF StandsFor, Unrowed
  <2> QED
    BY <2>1, <2>2, <2>3, <2>4, CallerMoves DEF Removers
<1>7. ASSUME NEW c \in Callers, J!delete(c) PROVE ProjectsInv'
  BY <1>7, ProjectIsDeleted
<1>8. ASSUME NEW c \in Callers, caller[c].at # "idle", J!Leaves(c), UNCHANGED <<row, repo, made, dropped, met>>,
             halfMade \subseteq halfMade', files' \subseteq made,
             caller[c].at = "init" => caller[c].project \in halfMade'
      PROVE  ProjectsInv'
  <2>1. caller' = [caller EXCEPT ![c] = i]
    BY <1>8 DEF J!Leaves, J!Idle, i
  <2> QED
    BY <1>0, <1>8, <2>1, CallerMoves DEF Removers
<1>9. ASSUME NEW c \in Callers, NEW s \in {"known", "anew", "flush", "keep"}, caller[c].at \in {"git", "anew", "place"},
             J!Goes(c, s), UNCHANGED <<row, repo, made, dropped, met>>, halfMade' = halfMade, files' \subseteq made,
             caller[c].project \in met \/ (s \notin Unrowed /\ caller[c].at # "anew")
      PROVE  ProjectsInv'
  <2>1. Now(c, s).at = s /\ Now(c, s).project = caller[c].project /\ CallerFits(Now(c, s), made)
    BY <1>n, <1>9 DEF Users, Unrowed
  <2>2. caller' = [caller EXCEPT ![c] = Now(c, s)]
    BY <1>g, <1>9
  <2>3. Now(c, s).project \in met \/ StandsFor(Now(c, s), row)
    BY <1>r, <1>9, <2>1 DEF StandsFor, Unrowed
  <2>4. halfMade \subseteq halfMade' /\ caller[c].at # "idle" /\ caller[c].at # "init" /\ Now(c, s).at \notin Removers
    BY <1>9, <2>1 DEF Removers
  <2> QED
    BY <1>9, <2>1, <2>2, <2>3, <2>4, CallerMoves
<1>10. ASSUME NEW c \in Callers, J!merges(c) PROVE ProjectsInv'
  <2>1. /\ caller[c].at = "git" /\ UNCHANGED <<row, repo, made, dropped, met>> /\ halfMade' = halfMade /\ files' \subseteq made
        /\ J!Leaves(c) \/ (J!Goes(c, "known") /\ caller[c].project \in row) \/ (J!Goes(c, "anew") /\ caller[c].project \notin row)
    BY <1>0, <1>10 DEF J!merges, J!In, J!Of
  <2>2. caller[c].project \in met \/ caller[c].project \in row
    BY <1>r, <2>1 DEF StandsFor
  <2>3. CASE J!Leaves(c)
    BY <1>8, <2>1, <2>3
  <2>4. CASE J!Goes(c, "known")
    BY <1>9, <2>1, <2>4 DEF Unrowed
  <2>5. CASE J!Goes(c, "anew") /\ caller[c].project \notin row
    BY <1>9, <2>1, <2>2, <2>5
  <2> QED
    BY <2>1, <2>3, <2>4, <2>5
<1>11. ASSUME NEW c \in Callers, J!after_push(c) PROVE ProjectsInv'
  <2>1. /\ UNCHANGED <<row, repo, made, dropped, met>> /\ halfMade' = halfMade /\ files' \subseteq made
        /\ caller[c].at \in {"known", "anew"} /\ (J!Leaves(c) \/ (caller[c].at = "anew" /\ J!Goes(c, "flush")))
    BY <1>0, <1>11 DEF J!after_push, J!In
  <2>2. caller[c].at = "anew" => caller[c].project \in met
    BY <1>r DEF StandsFor, Unrowed
  <2>3. CASE J!Leaves(c)
    BY <1>8, <2>1, <2>3
  <2>4. CASE caller[c].at = "anew" /\ J!Goes(c, "flush")
    BY <1>9, <2>1, <2>2, <2>4
  <2> QED
    BY <2>1, <2>3, <2>4
<1>12. ASSUME NEW c \in Callers, J!flush(c) PROVE ProjectsInv'
  BY <1>12, ProjectComesBack
<1>13. ASSUME NEW c \in Callers, J!place(c) PROVE ProjectsInv'
  <2>1. /\ UNCHANGED <<row, repo, made, dropped, met>> /\ halfMade' = halfMade
        /\ \/ caller[c].at = "place" /\ J!Goes(c, "keep") /\ files' = files \union {caller[c].project}
           \/ caller[c].at = "keep" /\ J!Leaves(c) /\ files' = files
    BY <1>13 DEF J!place, J!In, J!Of
  <2>2. files' \subseteq made
    BY <1>0, <2>1 DEF CallerFits
  <2>3. CASE caller[c].at = "keep" /\ J!Leaves(c)
    BY <1>8, <2>1, <2>2, <2>3
  <2>4. CASE caller[c].at = "place" /\ J!Goes(c, "keep")
    BY <1>9, <2>1, <2>2, <2>4 DEF Unrowed
  <2> QED
    BY <2>1, <2>3, <2>4
<1>14. ASSUME NEW c \in Callers, J!Cut(c) PROVE ProjectsInv'
  BY <1>0, <1>8, <1>14 DEF J!Cut, J!In, J!Of
<1>15. CASE UNCHANGED J!projectVars
  BY <1>15 DEF J!projectVars, ProjectsInv, CallersFit, ProjectSets, Unshared, RowStands, HasRepository, NothingLeft
<1> QED
  BY <1>1, <1>2, <1>3, <1>4, <1>5, <1>6, <1>7, <1>10, <1>11, <1>12, <1>13, <1>14, <1>15 DEF J!Next

(* RowHasRepository: a project that has a row has its repository, and one  *)
(* whose removal was answered has neither, however removals are cut off,   *)
(* unless its making was cut off or others used it when it was removed     *)
(* (projects/service.py create and delete, ssh/server.py).                 *)
THEOREM ProjectsAreWhole == J!Spec => [](J!TypeOK /\ J!RowHasRepository)
<1>1. AtMostOne(row) => Cardinality(row) <= 1
  <2>1. row = {} => Cardinality(row) <= 1
    BY FS_EmptySet
  <2>2. ASSUME NEW p, row = {p} PROVE Cardinality(row) <= 1
    <3>1. Cardinality({p}) = 1
      BY FS_Singleton
    <3> QED
      BY <2>2, <3>1
  <2> QED
    BY <2>1, <2>2 DEF AtMostOne
<1>2. ProjectsInv => J!TypeOK
  <2>1. J!Cardinality(row) = Cardinality(row)
    BY DEF J!Cardinality, Cardinality
  <2> QED
    BY <1>1, <2>1 DEF ProjectsInv, ProjectSets, CallersFit, CallerFits, J!TypeOK, J!In, J!Of
<1>3. ProjectsInv => J!RowHasRepository
  BY DEF ProjectsInv, HasRepository, NothingLeft, J!RowHasRepository, J!On, J!In, J!Of
<1> QED
  BY <1>2, <1>3, ProjectsInit, ProjectsNext, PTL DEF J!Spec
-----------------------------------------------------------------------------
(* Templates.                                                              *)

Busy   == {"make", "copy", "count"}
Over   == {"taken", "failed", "cut"}
By(r)  == {t \in Takers : taker[t].at = "taken" /\ taker[t].read.row = r}

TakerFits(q, last) ==
    /\ "at" \in DOMAIN q /\ q.at \in Busy \union Over \union {"idle"}
    /\ q.at # "idle" => "read" \in DOMAIN q /\ q.read \in K!Offerings /\ q.read.row <= last
TakersFit == DOMAIN taker = Takers /\ \A t \in Takers : TakerFits(taker[t], rows)
OfferFits == rows \in 0..MaxRows /\ (offering # Nil => offering \in K!Offerings /\ offering.row = rows)

\* The count that was read is never ahead of those who took: they only become more.
Counts(q) == q.at \in Busy => q.read.taken <= Cardinality(By(q.read.row))
Counted ==
    /\ \A t \in Takers : Counts(taker[t])
    /\ offering # Nil => /\ offering.taken <= Cardinality(By(offering.row))
                         /\ By(offering.row) # {} => offering.taken > 0

CopyFits(q, m, h, now) ==
    /\ q.at \in Busy => now \in h
    /\ q.at = "copy" => m \in {"empty", "own"}
    /\ q.at \in {"count", "taken"} /\ q.read.kind = "template" => m = "own" \/ m \in h \/ (m = "empty" /\ Nil \in h)
CopiesFit ==
    /\ copy \in [Takers -> Tips \union {Nil, "empty", "own", "app"}] /\ seen \in [Takers -> SUBSET (Tips \union {Nil})]
    /\ source.tip \in Tips \union {Nil}
    /\ \A t \in Takers : CopyFits(taker[t], copy[t], seen[t], source.tip)

TemplateInv == TakersFit /\ OfferFits /\ Counted /\ CopiesFit

LEMMA TemplateInit == K!Init => TemplateInv
<1> SUFFICES ASSUME K!Init PROVE TemplateInv
  OBVIOUS
<1>1. /\ offering = Nil /\ rows = 0 /\ source.tip = Nil /\ DOMAIN taker = Takers /\ seen = [t \in Takers |-> {}]
      /\ copy = [t \in Takers |-> Nil] /\ \A t \in Takers : taker[t] = [at |-> "idle"]
  BY DEF K!Init
<1>2. \A t \in Takers : taker[t].at = "idle" /\ TakerFits(taker[t], rows)
  BY <1>1 DEF TakerFits
<1>3. TakersFit /\ OfferFits
  BY <1>1, <1>2, ForgeAssumption DEF TakersFit, OfferFits, TemplatesAssumption
<1>4. Counted
  BY <1>1, <1>2 DEF Counted, Counts, Busy
<1>5. CopiesFit
  BY <1>1, <1>2 DEF CopiesFit, CopyFits, Busy
<1> QED
  BY <1>3, <1>4, <1>5 DEF TemplateInv

LEMMA TakersCount ==
  ASSUME NEW r PROVE IsFiniteSet(By(r)) /\ Cardinality(By(r)) \in Nat /\ Cardinality(By(r)) <= Cardinality(Takers)
<1>1. IsFiniteSet(Takers) /\ By(r) \subseteq Takers
  BY ForgeAssumption DEF TemplatesAssumption, By
<1> QED
  BY <1>1, FS_Subset, FS_CardinalityType

LEMMA OfferingsAre == \A x \in K!Offerings :
    x.row \in Nat /\ x.taken \in Nat /\ x.kind \in {"template", "application"}
<1>1. Cardinality(Takers) \in Nat /\ MaxRows \in Nat /\ K!Cardinality(Takers) = Cardinality(Takers)
  BY ForgeAssumption, FS_CardinalityType DEF TemplatesAssumption, K!Cardinality, Cardinality
<1> QED
  BY <1>1 DEF K!Offerings, K!Kinds

\* A taking goes on, or ends without being counted.
LEMMA TakerMoves ==
  ASSUME TemplateInv, NEW t \in Takers, NEW q, NEW m, NEW h, taker' = [taker EXCEPT ![t] = q],
         copy' = [copy EXCEPT ![t] = m], seen' = [seen EXCEPT ![t] = h], UNCHANGED <<offering, rows, source>>,
         taker[t].at # "taken", q.at # "taken", TakerFits(q, rows), Counts(q), CopyFits(q, m, h, source.tip),
         m \in Tips \union {Nil, "empty", "own", "app"}, h \subseteq Tips \union {Nil}
  PROVE  TemplateInv'
<1>0. /\ DOMAIN taker' = Takers /\ taker'[t] = q /\ \A x \in Takers \ {t} : taker'[x] = taker[x]
      /\ copy' \in [Takers -> Tips \union {Nil, "empty", "own", "app"}] /\ copy'[t] = m
      /\ seen' \in [Takers -> SUBSET (Tips \union {Nil})] /\ seen'[t] = h
      /\ \A x \in Takers \ {t} : copy'[x] = copy[x] /\ seen'[x] = seen[x]
  BY DEF TemplateInv, TakersFit, CopiesFit
<1>1. TakersFit' /\ OfferFits'
  BY <1>0 DEF TemplateInv, TakersFit, OfferFits
<1>2. \A r : By(r)' = By(r)
  BY <1>0 DEF By
<1>3. Counted'
  BY <1>0, <1>2 DEF TemplateInv, Counted, Counts
<1>4. CopiesFit'
  BY <1>0 DEF TemplateInv, CopiesFit
<1> QED
  BY <1>1, <1>3, <1>4 DEF TemplateInv

LEMMA TakingIsCounted ==
  ASSUME TemplateInv, NEW t \in Takers, K!count_taken(t) PROVE TemplateInv'
<1> DEFINE q == [taker[t] EXCEPT !.at = "taken"]
           w == [taker[t] EXCEPT !.at = "failed"]
           new == [offering EXCEPT !.taken = taker[t].read.taken + 1]
<1>r. PICK r : r = taker[t].read.row
  OBVIOUS
<1>1. /\ taker[t].at = "count" /\ UNCHANGED <<rows, source, copy, seen>>
      /\ IF offering # Nil /\ offering.row = r THEN taker' = [taker EXCEPT ![t] = q] /\ offering' = new
         ELSE taker' = [taker EXCEPT ![t] = w] /\ UNCHANGED offering
  BY <1>r DEF K!count_taken, K!On, K!Step, K!StillThere, K!There, TemplateInv, TakersFit
<1>2. /\ "at" \in DOMAIN taker[t] /\ "read" \in DOMAIN taker[t] /\ taker[t].read \in K!Offerings /\ r <= rows
      /\ taker[t].read.taken <= Cardinality(By(r)) /\ taker[t].read.taken \in Nat /\ r \in Nat
  BY <1>1, <1>r, OfferingsAre DEF TemplateInv, TakersFit, TakerFits, Counted, Counts, Busy
<1>3. q.at = "taken" /\ q.read = taker[t].read /\ w.at = "failed" /\ w.read = taker[t].read
  BY <1>2
<1>4. TakerFits(q, rows) /\ TakerFits(w, rows)
  <2>1. {"at", "read"} \subseteq DOMAIN q /\ {"at", "read"} \subseteq DOMAIN w
    BY <1>2
  <2> HIDE DEF q, w
  <2> QED
    BY <1>2, <1>3, <1>r, <2>1 DEF TakerFits, Over
<1> HIDE DEF q, w
<1>5. CASE offering # Nil /\ offering.row = r
  <2>0. taker' = [taker EXCEPT ![t] = q] /\ offering' = new /\ DOMAIN taker = Takers
    BY <1>1, <1>5 DEF TemplateInv, TakersFit
  <2>1. By(r)' = By(r) \union {t} /\ t \notin By(r) /\ \A x : x # r => By(x)' = By(x)
    BY <1>1, <1>3, <1>r, <2>0 DEF By
  <2>2. Cardinality(By(r)') = Cardinality(By(r)) + 1
    BY <2>1, TakersCount, FS_AddElement
  <2>3. Cardinality(By(r)') <= Cardinality(Takers)
    <3>1. By(r)' \subseteq Takers /\ IsFiniteSet(Takers)
      BY <2>1, ForgeAssumption DEF By, TemplatesAssumption
    <3> QED
      BY <3>1, FS_Subset
  <2>4. /\ Cardinality(By(r)) \in Nat /\ Cardinality(Takers) \in Nat /\ taker[t].read.taken + 1 \in 0..Cardinality(Takers)
        /\ taker[t].read.taken + 1 <= Cardinality(By(r)') /\ taker[t].read.taken + 1 > 0
    <3>1. Cardinality(By(r)) \in Nat
      BY TakersCount
    <3>2. Cardinality(Takers) \in Nat
      BY ForgeAssumption, FS_CardinalityType DEF TemplatesAssumption
    <3> QED
      BY <1>2, <2>2, <2>3, <3>1, <3>2
  <2>5. offering' \in K!Offerings /\ offering'.row = r /\ r = rows /\ offering'.taken = taker[t].read.taken + 1
    <3>1. K!Cardinality(Takers) = Cardinality(Takers)
      BY DEF K!Cardinality, Cardinality
    <3>2. offering \in K!Offerings /\ r = rows
      BY <1>5 DEF TemplateInv, OfferFits
    <3> QED
      BY <1>5, <2>0, <2>4, <3>1, <3>2 DEF K!Offerings
  <2>6. TakersFit' /\ OfferFits'
    BY <1>1, <1>4, <2>0, <2>5 DEF TemplateInv, TakersFit, OfferFits
  <2>7. \A x : Cardinality(By(x)) \in Nat /\ Cardinality(By(x)') \in Nat /\ Cardinality(By(x)) <= Cardinality(By(x)')
    <3> SUFFICES ASSUME NEW x
                 PROVE  Cardinality(By(x)) \in Nat /\ Cardinality(By(x)') \in Nat /\ Cardinality(By(x)) <= Cardinality(By(x)')
      OBVIOUS
    <3>1. Cardinality(By(x)) \in Nat
      BY TakersCount
    <3>2. CASE x = r
      BY <2>2, <3>1, <3>2
    <3>3. CASE x # r
      <4>1. By(x)' = By(x)
        BY <2>1, <3>3
      <4> QED
        BY <3>1, <4>1
    <3> QED
      BY <3>2, <3>3
  <2>8. ASSUME NEW x \in Takers PROVE Counts(taker[x])'
    <3>1. CASE x = t
      BY <1>3, <2>0, <3>1 DEF Counts, Busy
    <3>2. CASE x # t
      <4>1. taker'[x] = taker[x] /\ Counts(taker[x]) /\ TakerFits(taker[x], rows)
        BY <2>0, <3>2 DEF TemplateInv, Counted, TakersFit
      <4>2. taker[x].at \in Busy => taker[x].read.taken \in Nat
        BY <4>1, OfferingsAre DEF TakerFits, Busy
      <4> QED
        BY <2>7, <4>1, <4>2 DEF Counts
    <3> QED
      BY <3>1, <3>2
  <2>9. Counted'
    <3>1. \A x \in Takers : Counts(taker[x])'
      BY <2>8
    <3>2. offering'.taken <= Cardinality(By(offering.row)') /\ offering'.taken > 0
      BY <2>4, <2>5
    <3> QED
      BY <3>1, <3>2 DEF Counted
  <2>10. CopyFits(q, copy[t], seen[t], source.tip)
    BY <1>1, <1>3 DEF TemplateInv, CopiesFit, CopyFits, Busy
  <2>11. CopiesFit'
    BY <1>1, <2>0, <2>10 DEF TemplateInv, CopiesFit
  <2> QED
    BY <2>6, <2>9, <2>11 DEF TemplateInv
<1>6. CASE ~(offering # Nil /\ offering.row = r)
  <2>1. taker' = [taker EXCEPT ![t] = w] /\ UNCHANGED <<offering, rows, source>>
    BY <1>1, <1>6
  <2>2. copy' = [copy EXCEPT ![t] = copy[t]] /\ seen' = [seen EXCEPT ![t] = seen[t]]
        /\ copy[t] \in Tips \union {Nil, "empty", "own", "app"} /\ seen[t] \subseteq Tips \union {Nil}
    BY <1>1 DEF TemplateInv, CopiesFit
  <2>3. Counts(w) /\ CopyFits(w, copy[t], seen[t], source.tip)
    BY <1>3 DEF Counts, CopyFits, Busy
  <2> QED
    BY <1>1, <1>3, <1>4, <2>1, <2>2, <2>3, TakerMoves
<1> QED
  BY <1>5, <1>6

\* The offering is put out, changed or taken down.
LEMMA OfferingChanges ==
  ASSUME TemplateInv, K!change_offering \/ K!delete_offering \/ \E kind \in K!Kinds : K!publish_offering(kind)
  PROVE  TemplateInv'
<1>0. UNCHANGED <<source, taker, copy, seen>>
  BY DEF K!change_offering, K!delete_offering, K!publish_offering
<1>1. CopiesFit' /\ \A r : By(r)' = By(r)
  BY <1>0 DEF TemplateInv, CopiesFit, By
<1>2. CASE K!change_offering
  <2>1. /\ offering # Nil /\ rows' = rows /\ offering \in K!Offerings
        /\ offering' = [offering EXCEPT !.published = ~offering.published]
    BY <1>2 DEF K!change_offering, K!There, TemplateInv, OfferFits
  <2>2. offering' \in K!Offerings /\ offering'.row = offering.row /\ offering'.taken = offering.taken
    BY <2>1 DEF K!Offerings
  <2> QED
    BY <1>0, <1>1, <2>1, <2>2 DEF TemplateInv, TakersFit, OfferFits, Counted, Counts
<1>3. CASE K!delete_offering
  BY <1>0, <1>1, <1>3 DEF K!delete_offering, TemplateInv, TakersFit, OfferFits, Counted, Counts
<1>4. CASE \E kind \in K!Kinds : K!publish_offering(kind)
  <2>1. PICK kind \in K!Kinds : /\ rows < MaxRows /\ rows' = rows + 1
                                /\ offering' = [row |-> rows + 1, kind |-> kind, published |-> TRUE, taken |-> 0]
    BY <1>4 DEF K!publish_offering, K!publish
  <2>2. rows \in Nat /\ MaxRows \in Nat /\ rows' \in 0..MaxRows /\ rows' \in 1..MaxRows
    BY <2>1, ForgeAssumption DEF TemplateInv, OfferFits, TemplatesAssumption
  <2>3. 0 \in 0..K!Cardinality(Takers)
    <3>1. Cardinality(Takers) \in Nat /\ K!Cardinality(Takers) = Cardinality(Takers)
      BY ForgeAssumption, FS_CardinalityType DEF TemplatesAssumption, K!Cardinality, Cardinality
    <3> QED
      BY <3>1
  <2>4. offering' \in K!Offerings /\ offering'.row = rows' /\ offering'.taken = 0
    BY <2>1, <2>2, <2>3 DEF K!Offerings
  <2>5. \A t \in Takers : taker[t].at = "taken" => taker[t].read.row \in Nat /\ taker[t].read.row <= rows
    BY OfferingsAre DEF TemplateInv, TakersFit, TakerFits
  <2>6. By(rows') = {} /\ Cardinality(By(rows')) = 0
    <3>1. By(rows') = {}
      BY <2>1, <2>2, <2>5 DEF By
    <3> QED
      BY <3>1, FS_EmptySet
  <2>7. TakersFit'
    <3>1. ASSUME NEW t \in Takers, taker[t].at # "idle" PROVE taker[t].read.row <= rows'
      <4>1. taker[t].read.row \in Nat /\ taker[t].read.row <= rows
        BY <3>1, OfferingsAre DEF TemplateInv, TakersFit, TakerFits
      <4> QED
        BY <2>1, <2>2, <4>1
    <3> QED
      BY <1>0, <3>1 DEF TemplateInv, TakersFit, TakerFits
  <2>8. Counted'
    <3>1. \A t \in Takers : Counts(taker[t])'
      BY <1>0, <1>1 DEF TemplateInv, Counted, Counts
    <3>2. By(offering.row)' = {} /\ Cardinality(By(offering.row)') = 0 /\ offering'.taken = 0
      BY <1>1, <2>4, <2>6
    <3> QED
      BY <3>1, <3>2 DEF Counted
  <2> QED
    BY <1>1, <2>2, <2>4, <2>7, <2>8 DEF TemplateInv, OfferFits
<1> QED
  BY <1>2, <1>3, <1>4

\* The source moves or goes, and the offering perhaps with it.
LEMMA SourceChanges ==
  ASSUME TemplateInv, NEW there, NEW now \in Tips \union {Nil}, K!SourceIs(there, now), UNCHANGED <<rows, taker, copy>>,
         offering' = offering \/ offering' = Nil
  PROVE  TemplateInv'
<1>1. /\ source'.tip = now /\ seen' \in [Takers -> SUBSET (Tips \union {Nil})]
      /\ \A t \in Takers : seen'[t] = IF taker[t].at \in Busy THEN seen[t] \union {now} ELSE seen[t]
  BY DEF K!SourceIs, K!Taking, Busy, TemplateInv, CopiesFit
<1>2. ASSUME NEW t \in Takers PROVE CopyFits(taker[t], copy[t], seen'[t], source'.tip)
  <2>1. CopyFits(taker[t], copy[t], seen[t], source.tip)
    BY DEF TemplateInv, CopiesFit
  <2> QED
    BY <1>1, <2>1 DEF CopyFits
<1>3. CopiesFit'
  BY <1>1, <1>2 DEF TemplateInv, CopiesFit
<1> QED
  BY <1>3 DEF TemplateInv, TakersFit, OfferFits, Counted, Counts, By

LEMMA TemplateNext == TemplateInv /\ [K!Next]_K!templateVars => TemplateInv'
<1> SUFFICES ASSUME TemplateInv, [K!Next]_K!templateVars PROVE TemplateInv'
  OBVIOUS
<1>0. /\ DOMAIN taker = Takers /\ seen \in [Takers -> SUBSET (Tips \union {Nil})] /\ copy \in [Takers -> Tips \union {Nil, "empty", "own", "app"}]
      /\ \A t \in Takers : /\ TakerFits(taker[t], rows) /\ Counts(taker[t])
                           /\ CopyFits(taker[t], copy[t], seen[t], source.tip)
      /\ source.tip \in Tips \union {Nil}
  BY DEF TemplateInv, TakersFit, Counted, CopiesFit
<1>k. ASSUME NEW t \in Takers PROVE /\ copy = [copy EXCEPT ![t] = copy[t]] /\ seen = [seen EXCEPT ![t] = seen[t]]
                                    /\ copy[t] \in Tips \union {Nil, "empty", "own", "app"}
                                    /\ seen[t] \subseteq Tips \union {Nil}
  BY <1>0
<1> DEFINE Now(t, s) == [taker[t] EXCEPT !.at = s]
<1>s. ASSUME NEW t \in Takers, NEW s, taker[t].at \in Busy, s \in {"idle", "copy", "count", "cut"}, K!Step(t, s)
      PROVE  /\ taker' = [taker EXCEPT ![t] = Now(t, s)] /\ Now(t, s).at = s /\ Now(t, s).read = taker[t].read
             /\ TakerFits(Now(t, s), rows) /\ Counts(Now(t, s)) /\ taker[t].at # "taken" /\ Now(t, s).at # "taken"
  <2>1. TakerFits(taker[t], rows) /\ Counts(taker[t])
    BY <1>0
  <2>2. Now(t, s).at = s /\ Now(t, s).read = taker[t].read /\ {"at", "read"} \subseteq DOMAIN Now(t, s)
    BY <1>s, <2>1 DEF TakerFits, Busy
  <2>3. taker' = [taker EXCEPT ![t] = Now(t, s)]
    BY <1>0, <1>s DEF K!Step
  <2> HIDE DEF Now
  <2>4. TakerFits(Now(t, s), rows) /\ Counts(Now(t, s))
    BY <1>s, <2>1, <2>2 DEF TakerFits, Counts, Busy, Over
  <2> QED
    BY <1>s, <2>2, <2>3, <2>4 DEF Busy
<1> HIDE DEF Now
<1>1. ASSUME NEW kind \in K!Kinds, K!publish_offering(kind) PROVE TemplateInv'
  BY <1>1, OfferingChanges
<1>2. CASE K!change_offering \/ K!delete_offering
  BY <1>2, OfferingChanges
<1>3. CASE K!SourceIsDeleted
  BY <1>0, <1>3, SourceChanges DEF K!SourceIsDeleted
<1>4. CASE K!RepositoryGoes
  BY <1>4, SourceChanges DEF K!RepositoryGoes
<1>5. ASSUME NEW new \in Tips, K!SourceMoves(new) PROVE TemplateInv'
  BY <1>5, SourceChanges DEF K!SourceMoves
<1>6. ASSUME NEW t \in Takers, K!Begins(t) PROVE TemplateInv'
  <2> DEFINE q == [at |-> "make", read |-> offering]
             h == {source.tip}
  <2>1. /\ taker[t].at = "idle" /\ offering # Nil /\ taker' = [taker EXCEPT ![t] = q] /\ seen' = [seen EXCEPT ![t] = h]
        /\ UNCHANGED <<offering, rows, source>> /\ copy' = [copy EXCEPT ![t] = copy[t]]
    BY <1>6, <1>k DEF K!Begins, K!On, K!_found, K!There
  <2>2. q.at = "make" /\ q.read = offering /\ {"at", "read"} \subseteq DOMAIN q /\ source.tip \in h /\ h \subseteq Tips \union {Nil}
    BY <1>0
  <2> HIDE DEF q, h
  <2>3. TakerFits(q, rows)
    BY <2>1, <2>2, OfferingsAre DEF TemplateInv, OfferFits, TakerFits, Busy
  <2>4. Counts(q) /\ CopyFits(q, copy[t], h, source.tip)
    BY <2>1, <2>2 DEF TemplateInv, Counted, Counts, CopyFits
  <2> QED
    BY <1>k, <2>1, <2>2, <2>3, <2>4, TakerMoves
<1>7. ASSUME NEW t \in Takers, K!create(t) PROVE TemplateInv'
  <2> DEFINE m == IF taker[t].read.kind = "template" THEN "empty" ELSE "app"
             s == IF taker[t].read.kind = "template" THEN "copy" ELSE "count"
  <2>1. /\ taker[t].at \in Busy /\ UNCHANGED <<offering, rows, source>> /\ seen' = [seen EXCEPT ![t] = seen[t]]
        /\ \/ K!Step(t, "idle") /\ copy' = [copy EXCEPT ![t] = copy[t]]
           \/ K!Step(t, s) /\ copy' = [copy EXCEPT ![t] = m]
    BY <1>7, <1>k DEF K!create, K!On, Busy
  <2>2. CASE K!Step(t, "idle") /\ copy' = [copy EXCEPT ![t] = copy[t]]
    <3>1. CopyFits(Now(t, "idle"), copy[t], seen[t], source.tip)
      BY <1>s, <2>1, <2>2 DEF CopyFits, Busy
    <3> QED
      BY <1>k, <1>s, <2>1, <2>2, <3>1, TakerMoves
  <2>3. CASE K!Step(t, s) /\ copy' = [copy EXCEPT ![t] = m]
    <3>1. s \in {"idle", "copy", "count", "cut"} /\ m \in Tips \union {Nil, "empty", "own", "app"}
      OBVIOUS
    <3>2. CopyFits(Now(t, s), m, seen[t], source.tip)
      BY <1>0, <1>s, <2>1, <2>3, <3>1 DEF CopyFits, Busy
    <3> HIDE DEF s, m
    <3> QED
      BY <1>k, <1>s, <2>1, <2>3, <3>1, <3>2, TakerMoves
  <2> QED
    BY <2>1, <2>2, <2>3
<1>8. ASSUME NEW t \in Takers, K!copy_from(t) PROVE TemplateInv'
  <2> DEFINE m == IF source.tip = Nil THEN copy[t] ELSE source.tip
  <2>1. /\ taker[t].at = "copy" /\ taker[t].at \in Busy /\ UNCHANGED <<offering, rows, source>>
        /\ K!Step(t, "count") /\ seen' = [seen EXCEPT ![t] = seen[t]] /\ copy' = [copy EXCEPT ![t] = m]
    BY <1>8, <1>k DEF K!copy_from, K!On, Busy
  <2>2. m \in Tips \union {Nil, "empty", "own", "app"}
    BY <1>0, <1>k
  <2>3. CopyFits(Now(t, "count"), m, seen[t], source.tip)
    BY <1>0, <1>s, <2>1 DEF CopyFits, Busy
  <2> HIDE DEF m
  <2> QED
    BY <1>k, <1>s, <2>1, <2>2, <2>3, TakerMoves
<1>9. ASSUME NEW t \in Takers, K!count_taken(t) PROVE TemplateInv'
  BY <1>9, TakingIsCounted
<1>10. ASSUME NEW t \in Takers, K!IsCut(t) PROVE TemplateInv'
  <2>1. /\ taker[t].at \in Busy /\ UNCHANGED <<offering, rows, source>>
        /\ K!Step(t, "cut") /\ seen' = [seen EXCEPT ![t] = seen[t]] /\ copy' = [copy EXCEPT ![t] = copy[t]]
    BY <1>10, <1>k DEF K!IsCut, K!Taking, Busy
  <2>2. CopyFits(Now(t, "cut"), copy[t], seen[t], source.tip)
    BY <1>s, <2>1 DEF CopyFits, Busy
  <2> QED
    BY <1>k, <1>s, <2>1, <2>2, TakerMoves
<1>11. ASSUME NEW t \in Takers, K!Push(t) PROVE TemplateInv'
  <2>1. /\ copy' = [copy EXCEPT ![t] = "own"] /\ UNCHANGED <<offering, rows, source, taker, seen>>
    BY <1>11 DEF K!Push
  <2>2. CopiesFit'
    BY <1>0, <2>1 DEF CopiesFit, CopyFits
  <2> QED
    BY <2>1, <2>2 DEF TemplateInv, TakersFit, OfferFits, Counted, Counts, By
<1>12. CASE UNCHANGED K!templateVars
  BY <1>12 DEF K!templateVars, TemplateInv, TakersFit, OfferFits, Counted, Counts, By, CopiesFit
<1> QED
  BY <1>1, <1>2, <1>3, <1>4, <1>5, <1>6, <1>7, <1>8, <1>9, <1>10, <1>11, <1>12
     DEF K!Next, K!take_template, K!take_application

(* CopiesAreTheTakers: who took a template has what its branch held while  *)
(* they took it, whole, whatever became of the offering and its project.   *)
(* TakenIsHonest: the count of takings is never ahead of them, and none    *)
(* only when there are none (templates/router.py take_template,            *)
(* templates/service.py count_taken).                                      *)
THEOREM TemplatesAreCopied == K!Spec => [](K!TypeOK /\ K!CopiesAreTheTakers /\ K!TakenIsHonest)
<1>1. TemplateInv => K!TypeOK
  BY DEF TemplateInv, OfferFits, CopiesFit, K!TypeOK, K!There
<1>2. TemplateInv => K!CopiesAreTheTakers
  BY DEF TemplateInv, CopiesFit, CopyFits, K!CopiesAreTheTakers, K!Took, K!On
<1>3. TemplateInv => K!TakenIsHonest
  <2> SUFFICES ASSUME TemplateInv, offering # Nil
               PROVE  LET by == {t \in K!Took : taker[t].read.row = offering.row}
                      IN  offering.taken <= K!Cardinality(by) /\ (by # {} => offering.taken > 0)
    BY DEF K!TakenIsHonest, K!There
  <2>1. {t \in K!Took : taker[t].read.row = offering.row} = By(offering.row)
    BY DEF K!Took, K!On, By
  <2>2. K!Cardinality(By(offering.row)) = Cardinality(By(offering.row))
    BY DEF K!Cardinality, Cardinality
  <2> QED
    BY <2>1, <2>2 DEF TemplateInv, Counted
<1> QED
  BY <1>1, <1>2, <1>3, TemplateInit, TemplateNext, PTL DEF K!Spec
-----------------------------------------------------------------------------
(* Groups.                                                                 *)

AskFits(q) ==
    /\ "at" \in DOMAIN q
    /\ q.at \in {"free", "group", "account", "add", "remove", "write", "holds", "delete", "project"}
    /\ q.at # "free" => "slug" \in DOMAIN q /\ q.slug \in Slugs
    /\ q.at \in {"group", "add", "remove", "write"} => q.who \in People
    /\ q.at \in {"add", "remove", "write"} => q.role \in Roles \union {Nobody}

\* What a request that nobody crossed found is still so when it writes.
AskKnows(q, addresses, holding, overlapped) ==
    /\ q.at \in {"group", "account"} => q.slug \in overlapped \/ q.slug \notin addresses
    /\ q.at = "delete" => q.slug \in overlapped \/ q.slug \notin holding
AsksFit == DOMAIN ask = Askers /\ \A c \in Askers : AskFits(ask[c]) /\ AskKnows(ask[c], handle \union groups, held, crossed)

GroupInv == N!TypeOK /\ AsksFit /\ N!AddressesAndProjectsAreKept

LEMMA GroupInit == N!Init => GroupInv
<1> SUFFICES ASSUME N!Init PROVE GroupInv
  OBVIOUS
<1>1. /\ handle = {} /\ groups = {} /\ held = {} /\ crossed = {} /\ orphans = {} /\ crossings = 0
      /\ members = [s \in Slugs |-> N!NoOne] /\ project_members = N!NoOne /\ DOMAIN ask = Askers
      /\ \A c \in Askers : ask[c] = [at |-> "free"]
  BY DEF N!Init
<1>2. N!NoOne \in [People -> Roles \union {Nobody}]
  BY DEF N!NoOne
<1>3. N!TypeOK
  BY <1>1, <1>2, ForgeAssumption DEF N!TypeOK, N!MemberRows, GroupsAssumption
<1>4. AsksFit
  BY <1>1 DEF AsksFit, AskFits, AskKnows
<1> QED
  BY <1>1, <1>3, <1>4 DEF GroupInv, N!AddressesAndProjectsAreKept

\* A request looks, or gives up, and writes nothing.
LEMMA AskLooks ==
  ASSUME GroupInv, NEW c \in Askers, NEW q, ask' = [ask EXCEPT ![c] = q], AskFits(q),
         AskKnows(q, handle \union groups, held, crossed),
         UNCHANGED <<handle, groups, members, held, project_members, orphans, crossed, crossings>>
  PROVE  GroupInv'
<1>1. N!TypeOK' /\ N!AddressesAndProjectsAreKept'
  BY DEF GroupInv, N!TypeOK, N!AddressesAndProjectsAreKept
<1>2. AsksFit'
  BY DEF GroupInv, AsksFit
<1> QED
  BY <1>1, <1>2 DEF GroupInv

LEMMA CrossingsAreCounted ==
  ASSUME GroupInv, NEW c \in Askers, NEW s \in Slugs, N!Crosses(c, s)
  PROVE  /\ crossed \subseteq crossed' /\ crossed' \subseteq Slugs /\ crossings' \in 0..MaxCrossings
         /\ \A d \in Askers \ {c} : ask[d].at # "free" /\ ask[d].slug = s => s \in crossed'
<1>1. crossings \in 0..MaxCrossings /\ crossed \subseteq Slugs /\ MaxCrossings \in Nat
  BY ForgeAssumption DEF GroupInv, N!TypeOK, GroupsAssumption
<1>2. CASE N!Looking(c, s) # {}
  BY <1>1, <1>2 DEF N!Crosses
<1>3. CASE N!Looking(c, s) = {}
  BY <1>1, <1>3 DEF N!Crosses, N!Looking, N!Now
<1> QED
  BY <1>2, <1>3

\* A request writes at its address, and ends.
LEMMA AskWrites ==
  ASSUME GroupInv, NEW c \in Askers, NEW s \in Slugs, N!Ends(c), N!Crosses(c, s),
         handle' \subseteq handle \union {s}, groups' \subseteq groups \union {s}, held' \subseteq held \union {s},
         handle' \subseteq Slugs, groups' \subseteq Slugs, held' \subseteq groups', members' \in N!MemberRows,
         project_members' \in [People -> Roles \union {Nobody}],
         s \notin crossed => s \notin handle' \/ s \notin groups',
         orphans' \subseteq orphans \union crossed
  PROVE  GroupInv'
<1>1. /\ crossed \subseteq crossed' /\ crossed' \subseteq Slugs /\ crossings' \in 0..MaxCrossings
      /\ \A d \in Askers \ {c} : ask[d].at # "free" /\ ask[d].slug = s => s \in crossed'
  BY CrossingsAreCounted
<1>2. N!TypeOK'
  BY <1>1 DEF N!TypeOK
<1>3. N!AddressesAndProjectsAreKept'
  BY <1>1 DEF GroupInv, N!AddressesAndProjectsAreKept
<1>4. /\ DOMAIN ask' = Askers /\ ask'[c] = [at |-> "free"] /\ \A d \in Askers \ {c} : ask'[d] = ask[d]
  BY DEF GroupInv, AsksFit, N!Ends
<1>5. AsksFit'
  <2>1. AskFits(ask'[c]) /\ AskKnows(ask'[c], (handle \union groups)', held', crossed')
    BY <1>4 DEF AskFits, AskKnows
  <2>2. ASSUME NEW d \in Askers \ {c}
        PROVE  AskFits(ask'[d]) /\ AskKnows(ask'[d], (handle \union groups)', held', crossed')
    BY <1>1, <1>4 DEF GroupInv, AsksFit, AskKnows
  <2> QED
    BY <1>4, <2>1, <2>2 DEF AsksFit
<1> QED
  BY <1>2, <1>3, <1>5 DEF GroupInv

LEMMA GroupNext == GroupInv /\ [N!Next]_N!groupVars => GroupInv'
<1> SUFFICES ASSUME GroupInv, [N!Next]_N!groupVars PROVE GroupInv'
  OBVIOUS
<1>0. /\ handle \subseteq Slugs /\ groups \subseteq Slugs /\ held \subseteq groups /\ members \in N!MemberRows
      /\ project_members \in [People -> Roles \union {Nobody}]
      /\ \A c \in Askers : AskFits(ask[c]) /\ AskKnows(ask[c], handle \union groups, held, crossed)
      /\ N!NoOne \in [People -> Roles \union {Nobody}] /\ DOMAIN ask = Askers
      /\ handle \intersect groups \subseteq crossed /\ orphans \subseteq crossed
  BY DEF GroupInv, N!TypeOK, AsksFit, N!NoOne, N!AddressesAndProjectsAreKept
<1> DEFINE f == [at |-> "free"]
<1>f. AskFits(f) /\ AskKnows(f, handle \union groups, held, crossed)
  BY DEF AskFits, AskKnows
<1> HIDE DEF f
<1>1. ASSUME NEW c \in Askers, NEW s \in Slugs, NEW what \in {"group", "account"}, NEW p, what = "group" => p \in People,
             N!LookForAddress(c, s, what, p)
      PROVE  GroupInv'
  <2> DEFINE q == [at |-> what, slug |-> s, who |-> p]
  <2>1. /\ ask' = [ask EXCEPT ![c] = q] /\ s \notin handle \union groups
        /\ UNCHANGED <<handle, groups, members, held, project_members, orphans, crossed, crossings>>
    BY <1>1 DEF N!LookForAddress, N!Begin, N!slug_is_free, N!project, N!NoCrossing
  <2>2. AskFits(q) /\ AskKnows(q, handle \union groups, held, crossed)
    BY <1>1, <2>1 DEF AskFits, AskKnows
  <2> HIDE DEF q
  <2> QED
    BY <2>1, <2>2, AskLooks
<1>2. ASSUME NEW c \in Askers, NEW s \in Slugs, NEW what \in {"add", "remove"}, NEW p \in People, NEW r \in Roles \union {Nobody},
             N!Begin(c, [at |-> what, slug |-> s, who |-> p, role |-> r]),
             UNCHANGED <<handle, groups, members, held, project_members, orphans, crossed, crossings>>
      PROVE  GroupInv'
  <2> DEFINE q == [at |-> what, slug |-> s, who |-> p, role |-> r]
  <2>1. ask' = [ask EXCEPT ![c] = q]
    BY <1>2 DEF N!Begin
  <2>2. AskFits(q) /\ AskKnows(q, handle \union groups, held, crossed)
    BY DEF AskFits, AskKnows
  <2> HIDE DEF q
  <2> QED
    BY <1>2, <2>1, <2>2, AskLooks
<1>3. ASSUME NEW c \in Askers, NEW s \in Slugs, NEW what \in {"holds", "project"},
             N!Begin(c, [at |-> what, slug |-> s]),
             UNCHANGED <<handle, groups, members, held, project_members, orphans, crossed, crossings>>
      PROVE  GroupInv'
  <2> DEFINE q == [at |-> what, slug |-> s]
  <2>1. ask' = [ask EXCEPT ![c] = q]
    BY <1>3 DEF N!Begin
  <2>2. AskFits(q) /\ AskKnows(q, handle \union groups, held, crossed)
    BY DEF AskFits, AskKnows
  <2> HIDE DEF q
  <2> QED
    BY <1>3, <2>1, <2>2, AskLooks
<1>4. ASSUME NEW c \in Askers, N!LookAtMember(c) PROVE GroupInv'
  <2> DEFINE q == [at |-> "write", slug |-> ask[c].slug, who |-> ask[c].who, role |-> ask[c].role,
                   found |-> N!role_of(ask[c].slug, ask[c].who)]
  <2>1. /\ ask[c].at \in {"add", "remove"} /\ (ask' = [ask EXCEPT ![c] = f] \/ ask' = [ask EXCEPT ![c] = q])
        /\ UNCHANGED <<handle, groups, members, held, project_members, orphans, crossed, crossings>>
    BY <1>4 DEF N!LookAtMember, N!Now, N!Ends, N!Goes, N!project, N!NoCrossing, f
  <2>2. AskFits(q) /\ AskKnows(q, handle \union groups, held, crossed)
    BY <1>0, <1>4 DEF AskFits, AskKnows, N!LookAtMember, N!Now
  <2> HIDE DEF q
  <2> QED
    BY <1>f, <2>1, <2>2, AskLooks
<1>5. ASSUME NEW c \in Askers, N!LookForProjects(c) PROVE GroupInv'
  <2> DEFINE q == [ask[c] EXCEPT !.at = "delete"]
  <2>1. /\ ask[c].at = "holds"
        /\ ask' = [ask EXCEPT ![c] = f] \/ (ask[c].slug \notin held /\ ask' = [ask EXCEPT ![c] = q])
        /\ UNCHANGED <<handle, groups, members, held, project_members, orphans, crossed, crossings>>
    BY <1>5 DEF N!LookForProjects, N!Now, N!Ends, N!Goes, N!project, N!NoCrossing, f
  <2>2. q.at = "delete" /\ q.slug = ask[c].slug /\ q.slug \in Slugs /\ {"at", "slug"} \subseteq DOMAIN q
    BY <1>0, <2>1 DEF AskFits
  <2>3. AskFits(q) /\ (ask[c].slug \notin held => AskKnows(q, handle \union groups, held, crossed))
    BY <2>2 DEF AskFits, AskKnows
  <2> HIDE DEF q
  <2> QED
    BY <1>f, <2>1, <2>3, AskLooks
<1>6. ASSUME NEW c \in Askers, N!Register(c) PROVE GroupInv'
  <2> DEFINE s == ask[c].slug
  <2>1. /\ ask[c].at = "account" /\ N!Ends(c) /\ N!Crosses(c, s) /\ handle' = handle \union {s}
        /\ UNCHANGED <<groups, members, held, project_members, orphans>>
    BY <1>6 DEF N!Register, N!Now, N!project
  <2>2. s \in Slugs /\ (s \notin crossed => s \notin groups)
    BY <1>0, <2>1 DEF AskFits, AskKnows
  <2> HIDE DEF s
  <2>3. /\ handle' \subseteq handle \union {s} /\ groups' \subseteq groups \union {s} /\ held' \subseteq held \union {s}
        /\ handle' \subseteq Slugs /\ groups' \subseteq Slugs /\ held' \subseteq groups' /\ members' \in N!MemberRows
        /\ project_members' \in [People -> Roles \union {Nobody}]
        /\ s \notin crossed => s \notin handle' \/ s \notin groups'
        /\ orphans' \subseteq orphans \union crossed
    BY <1>0, <2>1, <2>2
  <2> QED
    BY <2>1, <2>2, <2>3, AskWrites
<1>7. ASSUME NEW c \in Askers, N!CreateGroup(c) PROVE GroupInv'
  <2> DEFINE s == ask[c].slug
             first == [N!NoOne EXCEPT ![ask[c].who] = "owner"]
  <2>1. /\ ask[c].at = "group" /\ N!Ends(c) /\ N!Crosses(c, s)
        /\ UNCHANGED <<handle, held, project_members, orphans>>
        /\ \/ s \in groups /\ UNCHANGED <<groups, members>>
           \/ groups' = groups \union {s} /\ members' = [members EXCEPT ![s] = first]
    BY <1>7 DEF N!CreateGroup, N!Now, N!project
  <2>2. s \in Slugs /\ (s \notin crossed => s \notin handle)
    BY <1>0, <2>1 DEF AskFits, AskKnows
  <2>3. first \in [People -> Roles \union {Nobody}]
    BY <1>0, ForgeAssumption DEF GroupsAssumption
  <2>4. members' \in N!MemberRows
    BY <1>0, <2>1, <2>3 DEF N!MemberRows
  <2> HIDE DEF s, first
  <2>5. /\ handle' \subseteq handle \union {s} /\ groups' \subseteq groups \union {s} /\ held' \subseteq held \union {s}
        /\ handle' \subseteq Slugs /\ groups' \subseteq Slugs /\ held' \subseteq groups'
        /\ project_members' \in [People -> Roles \union {Nobody}]
        /\ s \notin crossed => s \notin handle' \/ s \notin groups'
        /\ orphans' \subseteq orphans \union crossed
    BY <1>0, <2>1, <2>2
  <2> QED
    BY <2>1, <2>2, <2>4, <2>5, AskWrites
<1>8. ASSUME NEW c \in Askers, N!WriteMember(c) PROVE GroupInv'
  <2> DEFINE s == ask[c].slug
             p == ask[c].who
  <2>1. /\ ask[c].at = "write" /\ N!Ends(c) /\ N!Crosses(c, s)
        /\ UNCHANGED <<handle, groups, held, project_members, orphans>>
        /\ UNCHANGED members \/ members' = [members EXCEPT ![s][p] = ask[c].role]
    BY <1>8 DEF N!WriteMember, N!Now, N!project
  <2>2. s \in Slugs /\ p \in People /\ ask[c].role \in Roles \union {Nobody}
    BY <1>0, <2>1 DEF AskFits
  <2>3. members' \in N!MemberRows
    BY <1>0, <2>1, <2>2 DEF N!MemberRows
  <2> HIDE DEF s, p
  <2>4. /\ handle' \subseteq handle \union {s} /\ groups' \subseteq groups \union {s} /\ held' \subseteq held \union {s}
        /\ handle' \subseteq Slugs /\ groups' \subseteq Slugs /\ held' \subseteq groups'
        /\ project_members' \in [People -> Roles \union {Nobody}]
        /\ s \notin crossed => s \notin handle' \/ s \notin groups'
        /\ orphans' \subseteq orphans \union crossed
    BY <1>0, <2>1, <2>2
  <2> QED
    BY <2>1, <2>2, <2>3, <2>4, AskWrites
<1>9. ASSUME NEW c \in Askers, N!DeleteGroup(c) PROVE GroupInv'
  <2> DEFINE s == ask[c].slug
  <2>1. /\ ask[c].at = "delete" /\ N!Ends(c) /\ N!Crosses(c, s) /\ UNCHANGED handle
        /\ groups' = groups \ {s} /\ members' = [members EXCEPT ![s] = N!NoOne] /\ held' = held \ {s}
        /\ project_members' \in {N!NoOne, project_members}
        /\ orphans' = IF s \in held THEN orphans \union {s} ELSE orphans
    BY <1>9 DEF N!DeleteGroup, N!Now
  <2>2. s \in Slugs /\ (s \notin crossed => s \notin held)
    BY <1>0, <2>1 DEF AskFits, AskKnows
  <2>3. members' \in N!MemberRows
    BY <1>0, <2>1, <2>2 DEF N!MemberRows
  <2> HIDE DEF s
  <2>4. /\ handle' \subseteq handle \union {s} /\ groups' \subseteq groups \union {s} /\ held' \subseteq held \union {s}
        /\ handle' \subseteq Slugs /\ groups' \subseteq Slugs /\ held' \subseteq groups'
        /\ project_members' \in [People -> Roles \union {Nobody}]
        /\ s \notin crossed => s \notin handle' \/ s \notin groups'
        /\ orphans' \subseteq orphans \union crossed
    BY <1>0, <2>1, <2>2
  <2> QED
    BY <2>1, <2>2, <2>3, <2>4, AskWrites
<1>10. ASSUME NEW c \in Askers, N!InsertProject(c) PROVE GroupInv'
  <2> DEFINE s == ask[c].slug
  <2>1. /\ ask[c].at = "project" /\ N!Ends(c) /\ N!Crosses(c, s)
        /\ UNCHANGED <<handle, groups, members, project_members, orphans>>
        /\ held' = IF s \in groups THEN held \union {s} ELSE held
    BY <1>10 DEF N!InsertProject, N!Now
  <2>2. s \in Slugs
    BY <1>0, <2>1 DEF AskFits
  <2> HIDE DEF s
  <2>3. /\ handle' \subseteq handle \union {s} /\ groups' \subseteq groups \union {s} /\ held' \subseteq held \union {s}
        /\ handle' \subseteq Slugs /\ groups' \subseteq Slugs /\ held' \subseteq groups' /\ members' \in N!MemberRows
        /\ project_members' \in [People -> Roles \union {Nobody}]
        /\ s \notin crossed => s \notin handle' \/ s \notin groups'
        /\ orphans' \subseteq orphans \union crossed
    BY <1>0, <2>1, <2>2
  <2> QED
    BY <2>1, <2>2, <2>3, AskWrites
<1>11. ASSUME held' \subseteq held, project_members' \in [People -> Roles \union {Nobody}],
              UNCHANGED <<handle, groups, members, ask, orphans, crossed, crossings>>
       PROVE  GroupInv'
  <2>1. N!TypeOK' /\ N!AddressesAndProjectsAreKept'
    BY <1>11 DEF GroupInv, N!TypeOK, N!AddressesAndProjectsAreKept
  <2>2. AsksFit'
    BY <1>11 DEF GroupInv, AsksFit, AskKnows
  <2> QED
    BY <2>1, <2>2 DEF GroupInv
<1>12. ASSUME NEW s \in Slugs, NEW by \in People, N!DeleteProject(s, by) PROVE GroupInv'
  BY <1>0, <1>11, <1>12 DEF N!DeleteProject, N!NoCrossing
<1>13. ASSUME NEW s \in Slugs, NEW by \in People, NEW p \in People, NEW r \in Roles \union {Nobody},
              N!SetProjectMember(s, by, p, r)
       PROVE  GroupInv'
  BY <1>0, <1>11, <1>13 DEF N!SetProjectMember, N!NoCrossing
<1>14. CASE UNCHANGED N!groupVars
  BY <1>0, <1>11, <1>14 DEF N!groupVars
<1>15. ASSUME NEW c \in Askers, NEW s \in Slugs,
              \/ \E p \in People : N!AskForGroup(c, s, p)
              \/ N!AskForAccount(c, s)
       PROVE  GroupInv'
  BY <1>1, <1>15 DEF N!AskForGroup, N!AskForAccount
<1>16. ASSUME NEW c \in Askers, NEW s \in Slugs, NEW by \in People, NEW p \in People,
              N!AskToRemove(c, s, by, p) \/ \E r \in Roles : N!AskToAdd(c, s, by, p, r)
       PROVE  GroupInv'
  BY <1>2, <1>16 DEF N!AskToRemove, N!AskToAdd, N!project, N!NoCrossing
<1>17. ASSUME NEW c \in Askers, NEW s \in Slugs, NEW by \in People,
              N!AskToDelete(c, s, by) \/ N!AskForProject(c, s, by)
       PROVE  GroupInv'
  BY <1>3, <1>17 DEF N!AskToDelete, N!AskForProject, N!project, N!NoCrossing
<1> QED
  BY <1>4, <1>5, <1>6, <1>7, <1>8, <1>9, <1>10, <1>12, <1>13, <1>14, <1>15, <1>16, <1>17 DEF N!Next

(* AddressesAndProjectsAreKept: an address is an account's or a group's,   *)
(* and no project goes with the group that held it, unless two requests    *)
(* about that address overlapped (community/groups.py create, delete).     *)
THEOREM GroupsKeepWhatTheyHold == N!Spec => [](N!TypeOK /\ N!AddressesAndProjectsAreKept)
BY GroupInit, GroupNext, PTL DEF GroupInv, N!Spec
-----------------------------------------------------------------------------
(* Issues.                                                                 *)

TellsWhen(r) == (r.closed_at # NoTime) <=> (r.state = "closed")
MemberFits(q, last) ==
    /\ "at" \in DOMAIN q /\ q.at \in {"away", "insert", "update"}
    /\ q.at = "insert" => q.number \in 1..(last + 1) /\ q.number <= MaxNumber /\ q.title \in Titles
    /\ q.at = "update" => /\ q.number \in 1..last /\ q.seen \in I!IssueRows /\ TellsWhen(q.seen)
                          /\ q.title \in Titles \union {"same"} /\ q.state \in {"open", "closed", "same"}
                          /\ q.time \in 1..MaxChanges
IssuesUpTo(last) ==
    /\ DOMAIN issues = 1..last /\ \A k \in 1..last : issues[k] \in I!IssueRows /\ TellsWhen(issues[k])
    /\ DOMAIN member = Members /\ \A m \in Members : MemberFits(member[m], last)
    /\ conflicts \subseteq Members /\ changes \in 0..MaxChanges
IssueInv == \E last \in 0..MaxNumber : IssuesUpTo(last)

LEMMA IssueInit == I!Init => IssueInv
<1> SUFFICES ASSUME I!Init PROVE IssuesUpTo(0)
  BY ForgeAssumption DEF IssueInv, IssuesAssumption
<1>1. /\ DOMAIN issues = {} /\ DOMAIN member = Members /\ conflicts = {} /\ changes = 0
      /\ \A m \in Members : member[m] = [at |-> "away"]
  BY DEF I!Init, I!Away
<1>2. \A m \in Members : MemberFits(member[m], 0)
  BY <1>1 DEF MemberFits
<1>3. 1..0 = {} /\ 0 \in 0..MaxChanges
  BY ForgeAssumption DEF IssuesAssumption
<1> QED
  BY <1>1, <1>2, <1>3 DEF IssuesUpTo

LEMMA NextNumber == ASSUME NEW last \in Nat, IssuesUpTo(last) PROVE I!_next_number = last + 1 /\ I!Cardinality(I!Numbers) = last
<1>1. Cardinality(1..last) = last
  BY FS_Interval
<1>2. I!Cardinality(I!Numbers) = Cardinality(1..last)
  BY DEF I!Cardinality, Cardinality, I!Numbers, IssuesUpTo
<1> QED
  BY <1>1, <1>2 DEF I!_next_number

\* Each request writes both of the columns or neither.
LEMMA ColumnsAreWrittenTogether ==
  ASSUME NEW now \in I!IssueRows, TellsWhen(now), NEW old \in I!IssueRows, TellsWhen(old),
         NEW title \in Titles, NEW state \in {"open", "closed"}, NEW when \in (1..MaxChanges) \union {NoTime},
         state = old.state => when = old.closed_at,
         (when # NoTime) <=> (state = "closed")
  PROVE  LET set == [title |-> title, state |-> state, closed_at |-> when]
             new == [f \in DOMAIN old |-> IF f \in DOMAIN set /\ set[f] # old[f] THEN set[f] ELSE now[f]]
         IN  new \in I!IssueRows /\ TellsWhen(new)
<1> DEFINE set == [title |-> title, state |-> state, closed_at |-> when]
           new == [f \in DOMAIN old |-> IF f \in DOMAIN set /\ set[f] # old[f] THEN set[f] ELSE now[f]]
<1>1. DOMAIN old = {"author", "title", "state", "closed_at"}
  BY DEF I!IssueRows
<1>2. /\ DOMAIN set = {"title", "state", "closed_at"}
      /\ set["title"] = title /\ set["state"] = state /\ set["closed_at"] = when
  OBVIOUS
<1> HIDE DEF set
<1>3. /\ new.author = now.author /\ new.title \in {title, now.title}
      /\ new.state = IF state # old.state THEN state ELSE now.state
      /\ new.closed_at = IF when # old.closed_at THEN when ELSE now.closed_at
  BY <1>1, <1>2
<1>4. new = [author |-> new.author, title |-> new.title, state |-> new.state, closed_at |-> new.closed_at]
  BY <1>1
<1> HIDE DEF new
<1>5. /\ now.author \in Members /\ now.title \in Titles /\ now.state \in {"open", "closed"}
      /\ now.closed_at \in (1..MaxChanges) \union {NoTime} /\ old.state \in {"open", "closed"}
  BY DEF I!IssueRows, I!States
<1>6. new \in I!IssueRows
  BY <1>3, <1>4, <1>5 DEF I!IssueRows, I!States
<1>7. state # old.state <=> when # old.closed_at
  BY <1>5 DEF TellsWhen
<1>8. TellsWhen(new)
  BY <1>3, <1>7 DEF TellsWhen
<1> QED
  BY <1>6, <1>8 DEF new, set

LEMMA IssueNext == IssueInv /\ [I!Next]_I!issueVars => IssueInv'
<1> SUFFICES ASSUME NEW last \in 0..MaxNumber, IssuesUpTo(last), [I!Next]_I!issueVars PROVE IssueInv'
  BY DEF IssueInv
<1>0. /\ last \in Nat /\ MaxNumber \in Nat /\ MaxChanges \in Nat /\ NoTime \notin 1..MaxChanges
      /\ DOMAIN issues = 1..last /\ \A k \in 1..last : issues[k] \in I!IssueRows /\ TellsWhen(issues[k])
      /\ DOMAIN member = Members /\ \A m \in Members : MemberFits(member[m], last)
      /\ conflicts \subseteq Members /\ changes \in 0..MaxChanges /\ changes \in Nat
      /\ I!_next_number = last + 1
  BY ForgeAssumption, NextNumber DEF IssuesUpTo, IssuesAssumption
<1> DEFINE a == [at |-> "away"]
<1>a. \A n \in Nat : MemberFits(a, n)
  BY DEF MemberFits
<1> HIDE DEF a
<1>k. ASSUME NEW m \in Members, NEW q, member' = [member EXCEPT ![m] = q], MemberFits(q, last), UNCHANGED issues,
             conflicts' \subseteq Members, changes' \in 0..MaxChanges
      PROVE  IssueInv'
  <2>1. IssuesUpTo(last)'
    BY <1>0, <1>k DEF IssuesUpTo
  <2> QED
    BY <2>1 DEF IssueInv
<1>1. ASSUME NEW m \in Members, I!open_issue(m) PROVE IssueInv'
  <2>1. PICK title \in Titles : member' = [member EXCEPT ![m] = [at |-> "insert", number |-> last + 1, title |-> title]]
    BY <1>0, <1>1 DEF I!open_issue
  <2> DEFINE q == [at |-> "insert", number |-> last + 1, title |-> title]
  <2>2. last + 1 <= MaxNumber /\ UNCHANGED <<issues, conflicts, changes>>
    BY <1>0, <1>1 DEF I!open_issue
  <2>3. MemberFits(q, last)
    BY <1>0, <2>2 DEF MemberFits
  <2>4. member' = [member EXCEPT ![m] = q]
    BY <2>1
  <2> HIDE DEF q
  <2> QED
    BY <1>0, <1>k, <2>2, <2>3, <2>4
<1>2. ASSUME NEW m \in Members, I!insert(m) PROVE IssueInv'
  <2> DEFINE n == member[m].number
             r == [author |-> m, title |-> member[m].title, state |-> "open", closed_at |-> NoTime]
  <2>1. /\ member[m].at = "insert" /\ member' = [member EXCEPT ![m] = a] /\ UNCHANGED changes
        /\ \/ n \in 1..last /\ conflicts' = conflicts \union {m} /\ UNCHANGED issues
           \/ /\ n \notin 1..last /\ UNCHANGED conflicts
              /\ issues' = [k \in 1..last \union {n} |-> IF k = n THEN r ELSE issues[k]]
    BY <1>0, <1>2 DEF I!insert, I!IsAt, I!Ends, I!Away, I!Numbers, I!Opened, a
  <2>2. n \in 1..(last + 1) /\ n <= MaxNumber /\ member[m].title \in Titles
    BY <1>0, <2>1 DEF MemberFits
  <2>3. CASE n \in 1..last
    <3>1. UNCHANGED issues /\ conflicts' \subseteq Members /\ changes' \in 0..MaxChanges
      BY <1>0, <2>1, <2>3
    <3> QED
      BY <1>0, <1>a, <1>k, <2>1, <3>1
  <2>4. CASE n \notin 1..last
    <3>1. /\ n = last + 1 /\ last + 1 \in 0..MaxNumber /\ 1..last \union {n} = 1..(last + 1)
      BY <1>0, <2>2, <2>4
    <3>2. r \in I!IssueRows /\ TellsWhen(r)
      BY <1>0, <2>2 DEF I!IssueRows, I!States, TellsWhen
    <3> HIDE DEF r
    <3>3. DOMAIN issues' = 1..(last + 1) /\ \A k \in 1..(last + 1) : issues'[k] \in I!IssueRows /\ TellsWhen(issues'[k])
      BY <1>0, <2>1, <2>4, <3>1, <3>2
    <3>4. ASSUME NEW x \in Members PROVE MemberFits(member'[x], last + 1)
      <4>1. MemberFits(member'[x], last)
        BY <1>0, <1>a, <2>1
      <4> HIDE DEF n
      <4> QED
        BY <1>0, <4>1 DEF MemberFits
    <3>5. IssuesUpTo(last + 1)'
      BY <1>0, <2>1, <2>4, <3>3, <3>4 DEF IssuesUpTo
    <3> QED
      BY <3>1, <3>5 DEF IssueInv
  <2> QED
    BY <2>3, <2>4
<1>3. ASSUME NEW m \in Members, NEW n \in 1..MaxNumber, I!change_issue(m, n) PROVE IssueInv'
  <2>1. /\ n \in 1..last /\ changes < MaxChanges /\ changes' = changes + 1 /\ UNCHANGED <<issues, conflicts>>
        /\ \E title \in Titles \union {"same"}, state \in {"open", "closed", "same"} :
              member' = [member EXCEPT ![m] = [at |-> "update", number |-> n, seen |-> issues[n],
                                               title |-> title, state |-> state, time |-> changes + 1]]
    BY <1>0, <1>3 DEF I!change_issue, I!find_issue, I!Numbers, I!Same, I!States
  <2>2. PICK title \in Titles \union {"same"}, state \in {"open", "closed", "same"} :
              member' = [member EXCEPT ![m] = [at |-> "update", number |-> n, seen |-> issues[n],
                                               title |-> title, state |-> state, time |-> changes + 1]]
    BY <2>1
  <2> DEFINE q == [at |-> "update", number |-> n, seen |-> issues[n], title |-> title, state |-> state, time |-> changes + 1]
  <2>3. changes + 1 \in 1..MaxChanges /\ changes' \in 0..MaxChanges
    BY <1>0, <2>1
  <2>4. MemberFits(q, last)
    BY <1>0, <2>1, <2>3 DEF MemberFits
  <2>5. member' = [member EXCEPT ![m] = q]
    BY <2>2
  <2> HIDE DEF q
  <2> QED
    BY <1>0, <1>k, <2>1, <2>3, <2>4, <2>5
<1>4. ASSUME NEW m \in Members, I!update_issue(m) PROVE IssueInv'
  <2> DEFINE old   == member[m].seen
             n     == member[m].number
             title == IF member[m].title = "same" THEN old.title ELSE member[m].title
             state == IF member[m].state = "same" THEN old.state ELSE member[m].state
             when  == IF member[m].state \in {"same", old.state} THEN old.closed_at
                      ELSE IF member[m].state = "closed" THEN member[m].time ELSE NoTime
             set   == [title |-> title, state |-> state, closed_at |-> when]
             new   == [f \in DOMAIN old |-> IF f \in DOMAIN set /\ set[f] # old[f] THEN set[f] ELSE issues[n][f]]
  <2>1. /\ member[m].at = "update" /\ member' = [member EXCEPT ![m] = a] /\ UNCHANGED <<conflicts, changes>>
        /\ issues' = [issues EXCEPT ![n] = new]
    BY <1>4 DEF I!update_issue, I!IsAt, I!Ends, I!Away, I!Asked, I!Same, I!closed_at, a
  <2>2. /\ n \in 1..last /\ old \in I!IssueRows /\ TellsWhen(old)
        /\ member[m].title \in Titles \union {"same"} /\ member[m].state \in {"open", "closed", "same"}
        /\ member[m].time \in 1..MaxChanges
    BY <1>0, <2>1 DEF MemberFits
  <2>3. issues[n] \in I!IssueRows /\ TellsWhen(issues[n])
    BY <1>0, <2>2
  <2>4. /\ old.title \in Titles /\ old.state \in {"open", "closed"} /\ old.closed_at \in (1..MaxChanges) \union {NoTime}
    BY <2>2 DEF I!IssueRows, I!States
  <2>5. /\ title \in Titles /\ state \in {"open", "closed"} /\ when \in (1..MaxChanges) \union {NoTime}
        /\ state = old.state => when = old.closed_at
        /\ (when # NoTime) <=> (state = "closed")
    BY <1>0, <2>2, <2>4 DEF TellsWhen
  <2> HIDE DEF title, state, when, old
  <2>6. new \in I!IssueRows /\ TellsWhen(new)
    BY <2>2, <2>3, <2>5, ColumnsAreWrittenTogether DEF old
  <2> HIDE DEF new
  <2>7. DOMAIN issues' = 1..last /\ \A k \in 1..last : issues'[k] \in I!IssueRows /\ TellsWhen(issues'[k])
    BY <1>0, <2>1, <2>2, <2>6
  <2>8. IssuesUpTo(last)'
    BY <1>0, <1>a, <2>1, <2>7 DEF IssuesUpTo
  <2> QED
    BY <2>8 DEF IssueInv
<1>5. CASE UNCHANGED I!issueVars
  <2>1. IssuesUpTo(last)'
    BY <1>5 DEF I!issueVars, IssuesUpTo
  <2> QED
    BY <2>1 DEF IssueInv
<1> QED
  BY <1>1, <1>2, <1>3, <1>4, <1>5 DEF I!Next

(* IssuesAreKept: issues are numbered without a gap, and one says when it  *)
(* was closed exactly while it is, for any number of requests that open,   *)
(* close, reopen and rename at one time (collaboration/service.py          *)
(* open_issue, update_issue).                                              *)
THEOREM IssuesStayInOrder == I!Spec => [](I!TypeOK /\ I!IssuesAreKept)
<1>1. IssueInv => I!TypeOK /\ I!IssuesAreKept
  <2> SUFFICES ASSUME NEW last \in 0..MaxNumber, IssuesUpTo(last) PROVE I!TypeOK /\ I!IssuesAreKept
    BY DEF IssueInv
  <2>1. last \in Nat /\ MaxNumber \in Nat /\ 1..last \subseteq 1..MaxNumber
    BY ForgeAssumption DEF IssuesAssumption
  <2>2. I!Cardinality(I!Numbers) = last /\ I!Numbers = 1..last
    BY <2>1, NextNumber DEF IssuesUpTo, I!Numbers
  <2> QED
    BY <2>1, <2>2 DEF IssuesUpTo, TellsWhen, I!TypeOK, I!IssuesAreKept
<1> QED
  BY <1>1, IssueInit, IssueNext, PTL DEF I!Spec

-----------------------------------------------------------------------------
(* Applications.                                                           *)

AppSteps   == {"insert", "start", "stop", "delete", "refresh", "run", "stopped", "gone", "ran", "failed", "inspected"}
Containers == [id : (0..MaxRuns) \union {NoId}, up : BOOLEAN, port : Ports \union {NoPort}]

RequestFits(q) ==
    /\ "at" \in DOMAIN q /\ q.at \in AppSteps \union {"free"}
    /\ q.at # "free" => /\ {"app", "seen", "met", "id", "found"} \subseteq DOMAIN q
                        /\ q.app \in Apps /\ q.seen \in E!ApplicationRows /\ q.met \in BOOLEAN
                        /\ q.id \in (0..MaxRuns) \union {NoId}

\* What a request that nobody met knows of the row r and the container b.
AloneKnows(q, r, b) ==
    /\ q.at = "insert" => r = NoRow /\ q.seen.state = "stopped"
    /\ q.at # "insert" => r # NoRow
    /\ q.at # "insert" /\ ~q.met =>
          /\ r = q.seen
          /\ q.at \in {"run", "stopped", "gone"} => b = E!NoContainer
          /\ q.at = "ran" => b.up /\ b.id = q.id
          /\ q.at = "failed" => ~b.up
          /\ q.at = "inspected" => q.found = IF b.id # q.seen.container THEN "none" ELSE IF b.up THEN "up" ELSE "down"
Agree(r, b) == IF r \notin {NoRow, Gone} /\ r.state = "running" THEN b.up /\ b.id = r.container ELSE ~b.up

AppsTyped ==
    /\ app \in [Apps -> E!ApplicationRows \union {NoRow, Gone}] /\ engine \in [Apps -> Containers]
    /\ runs \in 0..MaxRuns /\ settled \subseteq Apps
    /\ \A a \in Apps : app[a] = NoRow => engine[a] = E!NoContainer
RequestsFit == DOMAIN request = AppCalls /\ \A c \in AppCalls :
    /\ RequestFits(request[c])
    /\ request[c].at # "free" => AloneKnows(request[c], app[request[c].app], engine[request[c].app])
Meetings == \A c \in AppCalls, d \in AppCalls :
    request[c].at # "free" /\ request[d].at # "free" /\ request[c].app = request[d].app =>
        c = d \/ (request[c].met /\ request[c].at # "insert")
OnlyLooks(a) == \A c \in AppCalls : request[c].at # "free" /\ request[c].app = a => request[c].at \in {"refresh", "inspected"}
SettledFits  == \A a \in settled : app[a] # NoRow /\ Agree(app[a], engine[a]) /\ OnlyLooks(a)

AppInv == AppsTyped /\ RequestsFit /\ Meetings /\ SettledFits

LEMMA RowsAreRecords == /\ NoRow # Gone /\ NoRow \notin E!ApplicationRows /\ Gone \notin E!ApplicationRows
                        /\ MaxRuns \in Nat
                        /\ E!NoContainer \in Containers /\ E!NoContainer.up = FALSE /\ E!NoContainer.id = NoId
<1>1. E!ApplicationRows \subseteq [state : {"stopped", "running", "failed"}, container : Nat \union {NoId}, port : Ports \union {NoPort}]
  BY ForgeAssumption DEF AppsAssumption, E!ApplicationRows
<1> QED
  BY <1>1, ForgeAssumption DEF AppsAssumption, E!NoContainer, Containers

LEMMA AppInit == E!Init => AppInv
<1> SUFFICES ASSUME E!Init PROVE AppInv
  OBVIOUS
<1>1. /\ app = [a \in Apps |-> NoRow] /\ engine = [a \in Apps |-> E!NoContainer] /\ settled = {} /\ runs = 0
      /\ DOMAIN request = AppCalls /\ \A c \in AppCalls : request[c] = [at |-> "free"]
  BY DEF E!Init, E!Free
<1>2. \A c \in AppCalls : request[c].at = "free" /\ RequestFits(request[c])
  BY <1>1 DEF RequestFits
<1> QED
  BY <1>1, <1>2, RowsAreRecords DEF AppInv, AppsTyped, RequestsFit, Meetings, SettledFits

\* Nobody else is about the application.
NobodyElse(c, a) == \A d \in AppCalls \ {c} : request[d].at # "free" => request[d].app # a
SettlesWell(c, a, q, r, b) == a \in settled' =>
    /\ r # NoRow /\ Agree(r, b)
    /\ (q.at = "free" /\ NobodyElse(c, a)) \/ (a \in settled /\ q.at \in {"free", "refresh", "inspected"})

\* A request goes on or ends, with what it does to its row and its container.
LEMMA RequestMoves ==
  ASSUME AppInv, NEW c \in AppCalls, NEW a \in Apps, NEW q, NEW r, NEW b,
         request[c].at # "free", request[c].app = a,
         request' = [request EXCEPT ![c] = q], app' = [app EXCEPT ![a] = r], engine' = [engine EXCEPT ![a] = b],
         q.at = "free" \/ (q.at # "insert" /\ q.app = a /\ (request[c].met => q.met)),
         RequestFits(q), q.at # "free" => AloneKnows(q, r, b),
         r \in E!ApplicationRows \union {NoRow, Gone}, b \in Containers, runs' \in 0..MaxRuns,
         r = NoRow => app[a] = NoRow /\ b = E!NoContainer,
         settled' \subseteq settled \union {a}, SettlesWell(c, a, q, r, b)
  PROVE  AppInv'
<1>0. /\ DOMAIN request' = AppCalls /\ request'[c] = q /\ \A d \in AppCalls \ {c} : request'[d] = request[d]
      /\ app' \in [Apps -> E!ApplicationRows \union {NoRow, Gone}] /\ app'[a] = r /\ \A x \in Apps \ {a} : app'[x] = app[x]
      /\ engine' \in [Apps -> Containers] /\ engine'[a] = b /\ \A x \in Apps \ {a} : engine'[x] = engine[x]
  BY DEF AppInv, RequestsFit, AppsTyped
<1>1. AppsTyped'
  BY <1>0 DEF AppInv, AppsTyped
<1>2. ASSUME NEW d \in AppCalls \ {c}, request[d].at # "free", request[d].app = a
      PROVE  request[d].met /\ request[d].at # "insert" /\ request[c].met /\ r # NoRow
  <2>1. request[d].met /\ request[d].at # "insert" /\ request[c].met
    BY <1>2 DEF AppInv, Meetings
  <2>2. app[a] # NoRow
    BY <1>2, <2>1 DEF AppInv, RequestsFit, AloneKnows
  <2> QED
    BY <2>1, <2>2
<1>3. RequestsFit'
  <2> SUFFICES ASSUME NEW d \in AppCalls
               PROVE  /\ RequestFits(request'[d])
                      /\ request'[d].at # "free" => AloneKnows(request'[d], app'[request'[d].app], engine'[request'[d].app])
    BY <1>0 DEF RequestsFit
  <2>1. CASE d = c
    BY <1>0, <2>1
  <2>2. CASE d # c /\ request[d].at # "free" /\ request[d].app = a
    <3>1. RequestFits(request[d])
      BY DEF AppInv, RequestsFit
    <3> QED
      BY <1>0, <1>2, <2>2, <3>1 DEF AloneKnows
  <2>3. CASE d # c /\ ~(request[d].at # "free" /\ request[d].app = a)
    <3>1. RequestFits(request[d])
      BY DEF AppInv, RequestsFit
    <3>2. request[d].at # "free" => request[d].app \in Apps \ {a}
      BY <2>3, <3>1 DEF RequestFits
    <3> QED
      BY <1>0, <2>3, <3>1, <3>2 DEF AppInv, RequestsFit
  <2> QED
    BY <2>1, <2>2, <2>3
<1>4. Meetings'
  <2> SUFFICES ASSUME NEW x \in AppCalls, NEW y \in AppCalls, request'[x].at # "free", request'[y].at # "free",
                      request'[x].app = request'[y].app, x # y
               PROVE  request'[x].met /\ request'[x].at # "insert"
    BY DEF Meetings
  <2>1. CASE x = c
    BY <1>0, <1>2, <2>1
  <2>2. CASE y = c
    BY <1>0, <1>2, <2>2
  <2>3. CASE x # c /\ y # c
    BY <1>0, <2>3 DEF AppInv, Meetings
  <2> QED
    BY <2>1, <2>2, <2>3
<1>5. SettledFits'
  <2> SUFFICES ASSUME NEW x \in settled' PROVE app'[x] # NoRow /\ Agree(app'[x], engine'[x]) /\ OnlyLooks(x)'
    BY DEF SettledFits, Agree
  <2>1. CASE x = a
    <3>1. app'[x] # NoRow /\ Agree(app'[x], engine'[x])
      BY <1>0, <2>1 DEF SettlesWell
    <3>2. ASSUME NEW d \in AppCalls, request'[d].at # "free", request'[d].app = a
          PROVE  request'[d].at \in {"refresh", "inspected"}
      <4>1. CASE q.at = "free" /\ NobodyElse(c, a)
        BY <1>0, <3>2, <4>1 DEF NobodyElse
      <4>2. CASE a \in settled /\ q.at \in {"free", "refresh", "inspected"}
        BY <1>0, <3>2, <4>2 DEF AppInv, SettledFits, OnlyLooks
      <4> QED
        BY <2>1, <4>1, <4>2 DEF SettlesWell
    <3> QED
      BY <2>1, <3>1, <3>2 DEF OnlyLooks
  <2>2. CASE x # a
    <3>1. x \in settled /\ x \in Apps \ {a}
      BY <2>2 DEF AppInv, AppsTyped
    <3>2. app'[x] # NoRow /\ Agree(app'[x], engine'[x])
      BY <1>0, <3>1 DEF AppInv, SettledFits
    <3>3. OnlyLooks(x)'
      BY <1>0, <3>1 DEF AppInv, SettledFits, OnlyLooks
    <3> QED
      BY <3>2, <3>3
  <2> QED
    BY <2>1, <2>2
<1> QED
  BY <1>1, <1>3, <1>4, <1>5 DEF AppInv

\* The session's commit keeps a row, writes it as asked, or finds none.
LEMMA CommitIs ==
  ASSUME AppInv, NEW c \in AppCalls, request[c].at # "free", NEW a \in Apps, request[c].app = a,
         NEW state \in {"stopped", "running", "failed"}, NEW id \in (0..MaxRuns) \union {NoId}, E!Commit(c, state, id)
  PROVE  \E r \in E!ApplicationRows \union {NoRow, Gone} :
            /\ app' = [app EXCEPT ![a] = r] /\ (r = NoRow => app[a] = NoRow)
            /\ app[a] = request[c].seen => r = [state |-> state, container |-> id, port |-> request[c].seen.port]
<1>0. /\ request[c].seen \in E!ApplicationRows /\ app[a] \in E!ApplicationRows \union {NoRow, Gone} /\ DOMAIN app = Apps
      /\ E!About(c) = a /\ E!Seen(c) = request[c].seen /\ app = [app EXCEPT ![a] = app[a]]
  <2>1. /\ request[c].seen \in E!ApplicationRows /\ app[a] \in E!ApplicationRows \union {NoRow, Gone} /\ DOMAIN app = Apps
    BY DEF AppInv, RequestsFit, RequestFits, AppsTyped
  <2>2. app = [app EXCEPT ![a] = app[a]]
    BY DEF AppInv, AppsTyped
  <2> QED
    BY <2>1, <2>2 DEF E!About, E!Seen
<1>1. CASE app[a] \in {NoRow, Gone}
  <2>1. app' = [app EXCEPT ![a] = app[a]] /\ app[a] # request[c].seen
    BY <1>0, <1>1, RowsAreRecords DEF E!Commit, E!Exists
  <2> QED
    BY <1>0, <2>1
<1>2. CASE app[a] \notin {NoRow, Gone}
  <2> DEFINE seenRow == request[c].seen
             st == IF state = seenRow.state THEN app[a].state ELSE state
             co == IF id = seenRow.container THEN app[a].container ELSE id
             r == [state |-> st, container |-> co, port |-> app[a].port]
  <2>1. app' = [app EXCEPT ![a] = r]
    BY <1>0, <1>2 DEF E!Commit, E!Exists, E!Row
  <2>2. /\ app[a].state \in {"stopped", "running", "failed"} /\ app[a].container \in (0..MaxRuns) \union {NoId}
        /\ app[a].port \in Ports \union {NoPort}
    BY <1>0, <1>2 DEF E!ApplicationRows
  <2>3. st \in {"stopped", "running", "failed"} /\ co \in (0..MaxRuns) \union {NoId}
    BY <2>2
  <2>4. app[a] = seenRow => st = state /\ co = id /\ app[a].port = seenRow.port
    OBVIOUS
  <2> HIDE DEF st, co
  <2>5. r \in E!ApplicationRows
    BY <2>2, <2>3 DEF E!ApplicationRows
  <2> QED
    BY <2>1, <2>4, <2>5, RowsAreRecords
<1> QED
  BY <1>1, <1>2

LEMMA SettleIs ==
  ASSUME AppInv, NEW c \in AppCalls, request[c].at # "free", NEW a \in Apps, request[c].app = a, E!Settle(c)
  PROVE  settled' \subseteq settled \union {a} /\ (a \in settled' => ~request[c].met /\ NobodyElse(c, a))
BY DEF E!Settle, E!Alone, E!On, E!At, E!About, NobodyElse, AppInv, AppsTyped

\* A request ends with the commit, and settles its application if it was alone.
LEMMA RequestSettles ==
  ASSUME AppInv, NEW c \in AppCalls, request[c].at # "free", NEW a \in Apps, request[c].app = a, E!Settle(c), E!Closes(c),
         NEW r \in E!ApplicationRows \union {NoRow, Gone}, app' = [app EXCEPT ![a] = r], r = NoRow => app[a] = NoRow,
         UNCHANGED <<engine, runs>>, ~request[c].met => r # NoRow /\ Agree(r, engine[a])
  PROVE  AppInv'
<1> DEFINE q == [at |-> "free"]
<1>1. request' = [request EXCEPT ![c] = q]
  BY DEF E!Closes, E!Free
<1>2. q.at = "free" /\ RequestFits(q)
  BY DEF RequestFits
<1> HIDE DEF q
<1>3. /\ engine' = [engine EXCEPT ![a] = engine[a]] /\ engine[a] \in Containers /\ runs' \in 0..MaxRuns
      /\ r = NoRow => app[a] = NoRow /\ engine[a] = E!NoContainer
  BY DEF AppInv, AppsTyped
<1>4. settled' \subseteq settled \union {a} /\ SettlesWell(c, a, q, r, engine[a])
  BY <1>2, SettleIs DEF SettlesWell
<1> QED
  BY <1>1, <1>2, <1>3, <1>4, RequestMoves

\* A request begins: whoever was at the application is met.
LEMMA RequestBegins ==
  ASSUME AppInv, NEW c \in AppCalls, NEW a \in Apps, NEW what \in {"start", "stop", "delete", "refresh"}, E!_allowed(c, a, what)
  PROVE  AppInv'
<1> DEFINE m == E!On(a) # {}
           q == [at |-> what, app |-> a, seen |-> app[a], met |-> m, id |-> NoId, found |-> "none"]
<1>0. /\ request[c].at = "free" /\ app[a] \notin {NoRow, Gone} /\ app[a] \in E!ApplicationRows
      /\ UNCHANGED <<app, engine, runs>> /\ settled' = IF what = "refresh" THEN settled ELSE settled \ {a}
      /\ DOMAIN request = AppCalls /\ \A d \in AppCalls : RequestFits(request[d])
  BY DEF E!_allowed, E!At, E!Exists, AppInv, AppsTyped, RequestsFit
<1>1. /\ DOMAIN request' = AppCalls /\ request'[c] = q
      /\ \A d \in AppCalls \ {c} : request'[d] = IF request[d].at # "free" /\ request[d].app = a
                                                 THEN [request[d] EXCEPT !.met = TRUE] ELSE request[d]
  BY DEF E!_allowed, E!Asking, E!On, E!At, E!About
<1>2. /\ q.at = what /\ q.app = a /\ q.seen = app[a] /\ q.met = m /\ q.id = NoId
      /\ {"at", "app", "seen", "met", "id", "found"} \subseteq DOMAIN q
  OBVIOUS
<1>3. m \in BOOLEAN /\ (m \/ NobodyElse(c, a))
  BY DEF E!On, E!At, E!About, NobodyElse
<1> HIDE DEF q, m
<1>4. RequestFits(q) /\ AloneKnows(q, app[a], engine[a])
  BY <1>0, <1>2, <1>3 DEF RequestFits, AloneKnows, AppSteps
<1>5. ASSUME NEW d \in AppCalls \ {c}
      PROVE  /\ RequestFits(request'[d]) /\ request'[d].at = request[d].at
             /\ request[d].at # "free" => /\ request'[d].app = request[d].app
                                          /\ request[d].app = a => request'[d].met /\ request[d].at # "insert"
                                          /\ AloneKnows(request'[d], app[request[d].app], engine[request[d].app])
  <2>1. CASE request[d].at # "free" /\ request[d].app = a
    <3>1. /\ request'[d].at = request[d].at /\ request'[d].app = a /\ request'[d].met = TRUE
          /\ request'[d].seen = request[d].seen /\ request'[d].id = request[d].id
          /\ {"at", "app", "seen", "met", "id", "found"} \subseteq DOMAIN request'[d]
      BY <1>0, <1>1, <2>1 DEF RequestFits
    <3>2. RequestFits(request'[d])
      BY <1>0, <2>1, <3>1 DEF RequestFits
    <3>3. request[d].at # "insert"
      BY <1>0, <2>1 DEF AppInv, RequestsFit, AloneKnows
    <3> QED
      BY <1>0, <2>1, <3>1, <3>2, <3>3 DEF AloneKnows
  <2>2. CASE ~(request[d].at # "free" /\ request[d].app = a)
    BY <1>0, <1>1, <2>2 DEF AppInv, RequestsFit
  <2> QED
    BY <2>1, <2>2
<1>6. AppsTyped'
  BY <1>0 DEF AppInv, AppsTyped
<1>7. RequestsFit'
  <2>1. ASSUME NEW d \in AppCalls
        PROVE  /\ RequestFits(request'[d])
               /\ request'[d].at # "free" => AloneKnows(request'[d], app'[request'[d].app], engine'[request'[d].app])
    <3>1. CASE d = c
      BY <1>0, <1>1, <1>2, <1>4, <3>1
    <3>2. CASE d # c
      BY <1>0, <1>5, <3>2
    <3> QED
      BY <3>1, <3>2
  <2> QED
    BY <1>1, <2>1 DEF RequestsFit
<1>8. Meetings'
  <2> SUFFICES ASSUME NEW x \in AppCalls, NEW y \in AppCalls, request'[x].at # "free", request'[y].at # "free",
                      request'[x].app = request'[y].app, x # y
               PROVE  request'[x].met /\ request'[x].at # "insert"
    BY DEF Meetings
  <2>1. CASE x = c
    <3>1. y \in AppCalls \ {c} /\ request[y].at # "free" /\ request[y].app = a
      BY <1>1, <1>2, <1>5, <2>1
    <3> QED
      BY <1>1, <1>2, <1>3, <2>1, <3>1 DEF NobodyElse
  <2>2. CASE y = c
    BY <1>1, <1>2, <1>5, <2>2
  <2>3. CASE x # c /\ y # c
    <3>1. /\ request[x].at # "free" /\ request[y].at # "free" /\ request[x].app = request[y].app
          /\ request'[x].at = request[x].at
      BY <1>5, <2>3
    <3>2. request[x].met /\ request[x].at # "insert"
      BY <3>1 DEF AppInv, Meetings
    <3>3. request[x].app = a \/ request'[x] = request[x]
      BY <1>1, <2>3
    <3> QED
      BY <1>5, <2>3, <3>1, <3>2, <3>3
  <2> QED
    BY <2>1, <2>2, <2>3
<1>9. SettledFits'
  <2> SUFFICES ASSUME NEW x \in settled' PROVE app'[x] # NoRow /\ Agree(app'[x], engine'[x]) /\ OnlyLooks(x)'
    BY DEF SettledFits, Agree
  <2>1. x \in settled /\ (x = a => what = "refresh")
    BY <1>0
  <2>2. app'[x] # NoRow /\ Agree(app'[x], engine'[x])
    BY <1>0, <2>1 DEF AppInv, SettledFits
  <2>3. ASSUME NEW d \in AppCalls, request'[d].at # "free", request'[d].app = x
        PROVE  request'[d].at \in {"refresh", "inspected"}
    <3>1. CASE d = c
      BY <1>1, <1>2, <2>1, <2>3, <3>1
    <3>2. CASE d # c
      <4>1. request[d].at # "free" /\ request[d].app = x /\ request'[d].at = request[d].at
        BY <1>5, <2>3, <3>2
      <4> QED
        BY <2>1, <4>1 DEF AppInv, SettledFits, OnlyLooks
    <3> QED
      BY <3>1, <3>2
  <2> QED
    BY <2>2, <2>3 DEF OnlyLooks
<1> QED
  BY <1>6, <1>7, <1>8, <1>9 DEF AppInv

\* A request for a new application begins.
LEMMA ApplicationIsAsked ==
  ASSUME AppInv, NEW c \in AppCalls, NEW a \in Apps, E!create(c, a) PROVE AppInv'
<1>1. PICK p \in Ports \union {NoPort} :
          request' = [request EXCEPT ![c] = [at |-> "insert", app |-> a, seen |-> [state |-> "stopped", container |-> NoId, port |-> p],
                                             met |-> FALSE, id |-> NoId, found |-> "none"]]
  BY DEF E!create, E!Asking, E!Row
<1> DEFINE s == [state |-> "stopped", container |-> NoId, port |-> p]
           q == [at |-> "insert", app |-> a, seen |-> s, met |-> FALSE, id |-> NoId, found |-> "none"]
<1>2. /\ request' = [request EXCEPT ![c] = q] /\ request[c].at = "free" /\ app[a] = NoRow
      /\ UNCHANGED <<app, engine, settled, runs>> /\ NobodyElse(c, a) /\ DOMAIN request = AppCalls
  BY <1>1 DEF E!create, E!At, E!On, E!About, NobodyElse, AppInv, RequestsFit
<1>3. s \in E!ApplicationRows /\ s.state = "stopped"
  BY DEF E!ApplicationRows
<1> HIDE DEF s
<1>4. RequestFits(q) /\ AloneKnows(q, app[a], engine[a]) /\ q.app = a /\ q.at = "insert"
  BY <1>2, <1>3 DEF RequestFits, AloneKnows, AppSteps
<1> HIDE DEF q
<1>5. a \notin settled
  BY <1>2 DEF AppInv, SettledFits
<1>6. AppsTyped'
  BY <1>2 DEF AppInv, AppsTyped
<1>7. RequestsFit'
  BY <1>2, <1>4 DEF AppInv, RequestsFit
<1>8. Meetings'
  BY <1>2, <1>4 DEF AppInv, Meetings, NobodyElse
<1>9. SettledFits'
  BY <1>2, <1>4, <1>5 DEF AppInv, SettledFits, OnlyLooks
<1> QED
  BY <1>6, <1>7, <1>8, <1>9 DEF AppInv

\* A container ends by itself, and whoever is at its application is met.
LEMMA ContainerExits ==
  ASSUME AppInv, NEW a \in Apps, E!Exits(a) PROVE AppInv'
<1> DEFINE b == [engine[a] EXCEPT !.up = FALSE]
<1>1. /\ engine[a].up /\ engine' = [engine EXCEPT ![a] = b] /\ settled' = settled \ {a} /\ UNCHANGED <<app, runs>>
      /\ engine[a] \in Containers /\ b \in Containers
  BY DEF E!Exits, E!Fault, AppInv, AppsTyped, Containers
<1>2. /\ DOMAIN request' = AppCalls
      /\ \A d \in AppCalls : request'[d] = IF request[d].at # "free" /\ request[d].app = a
                                           THEN [request[d] EXCEPT !.met = TRUE] ELSE request[d]
  BY DEF E!Exits, E!On, E!At, E!About
<1> HIDE DEF b
<1>3. app[a] # NoRow
  BY <1>1, RowsAreRecords DEF AppInv, AppsTyped
<1>4. AppsTyped'
  BY <1>1, <1>3 DEF AppInv, AppsTyped
<1>5. ASSUME NEW d \in AppCalls
      PROVE  /\ RequestFits(request'[d]) /\ request'[d].at = request[d].at
             /\ request[d].at # "free" => /\ request'[d].app = request[d].app /\ (request[d].met => request'[d].met)
                                          /\ AloneKnows(request'[d], app'[request'[d].app], engine'[request'[d].app])
  <2>0. RequestFits(request[d]) /\ (request[d].at # "free" => AloneKnows(request[d], app[request[d].app], engine[request[d].app]))
    BY DEF AppInv, RequestsFit
  <2>1. CASE request[d].at # "free" /\ request[d].app = a
    <3>1. /\ request'[d].at = request[d].at /\ request'[d].app = a /\ request'[d].met = TRUE
          /\ request'[d].seen = request[d].seen /\ request'[d].id = request[d].id
          /\ {"at", "app", "seen", "met", "id", "found"} \subseteq DOMAIN request'[d]
      BY <1>2, <2>0, <2>1 DEF RequestFits
    <3>2. RequestFits(request'[d])
      BY <2>0, <2>1, <3>1 DEF RequestFits
    <3>3. request[d].at # "insert"
      BY <1>3, <2>0, <2>1 DEF AloneKnows
    <3> QED
      BY <1>1, <1>3, <2>1, <3>1, <3>2, <3>3 DEF AloneKnows
  <2>2. CASE request[d].at # "free" /\ request[d].app # a
    <3>1. request[d].app \in Apps
      BY <2>0, <2>2 DEF RequestFits
    <3>2. request'[d] = request[d] /\ app'[request[d].app] = app[request[d].app] /\ engine'[request[d].app] = engine[request[d].app]
      BY <1>1, <1>2, <2>2, <3>1 DEF AppInv, AppsTyped
    <3> QED
      BY <2>0, <3>2
  <2>3. CASE request[d].at = "free"
    BY <1>2, <2>0, <2>3
  <2> QED
    BY <2>1, <2>2, <2>3
<1>6. RequestsFit'
  BY <1>2, <1>5 DEF RequestsFit
<1>7. Meetings'
  BY <1>5 DEF AppInv, Meetings
<1>8. SettledFits'
  <2> SUFFICES ASSUME NEW x \in settled' PROVE app'[x] # NoRow /\ Agree(app'[x], engine'[x]) /\ OnlyLooks(x)'
    BY DEF SettledFits, Agree
  <2>1. x \in settled /\ x # a /\ x \in Apps
    BY <1>1 DEF AppInv, AppsTyped
  <2>2. app'[x] # NoRow /\ Agree(app'[x], engine'[x])
    <3>1. app'[x] = app[x] /\ engine'[x] = engine[x]
      BY <1>1, <2>1 DEF AppInv, AppsTyped
    <3> QED
      BY <2>1, <3>1 DEF AppInv, SettledFits
  <2>3. OnlyLooks(x)'
    BY <1>5, <2>1 DEF AppInv, SettledFits, OnlyLooks
  <2> QED
    BY <2>2, <2>3
<1> QED
  BY <1>4, <1>6, <1>7, <1>8 DEF AppInv

\* What any request that is under way comes with.
LEMMA UnderWay ==
  ASSUME AppInv, NEW c \in AppCalls, request[c].at # "free", NEW a, a = request[c].app
  PROVE  /\ a \in Apps /\ request[c].seen \in E!ApplicationRows /\ request[c].met \in BOOLEAN
         /\ request[c].id \in (0..MaxRuns) \union {NoId}
         /\ {"at", "app", "seen", "met", "id", "found"} \subseteq DOMAIN request[c] /\ DOMAIN request = AppCalls
         /\ AloneKnows(request[c], app[a], engine[a])
         /\ app = [app EXCEPT ![a] = app[a]] /\ engine = [engine EXCEPT ![a] = engine[a]]
         /\ app[a] \in E!ApplicationRows \union {NoRow, Gone} /\ engine[a] \in Containers
         /\ (app[a] = NoRow => engine[a] = E!NoContainer) /\ runs \in 0..MaxRuns
         /\ request[c].at \notin {"refresh", "inspected"} => a \notin settled
BY DEF AppInv, RequestsFit, RequestFits, AppsTyped, SettledFits, OnlyLooks

LEMMA ContainerIsForgotten ==
  ASSUME AppInv, NEW c \in AppCalls, E!_forget_container(c) PROVE AppInv'
<1>1. PICK a : a = request[c].app
  OBVIOUS
<1> DEFINE t == CASE request[c].at = "start" -> "run" [] request[c].at = "stop" -> "stopped" [] OTHER -> "gone"
           q == [request[c] EXCEPT !.at = t]
           w == [request[c] EXCEPT !.met = TRUE, !.at = t]
<1>2. /\ request[c].at \in {"start", "stop", "delete"} /\ UNCHANGED <<app, runs>>
      /\ \/ engine' = [engine EXCEPT ![a] = E!NoContainer] /\ settled' = settled /\ request' = [request EXCEPT ![c] = q]
         \/ engine' = engine /\ settled' = settled \ {a} /\ request' = [request EXCEPT ![c] = w]
  BY <1>1, UnderWay DEF E!_forget_container, E!About, E!Moves, E!At, E!Fault
<1>3. t \in {"run", "stopped", "gone"}
  OBVIOUS
<1> HIDE DEF t
<1>4. /\ q.at = t /\ q.app = a /\ q.seen = request[c].seen /\ q.met = request[c].met /\ q.id = request[c].id
      /\ w.at = t /\ w.app = a /\ w.seen = request[c].seen /\ w.met = TRUE /\ w.id = request[c].id
      /\ {"at", "app", "seen", "met", "id", "found"} \subseteq DOMAIN q
      /\ {"at", "app", "seen", "met", "id", "found"} \subseteq DOMAIN w
  BY <1>1, <1>2, UnderWay
<1> HIDE DEF q, w
<1>5. /\ a \in Apps /\ app[a] # NoRow /\ a \notin settled' /\ settled' \subseteq settled \union {a}
      /\ request[c].at # "free" /\ request[c].app = a /\ runs' \in 0..MaxRuns
      /\ app' = [app EXCEPT ![a] = app[a]] /\ app[a] \in E!ApplicationRows \union {NoRow, Gone}
  BY <1>1, <1>2, UnderWay DEF AloneKnows
<1>6. RequestFits(q) /\ RequestFits(w)
  <2>1. /\ request[c].seen \in E!ApplicationRows /\ request[c].met \in BOOLEAN
        /\ request[c].id \in (0..MaxRuns) \union {NoId}
    BY <1>1, <1>5, UnderWay
  <2>2. t \in AppSteps \union {"free"}
    BY <1>3 DEF AppSteps
  <2> QED
    BY <1>4, <1>5, <2>1, <2>2 DEF RequestFits
<1>7. AloneKnows(q, app[a], E!NoContainer) /\ AloneKnows(w, app[a], engine[a])
  BY <1>1, <1>2, <1>3, <1>4, <1>5, UnderWay DEF AloneKnows
<1>8. CASE engine' = [engine EXCEPT ![a] = E!NoContainer] /\ request' = [request EXCEPT ![c] = q]
  <2>1. SettlesWell(c, a, q, app[a], E!NoContainer) /\ q.at # "insert" /\ (request[c].met => q.met)
    BY <1>3, <1>4, <1>5 DEF SettlesWell
  <2> QED
    BY <1>4, <1>5, <1>6, <1>7, <1>8, <2>1, RequestMoves, RowsAreRecords
<1>9. CASE engine' = engine /\ request' = [request EXCEPT ![c] = w]
  <2>1. SettlesWell(c, a, w, app[a], engine[a]) /\ w.at # "insert" /\ (request[c].met => w.met)
    BY <1>3, <1>4, <1>5 DEF SettlesWell
  <2>2. engine' = [engine EXCEPT ![a] = engine[a]] /\ engine[a] \in Containers
    BY <1>1, <1>5, <1>9, UnderWay
  <2> QED
    BY <1>4, <1>5, <1>6, <1>7, <1>9, <2>1, <2>2, RequestMoves
<1> QED
  BY <1>2, <1>8, <1>9

LEMMA ContainerRuns ==
  ASSUME AppInv, NEW c \in AppCalls, E!run(c) PROVE AppInv'
<1>1. PICK a : a = request[c].app
  OBVIOUS
<1> DEFINE q == [request[c] EXCEPT !.at = "failed"]
           w == [request[c] EXCEPT !.at = "failed", !.met = TRUE]
           k == [request[c] EXCEPT !.at = "ran", !.id = runs]
           on  == [id |-> runs, up |-> TRUE, port |-> request[c].seen.port]
           off == [id |-> runs, up |-> FALSE, port |-> request[c].seen.port]
<1>2. /\ request[c].at = "run" /\ runs < MaxRuns /\ app' = app
      /\ \/ engine[a] # E!NoContainer /\ request' = [request EXCEPT ![c] = q] /\ UNCHANGED <<engine, runs, settled>>
         \/ runs' = runs + 1 /\ engine' = [engine EXCEPT ![a] = on] /\ request' = [request EXCEPT ![c] = k] /\ settled' = settled
         \/ runs' = runs + 1 /\ engine' = [engine EXCEPT ![a] = off] /\ request' = [request EXCEPT ![c] = q] /\ settled' = settled
         \/ runs' = runs + 1 /\ engine' = [engine EXCEPT ![a] = on] /\ request' = [request EXCEPT ![c] = w]
            /\ settled' = settled \ {a}
  BY <1>1, UnderWay DEF E!run, E!About, E!Moves, E!At, E!Fault, E!Container, E!Seen
<1>3. /\ q.at = "failed" /\ q.app = a /\ q.seen = request[c].seen /\ q.met = request[c].met /\ q.id = request[c].id
      /\ w.at = "failed" /\ w.app = a /\ w.seen = request[c].seen /\ w.met = TRUE /\ w.id = request[c].id
      /\ k.at = "ran" /\ k.app = a /\ k.seen = request[c].seen /\ k.met = request[c].met /\ k.id = runs
      /\ {"at", "app", "seen", "met", "id", "found"} \subseteq DOMAIN q
      /\ {"at", "app", "seen", "met", "id", "found"} \subseteq DOMAIN w
      /\ {"at", "app", "seen", "met", "id", "found"} \subseteq DOMAIN k
  BY <1>1, <1>2, UnderWay
<1>4. on.up = TRUE /\ off.up = FALSE /\ on.id = runs
  OBVIOUS
<1>5. /\ a \in Apps /\ app[a] # NoRow /\ a \notin settled' /\ settled' \subseteq settled \union {a}
      /\ request[c].at # "free" /\ request[c].app = a /\ runs \in 0..MaxRuns
      /\ app' = [app EXCEPT ![a] = app[a]] /\ app[a] \in E!ApplicationRows \union {NoRow, Gone}
  BY <1>1, <1>2, UnderWay DEF AloneKnows
<1>6. runs' \in 0..MaxRuns
  BY <1>2, <1>5, RowsAreRecords
<1>7. on \in Containers /\ off \in Containers
  <2>1. request[c].seen.port \in Ports \union {NoPort}
    BY <1>1, <1>5, UnderWay DEF E!ApplicationRows
  <2> QED
    BY <1>5, <2>1 DEF Containers
<1> HIDE DEF q, w, k, on, off
<1>8. RequestFits(q) /\ RequestFits(w) /\ RequestFits(k)
  BY <1>1, <1>3, <1>5, UnderWay DEF RequestFits, AppSteps
<1>9. /\ AloneKnows(q, app[a], off) /\ AloneKnows(w, app[a], on) /\ AloneKnows(k, app[a], on)
      /\ engine[a] # E!NoContainer => AloneKnows(q, app[a], engine[a])
  BY <1>1, <1>2, <1>3, <1>4, <1>5, UnderWay DEF AloneKnows
<1>10. \A x, b : SettlesWell(c, a, x, app[a], b)
  BY <1>5 DEF SettlesWell
<1>11. CASE engine[a] # E!NoContainer /\ request' = [request EXCEPT ![c] = q] /\ UNCHANGED engine
  <2>1. engine' = [engine EXCEPT ![a] = engine[a]] /\ engine[a] \in Containers
    BY <1>1, <1>5, <1>11, UnderWay
  <2> QED
    BY <1>3, <1>5, <1>6, <1>8, <1>9, <1>10, <1>11, <2>1, RequestMoves
<1>12. CASE engine' = [engine EXCEPT ![a] = on] /\ request' = [request EXCEPT ![c] = k]
  BY <1>3, <1>5, <1>6, <1>7, <1>8, <1>9, <1>10, <1>12, RequestMoves
<1>13. CASE engine' = [engine EXCEPT ![a] = off] /\ request' = [request EXCEPT ![c] = q]
  BY <1>3, <1>5, <1>6, <1>7, <1>8, <1>9, <1>10, <1>13, RequestMoves
<1>14. CASE engine' = [engine EXCEPT ![a] = on] /\ request' = [request EXCEPT ![c] = w]
  BY <1>3, <1>5, <1>6, <1>7, <1>8, <1>9, <1>10, <1>14, RequestMoves
<1> QED
  BY <1>2, <1>11, <1>12, <1>13, <1>14
\* The step of refresh that ends without a commit, or learns what the engine has.
LEMMA ContainerIsLookedAt ==
  ASSUME AppInv, NEW c \in AppCalls, E!refresh(c) PROVE AppInv'
<1>1. PICK a : a = request[c].app
  OBVIOUS
<1>2. request[c].at = "refresh" /\ UNCHANGED <<app, engine, settled, runs>>
  BY DEF E!refresh, E!At
<1>3. /\ a \in Apps /\ request[c].seen \in E!ApplicationRows /\ request[c].met \in BOOLEAN
      /\ request[c].id \in (0..MaxRuns) \union {NoId}
      /\ {"at", "app", "seen", "met", "id", "found"} \subseteq DOMAIN request[c]
      /\ AloneKnows(request[c], app[a], engine[a])
      /\ app = [app EXCEPT ![a] = app[a]] /\ engine = [engine EXCEPT ![a] = engine[a]]
      /\ app[a] \in E!ApplicationRows \union {NoRow, Gone} /\ engine[a] \in Containers
      /\ (app[a] = NoRow => engine[a] = E!NoContainer) /\ runs' \in 0..MaxRuns
  BY <1>1, <1>2, UnderWay
<1>4. settled \subseteq settled \union {a} /\ (a \in settled => app[a] # NoRow /\ Agree(app[a], engine[a]))
  BY DEF AppInv, SettledFits
<1>5. CASE E!Closes(c)
  <2> DEFINE q == [at |-> "free"]
  <2>1. request' = [request EXCEPT ![c] = q] /\ q.at = "free"
    BY <1>5 DEF E!Closes, E!Free
  <2>2. RequestFits(q)
    BY DEF RequestFits
  <2> HIDE DEF q
  <2>3. SettlesWell(c, a, q, app[a], engine[a])
    BY <1>2, <1>4, <2>1 DEF SettlesWell
  <2>4. settled' \subseteq settled \union {a} /\ app' = [app EXCEPT ![a] = app[a]] /\ engine' = [engine EXCEPT ![a] = engine[a]]
    BY <1>2, <1>3
  <2>5. request[c].at # "free" /\ (q.at # "free" => AloneKnows(q, app[a], engine[a]))
    BY <1>2, <2>1
  <2> QED
    BY <1>1, <1>3, <2>1, <2>2, <2>3, <2>4, <2>5, RequestMoves
<1>6. CASE ~E!Closes(c)
  <2>0. PICK found : /\ request' = [request EXCEPT ![c].at = "inspected", ![c].found = found]
                     /\ found = IF engine[a].id # request[c].seen.container THEN "none" ELSE IF engine[a].up THEN "up" ELSE "down"
    BY <1>1, <1>6 DEF E!refresh, E!About, E!Seen
  <2> DEFINE q == [request[c] EXCEPT !.at = "inspected", !.found = found]
  <2>1. request' = [request EXCEPT ![c] = q]
    BY <2>0
  <2>2. /\ q.at = "inspected" /\ q.app = a /\ q.seen = request[c].seen /\ q.met = request[c].met /\ q.id = request[c].id
        /\ q.found = found /\ {"at", "app", "seen", "met", "id", "found"} \subseteq DOMAIN q
    BY <1>1, <1>3
  <2> HIDE DEF q
  <2>3. RequestFits(q)
    BY <1>3, <2>2 DEF RequestFits, AppSteps
  <2>4. AloneKnows(q, app[a], engine[a])
    BY <1>2, <1>3, <2>0, <2>2 DEF AloneKnows
  <2>5. SettlesWell(c, a, q, app[a], engine[a])
    BY <1>2, <1>4, <2>2 DEF SettlesWell
  <2>6. settled' \subseteq settled \union {a} /\ app' = [app EXCEPT ![a] = app[a]] /\ engine' = [engine EXCEPT ![a] = engine[a]]
    BY <1>2, <1>3
  <2>7. q.at # "insert" /\ (request[c].met => q.met) /\ request[c].at # "free"
    BY <1>2, <2>2
  <2> QED
    BY <1>1, <1>3, <2>1, <2>2, <2>3, <2>4, <2>5, <2>6, <2>7, RequestMoves
<1> QED
  BY <1>5, <1>6

\* What was looked at is written down: the row of a settled application stays in agreement.
LEMMA ContainerIsNoted ==
  ASSUME AppInv, NEW c \in AppCalls, E!Refreshed(c) PROVE AppInv'
<1>1. PICK a : a = request[c].app
  OBVIOUS
<1>2. /\ request[c].at = "inspected" /\ E!Closes(c) /\ UNCHANGED <<engine, runs>>
      /\ settled' \subseteq settled /\ (a \in settled' => ~request[c].met /\ a \in settled)
  BY <1>1 DEF E!Refreshed, E!At, E!Alone, E!About
<1>3. /\ a \in Apps /\ request[c].seen \in E!ApplicationRows /\ AloneKnows(request[c], app[a], engine[a])
      /\ engine = [engine EXCEPT ![a] = engine[a]] /\ engine[a] \in Containers
      /\ app[a] \in E!ApplicationRows \union {NoRow, Gone}
      /\ (app[a] = NoRow => engine[a] = E!NoContainer) /\ runs' \in 0..MaxRuns
  BY <1>1, <1>2, UnderWay
<1>4. app[a] # NoRow
  BY <1>2, <1>3 DEF AloneKnows
<1> DEFINE s == request[c].seen.container
<1>5. s \in (0..MaxRuns) \union {NoId}
  BY <1>3 DEF E!ApplicationRows
<1>6. ~request[c].met => /\ app[a] = request[c].seen
                         /\ request[c].found = IF engine[a].id # s THEN "none" ELSE IF engine[a].up THEN "up" ELSE "down"
  BY <1>2, <1>3 DEF AloneKnows
<1> HIDE DEF s
<1>7. ASSUME NEW state \in {"stopped", "running", "failed"}, NEW id \in (0..MaxRuns) \union {NoId}, E!Commit(c, state, id),
             a \in settled' => /\ state = "running" => engine[a].up /\ engine[a].id = id
                               /\ state # "running" => ~engine[a].up
      PROVE  AppInv'
  <2>1. PICK r \in E!ApplicationRows \union {NoRow, Gone} :
            /\ app' = [app EXCEPT ![a] = r] /\ (r = NoRow => app[a] = NoRow)
            /\ app[a] = request[c].seen => r = [state |-> state, container |-> id, port |-> request[c].seen.port]
    BY <1>1, <1>2, <1>3, <1>7, CommitIs
  <2> DEFINE q == [at |-> "free"]
  <2>2. request' = [request EXCEPT ![c] = q] /\ q.at = "free"
    BY <1>2 DEF E!Closes, E!Free
  <2>3. RequestFits(q)
    BY DEF RequestFits
  <2> HIDE DEF q
  <2>4. r # NoRow
    BY <1>4, <2>1
  <2>5. a \in settled' => Agree(r, engine[a])
    <3>1. SUFFICES ASSUME a \in settled' PROVE Agree(r, engine[a])
      OBVIOUS
    <3>2. r = [state |-> state, container |-> id, port |-> request[c].seen.port]
      BY <1>2, <1>6, <2>1, <3>1
    <3>3. r.state = state /\ r.container = id
      BY <3>2
    <3>4. /\ state = "running" => engine[a].up /\ engine[a].id = id
          /\ state # "running" => ~engine[a].up
      BY <1>7, <3>1
    <3>5. r \notin {NoRow, Gone}
      BY <1>3, <1>7, <3>2, RowsAreRecords DEF E!ApplicationRows
    <3> QED
      BY <3>3, <3>4, <3>5 DEF Agree
  <2>6. SettlesWell(c, a, q, r, engine[a])
    BY <1>2, <2>2, <2>4, <2>5 DEF SettlesWell
  <2>7. settled' \subseteq settled \union {a} /\ engine' = [engine EXCEPT ![a] = engine[a]] /\ request[c].at # "free"
    BY <1>2, <1>3
  <2> QED
    BY <1>1, <1>2, <1>3, <2>1, <2>2, <2>3, <2>4, <2>6, <2>7, RequestMoves
<1>8. a \in settled' => Agree(app[a], engine[a])
  BY <1>2 DEF AppInv, SettledFits
<1>9. CASE request[c].found = "none" /\ E!Commit(c, "stopped", NoId)
  <2>1. a \in settled' => ~engine[a].up
    <3> SUFFICES ASSUME a \in settled', engine[a].up PROVE FALSE
      OBVIOUS
    <3>1. engine[a].id # s /\ app[a].container = s
      BY <1>2, <1>6, <1>9 DEF s
    <3> QED
      BY <1>8, <3>1 DEF Agree
  <2>2. NoId \in (0..MaxRuns) \union {NoId} /\ "stopped" \in {"stopped", "running", "failed"} /\ "stopped" # "running"
    OBVIOUS
  <2> QED
    BY <1>7, <1>9, <2>1, <2>2
<1>10. CASE request[c].found = "up" /\ E!Commit(c, "running", s)
  <2>1. a \in settled' => engine[a].up /\ engine[a].id = s
    BY <1>2, <1>6, <1>10
  <2>2. "running" \in {"stopped", "running", "failed"}
    OBVIOUS
  <2> QED
    BY <1>5, <1>7, <1>10, <2>1, <2>2
<1>11. CASE request[c].found \notin {"none", "up"} /\ \E state \in {"failed", "stopped"} : E!Commit(c, state, s)
  <2>1. a \in settled' => ~engine[a].up
    BY <1>2, <1>6, <1>11
  <2>2. PICK state \in {"failed", "stopped"} : E!Commit(c, state, s)
    BY <1>11
  <2>3. state \in {"stopped", "running", "failed"} /\ state # "running"
    OBVIOUS
  <2> QED
    BY <1>5, <1>7, <2>1, <2>2, <2>3
<1> QED
  BY <1>9, <1>10, <1>11 DEF E!Refreshed, E!Seen, s
\* The steps that end a request with what it writes.
LEMMA RequestEnds ==
  ASSUME AppInv, NEW c \in AppCalls, E!insert(c) \/ E!start(c) \/ E!stop(c) \/ E!delete(c) PROVE AppInv'
<1>1. PICK a : a = request[c].app
  OBVIOUS
<1>2. /\ request[c].at \in {"insert", "ran", "failed", "stopped", "gone"} /\ request[c].at # "free"
      /\ E!Settle(c) /\ E!Closes(c) /\ UNCHANGED <<engine, runs>>
  BY DEF E!insert, E!start, E!stop, E!delete, E!At
<1>3. /\ a \in Apps /\ request[c].seen \in E!ApplicationRows /\ AloneKnows(request[c], app[a], engine[a])
      /\ request[c].id \in (0..MaxRuns) \union {NoId} /\ request[c].met \in BOOLEAN
      /\ engine[a] \in Containers /\ (app[a] = NoRow => engine[a] = E!NoContainer)
      /\ app[a] \in E!ApplicationRows \union {NoRow, Gone}
  BY <1>1, <1>2, UnderWay
<1>4. E!About(c) = a /\ E!Seen(c) = request[c].seen
  BY <1>1 DEF E!About, E!Seen
<1>5. CASE E!insert(c)
  <2> DEFINE r == request[c].seen
  <2>1. app' = [app EXCEPT ![a] = r] /\ request[c].at = "insert"
    BY <1>4, <1>5 DEF E!insert, E!At
  <2>2. app[a] = NoRow /\ r.state = "stopped" /\ engine[a].up = FALSE
    BY <1>3, <2>1, RowsAreRecords DEF AloneKnows
  <2>3. r \in E!ApplicationRows /\ r # NoRow /\ Agree(r, engine[a])
    BY <1>3, <2>2, RowsAreRecords DEF Agree
  <2> HIDE DEF r
  <2>4. r \in E!ApplicationRows \union {NoRow, Gone}
    BY <2>3
  <2> QED
    BY <1>1, <1>2, <1>3, <2>1, <2>2, <2>3, <2>4, RequestSettles
<1>6. ASSUME NEW state \in {"stopped", "running", "failed"}, NEW id \in (0..MaxRuns) \union {NoId}, E!Commit(c, state, id),
             ~request[c].met => IF state = "running" THEN engine[a].up /\ engine[a].id = id ELSE ~engine[a].up,
             request[c].at # "insert"
      PROVE  AppInv'
  <2>1. PICK r \in E!ApplicationRows \union {NoRow, Gone} :
            /\ app' = [app EXCEPT ![a] = r] /\ (r = NoRow => app[a] = NoRow)
            /\ app[a] = request[c].seen => r = [state |-> state, container |-> id, port |-> request[c].seen.port]
    BY <1>1, <1>2, <1>3, <1>6, CommitIs
  <2>2. ASSUME ~request[c].met PROVE r # NoRow /\ Agree(r, engine[a])
    <3>1. r = [state |-> state, container |-> id, port |-> request[c].seen.port]
      BY <1>3, <1>6, <2>1, <2>2 DEF AloneKnows
    <3>2. r \notin {NoRow, Gone}
      BY <1>3, <1>6, <3>1, RowsAreRecords DEF E!ApplicationRows
    <3>3. r.state = state /\ r.container = id
      BY <3>1
    <3> QED
      BY <1>6, <2>2, <3>2, <3>3 DEF Agree
  <2>3. ~request[c].met => r # NoRow /\ Agree(r, engine[a])
    BY <2>2
  <2>4. r = NoRow => app[a] = NoRow
    BY <2>1
  <2> QED
    BY <1>1, <1>2, <1>3, <2>1, <2>3, <2>4, RequestSettles
<1>7. CASE E!start(c)
  <2>1. CASE request[c].at = "ran" /\ E!Commit(c, "running", request[c].id)
    <3>1. "running" \in {"stopped", "running", "failed"} /\ request[c].at # "insert"
          /\ (~request[c].met => engine[a].up /\ engine[a].id = request[c].id)
      BY <1>3, <2>1 DEF AloneKnows
    <3> QED
      BY <1>3, <1>6, <2>1, <3>1
  <2>2. CASE request[c].at = "failed" /\ E!Commit(c, "failed", NoId)
    <3>1. "failed" \in {"stopped", "running", "failed"} /\ request[c].at # "insert" /\ "failed" # "running"
          /\ (~request[c].met => ~engine[a].up) /\ NoId \in (0..MaxRuns) \union {NoId}
      BY <1>3, <2>2 DEF AloneKnows
    <3> QED
      BY <1>6, <2>2, <3>1
  <2> QED
    BY <1>7, <2>1, <2>2 DEF E!start, E!At
<1>8. CASE E!stop(c)
  <2>1. request[c].at = "stopped" /\ E!Commit(c, "stopped", NoId)
    BY <1>8 DEF E!stop, E!At
  <2>2. "stopped" \in {"stopped", "running", "failed"} /\ request[c].at # "insert" /\ "stopped" # "running"
        /\ (~request[c].met => ~engine[a].up) /\ NoId \in (0..MaxRuns) \union {NoId}
    BY <1>3, <2>1, RowsAreRecords DEF AloneKnows
  <2> QED
    BY <1>6, <2>1, <2>2
<1>9. CASE E!delete(c)
  <2>1. request[c].at = "gone" /\ app' = [app EXCEPT ![a] = Gone]
    BY <1>4, <1>9 DEF E!delete, E!At
  <2>2. Gone # NoRow /\ Gone \in E!ApplicationRows \union {NoRow, Gone} /\ (Gone = NoRow => app[a] = NoRow)
    BY RowsAreRecords
  <2>3. ~request[c].met => Gone # NoRow /\ Agree(Gone, engine[a])
    BY <1>3, <2>1, RowsAreRecords DEF AloneKnows, Agree
  <2> QED
    BY <1>1, <1>2, <1>3, <2>1, <2>2, <2>3, RequestSettles
<1> QED
  BY <1>5, <1>7, <1>8, <1>9

\* The process that serves a request dies.
LEMMA RequestDies ==
  ASSUME AppInv, NEW c \in AppCalls, E!Dies(c) PROVE AppInv'
<1>1. PICK a : a = request[c].app
  OBVIOUS
<1> DEFINE q == [at |-> "free"]
<1>2. /\ request[c].at # "free" /\ request' = [request EXCEPT ![c] = q] /\ q.at = "free"
      /\ settled' = settled \ {a} /\ UNCHANGED <<app, engine, runs>>
  BY <1>1 DEF E!Dies, E!At, E!Fault, E!About, E!Closes, E!Free
<1>3. RequestFits(q)
  BY DEF RequestFits
<1> HIDE DEF q
<1>4. /\ a \in Apps /\ app' = [app EXCEPT ![a] = app[a]] /\ engine' = [engine EXCEPT ![a] = engine[a]]
      /\ app[a] \in E!ApplicationRows \union {NoRow, Gone} /\ engine[a] \in Containers
      /\ (app[a] = NoRow => engine[a] = E!NoContainer) /\ runs' \in 0..MaxRuns
  BY <1>1, <1>2, UnderWay
<1>5. settled' \subseteq settled \union {a} /\ SettlesWell(c, a, q, app[a], engine[a])
  BY <1>2 DEF SettlesWell
<1>6. q.at # "free" => AloneKnows(q, app[a], engine[a])
  BY <1>2
<1>7. /\ request[c].at # "free" /\ request[c].app = a /\ request' = [request EXCEPT ![c] = q]
      /\ q.at = "free" \/ (q.at # "insert" /\ q.app = a /\ (request[c].met => q.met))
      /\ app[a] = NoRow => app[a] = NoRow /\ engine[a] = E!NoContainer
  BY <1>1, <1>2, <1>4
<1> QED
  BY <1>3, <1>4, <1>5, <1>6, <1>7, RequestMoves

LEMMA AppNext == AppInv /\ [E!Next]_E!appVars => AppInv'
<1> SUFFICES ASSUME AppInv, [E!Next]_E!appVars PROVE AppInv'
  OBVIOUS
<1>1. ASSUME UNCHANGED E!appVars PROVE AppInv'
  BY <1>1 DEF E!appVars, AppInv, AppsTyped, RequestsFit, RequestFits, AloneKnows, Meetings, SettledFits, Agree, OnlyLooks
<1>2. ASSUME NEW c \in AppCalls, NEW a \in Apps, E!create(c, a) PROVE AppInv'
  BY <1>2, ApplicationIsAsked
<1>3. ASSUME NEW c \in AppCalls, NEW a \in Apps, E!start_application(c, a) PROVE AppInv'
  <2>1. E!_allowed(c, a, "start")
    BY <1>3 DEF E!start_application
  <2> QED
    BY <2>1, RequestBegins
<1>4. ASSUME NEW c \in AppCalls, NEW a \in Apps, E!stop_application(c, a) PROVE AppInv'
  <2>1. E!_allowed(c, a, "stop")
    BY <1>4 DEF E!stop_application
  <2> QED
    BY <2>1, RequestBegins
<1>5. ASSUME NEW c \in AppCalls, NEW a \in Apps, E!delete_application(c, a) PROVE AppInv'
  <2>1. E!_allowed(c, a, "delete")
    BY <1>5 DEF E!delete_application
  <2> QED
    BY <2>1, RequestBegins
<1>6. ASSUME NEW c \in AppCalls, NEW a \in Apps, E!read_application(c, a) PROVE AppInv'
  <2>1. E!_allowed(c, a, "refresh")
    BY <1>6 DEF E!read_application
  <2> QED
    BY <2>1, RequestBegins
<1>7. ASSUME NEW c \in AppCalls, E!insert(c) \/ E!start(c) \/ E!stop(c) \/ E!delete(c) PROVE AppInv'
  BY <1>7, RequestEnds
<1>8. ASSUME NEW c \in AppCalls, E!_forget_container(c) PROVE AppInv'
  BY <1>8, ContainerIsForgotten
<1>9. ASSUME NEW c \in AppCalls, E!run(c) PROVE AppInv'
  BY <1>9, ContainerRuns
<1>10. ASSUME NEW c \in AppCalls, E!refresh(c) PROVE AppInv'
  BY <1>10, ContainerIsLookedAt
<1>11. ASSUME NEW c \in AppCalls, E!Refreshed(c) PROVE AppInv'
  BY <1>11, ContainerIsNoted
<1>12. ASSUME NEW c \in AppCalls, E!Dies(c) PROVE AppInv'
  BY <1>12, RequestDies
<1>13. ASSUME NEW a \in Apps, E!Exits(a) PROVE AppInv'
  BY <1>13, ContainerExits
<1> QED
  BY <1>1, <1>2, <1>3, <1>4, <1>5, <1>6, <1>7, <1>8, <1>9, <1>10, <1>11, <1>12, <1>13 DEF E!Next

(* A start, a stop or a deletion that nothing crossed leaves the row and   *)
(* the engine in agreement, and reads, exits and restarts around it only   *)
(* make the two differ where they were there (apps/service.py start, stop, *)
(* delete, refresh).                                                       *)
THEOREM RowsTellTheEngine == E!Spec => [](E!TypeOK /\ E!RowTellsEngine)
<1>1. AppInv => E!TypeOK /\ E!RowTellsEngine
  <2> SUFFICES ASSUME AppInv PROVE E!TypeOK /\ E!RowTellsEngine
    OBVIOUS
  <2>1. E!TypeOK
    BY DEF AppInv, AppsTyped, E!TypeOK, E!Exists, Containers
  <2>2. E!RowTellsEngine
    BY DEF AppInv, SettledFits, Agree, E!RowTellsEngine, E!Exists
  <2> QED
    BY <2>1, <2>2
<1> QED
  BY <1>1, AppInit, AppNext, PTL DEF E!Spec
-----------------------------------------------------------------------------
(* Routing.                                                                *)

RoutedContainers == [id : (0..MaxRouted) \union {NoId}, up : BOOLEAN, port : Ports \union {NoPort}]

\* Only a request that was made can go on, and it knows a row as it was.
Knows(q) ==
    /\ "at" \in DOMAIN q
    /\ q.at # "free" => /\ {"app", "seen", "met", "id", "found"} \subseteq DOMAIN q
                        /\ q.app \in Apps /\ q.seen \in B!ApplicationRows
                        /\ q.id \in (0..MaxRouted) \union {NoId}
KnowsRow(q, r) ==
    /\ q.at = "insert" => r = NoRow
    /\ q.at # "insert" => r # NoRow /\ (r # Gone => r.port = q.seen.port)

PortsAreTheRows ==
    /\ app \in [Apps -> B!ApplicationRows \union {NoRow, Gone}]
    /\ engine \in [Apps -> RoutedContainers] /\ runs \in 0..MaxRouted
    /\ \A a \in Apps : engine[a].up => app[a] # NoRow /\ (B!Exists(a) => engine[a].port = app[a].port)
RequestsKnow == DOMAIN request = RoutedCalls /\ \A c \in RoutedCalls :
    Knows(request[c]) /\ (request[c].at # "free" => KnowsRow(request[c], app[request[c].app]))
OnceAsked == \A c \in RoutedCalls, d \in RoutedCalls :
    request[c].at = "insert" /\ request[d].at = "insert" /\ request[c].app = request[d].app => c = d

\* Who has a port or is about to have it, and who is about to have one.
Wants(x, p) ==
    \/ B!Exists(x) /\ app[x].port = p
    \/ \E c \in RoutedCalls : request[c].at = "insert" /\ request[c].app = x /\ request[c].seen.port = p
Asks(x) == \E c \in RoutedCalls : request[c].at = "insert" /\ request[c].app = x
RivalsAreKnown == \A x \in Apps, y \in Apps, p \in Ports :
    x # y /\ Wants(x, p) /\ Wants(y, p) => <<x, y>> \in together

\* A call on its way dials the port the row of its target names while it stands.
CallFits(k) == \/ k = [at |-> "free"]
               \/ k.meant = Outside
               \/ /\ k.meant \in Apps /\ k.dials \in Ports /\ app[k.meant] # NoRow
                  /\ B!Exists(k.meant) => app[k.meant].port = k.dials
                  /\ B!Exists(k.meant) \/ k.meant \in deserted

PortInv == PortsAreTheRows /\ RequestsKnow /\ OnceAsked /\ RivalsAreKnown
RouteInv ==
    /\ PortInv /\ DOMAIN hop = Hops /\ \A h \in Hops : CallFits(hop[h])
    /\ route \in [Names -> B!RouteRows \union {NoRoute}]
    /\ together \subseteq Apps \X Apps /\ strays \subseteq Apps \X Apps /\ deserted \subseteq Apps
    /\ strays \subseteq together \union (deserted \X Apps)

LEMMA RoutedRowsAreRecords == /\ NoRow # Gone /\ NoRow \notin B!ApplicationRows /\ Gone \notin B!ApplicationRows
                              /\ MaxRouted \in Nat /\ NoPort \notin Ports
                              /\ B!NoContainer \in RoutedContainers /\ B!NoContainer.up = FALSE
<1>1. B!ApplicationRows \subseteq [state : {"stopped", "running", "failed"}, container : Nat \union {NoId}, port : Ports \union {NoPort}]
  BY ForgeAssumption DEF AppsAssumption, RoutingAssumption, B!ApplicationRows
<1> QED
  BY <1>1, ForgeAssumption DEF AppsAssumption, RoutingAssumption, B!NoContainer, RoutedContainers

LEMMA RouteInit == B!RoutingInit => RouteInv
<1> SUFFICES ASSUME B!RoutingInit PROVE RouteInv
  OBVIOUS
<1>1. /\ app = [a \in Apps |-> NoRow] /\ engine = [a \in Apps |-> B!NoContainer] /\ runs = 0
      /\ DOMAIN request = RoutedCalls /\ \A c \in RoutedCalls : request[c] = [at |-> "free"]
  BY DEF B!RoutingInit, B!Init, B!Free
<1>2. \A c \in RoutedCalls : request[c].at = "free" /\ Knows(request[c])
  BY <1>1 DEF Knows
<1>3. PortsAreTheRows
  BY <1>1, RoutedRowsAreRecords DEF PortsAreTheRows
<1>4. RequestsKnow /\ OnceAsked /\ \A x \in Apps : ~Asks(x)
  BY <1>1, <1>2 DEF RequestsKnow, OnceAsked, Asks
<1>5. RivalsAreKnown
  BY <1>1, <1>2 DEF RivalsAreKnown, Wants, B!Exists
<1>6. /\ DOMAIN hop = Hops /\ (\A h \in Hops : CallFits(hop[h])) /\ together = {} /\ strays = {} /\ deserted = {}
      /\ route \in [Names -> B!RouteRows \union {NoRoute}]
  BY DEF B!RoutingInit, CallFits, B!Waiting
<1> QED
  BY <1>3, <1>4, <1>5, <1>6 DEF RouteInv, PortInv

\* What the steps of applications other than the making of one come to.
RowGoesOn(r, s) ==
    \/ s = r
    \/ r # NoRow /\ s = Gone
    \/ r \notin {NoRow, Gone} /\ s \in B!ApplicationRows /\ s.port = r.port
ContainerGoesOn(b, d, a) == d.up =>
    \/ b.up /\ d.port = b.port
    \/ \E c \in RoutedCalls : request[c].at \notin {"free", "insert"} /\ request[c].app = a /\ d.port = request[c].seen.port
RequestGoesOn(q, w) ==
    \/ w.at = "free"
    \/ q.at # "free" /\ w.app = q.app /\ w.seen = q.seen /\ (w.at = "insert" <=> q.at = "insert")
    \/ w.at # "insert" /\ B!Exists(w.app) /\ w.seen = app[w.app]
GoesOn ==
    /\ app' \in [Apps -> B!ApplicationRows \union {NoRow, Gone}] /\ engine' \in [Apps -> RoutedContainers] /\ runs' \in 0..MaxRouted
    /\ DOMAIN request' = RoutedCalls
    /\ \A a \in Apps : RowGoesOn(app[a], app'[a]) /\ ContainerGoesOn(engine[a], engine'[a], a)
    /\ \A c \in RoutedCalls : Knows(request'[c]) /\ RequestGoesOn(request[c], request'[c])

\* A step of the applications tells of all that were given a port at one time.
PairsAreNoted == together' = together \union {pair \in B!Given' \X B!Given' : pair[1] # pair[2]}

LEMMA RivalsMeet ==
  ASSUME PortInv, PairsAreNoted, NEW x \in Apps, NEW y \in Apps, NEW p \in Ports, x # y, Wants(x, p), Wants(y, p)
  PROVE  <<x, y>> \in together'
BY DEF PortInv, RivalsAreKnown, PairsAreNoted

LEMMA GoingOn == ASSUME PortInv, PairsAreNoted, GoesOn PROVE PortInv'
<1>1. ASSUME NEW c \in RoutedCalls, request'[c].at # "free"
      PROVE  /\ KnowsRow(request'[c], app'[request'[c].app]) /\ request'[c].app \in Apps
             /\ request'[c].at = "insert" => request[c].at = "insert" /\ request'[c].app = request[c].app /\ request'[c].seen = request[c].seen
  <2>0. Knows(request[c]) /\ Knows(request'[c]) /\ RequestGoesOn(request[c], request'[c])
    BY DEF PortInv, RequestsKnow, GoesOn
  <2>1. CASE /\ request[c].at # "free" /\ request'[c].app = request[c].app /\ request'[c].seen = request[c].seen
             /\ (request'[c].at = "insert" <=> request[c].at = "insert")
    <3>1. KnowsRow(request[c], app[request[c].app]) /\ request[c].app \in Apps
      BY <2>0, <2>1 DEF PortInv, RequestsKnow, Knows
    <3>2. RowGoesOn(app[request[c].app], app'[request[c].app])
      BY <3>1 DEF GoesOn
    <3> QED
      BY <2>1, <3>1, <3>2, RoutedRowsAreRecords DEF KnowsRow, RowGoesOn
  <2>2. CASE request'[c].at # "insert" /\ B!Exists(request'[c].app) /\ request'[c].seen = app[request'[c].app]
    <3>1. request'[c].app \in Apps
      BY <1>1, <2>0 DEF Knows
    <3>2. RowGoesOn(app[request'[c].app], app'[request'[c].app])
      BY <3>1 DEF GoesOn
    <3> QED
      BY <2>2, <3>1, <3>2, RoutedRowsAreRecords DEF KnowsRow, RowGoesOn, B!Exists
  <2> QED
    BY <1>1, <2>0, <2>1, <2>2 DEF RequestGoesOn
<1>2. RequestsKnow' /\ OnceAsked'
  <2>1. RequestsKnow'
    BY <1>1 DEF GoesOn, RequestsKnow, KnowsRow, Knows
  <2>2. OnceAsked'
    BY <1>1 DEF PortInv, OnceAsked
  <2> QED
    BY <2>1, <2>2
<1>3. PortsAreTheRows'
  <2> SUFFICES ASSUME NEW a \in Apps
               PROVE  /\ app'[a] \in B!ApplicationRows \union {NoRow, Gone}
                      /\ engine'[a].up => app'[a] # NoRow /\ (app'[a] \notin {NoRow, Gone} => engine'[a].port = app'[a].port)
    BY DEF GoesOn, PortsAreTheRows, B!Exists
  <2>1. /\ app[a] \in B!ApplicationRows \union {NoRow, Gone} /\ RowGoesOn(app[a], app'[a])
        /\ engine[a].up => app[a] # NoRow /\ (app[a] \notin {NoRow, Gone} => engine[a].port = app[a].port)
    BY DEF PortInv, PortsAreTheRows, GoesOn, B!Exists
  <2>2. CASE engine'[a].up
    <3>1. CASE engine[a].up /\ engine'[a].port = engine[a].port
      BY <2>1, <3>1, RoutedRowsAreRecords DEF RowGoesOn
    <3>2. CASE \E c \in RoutedCalls : request[c].at \notin {"free", "insert"} /\ request[c].app = a /\ engine'[a].port = request[c].seen.port
      <4>1. PICK c \in RoutedCalls : request[c].at \notin {"free", "insert"} /\ request[c].app = a /\ engine'[a].port = request[c].seen.port
        BY <3>2
      <4>2. KnowsRow(request[c], app[a])
        BY <4>1 DEF PortInv, RequestsKnow
      <4> QED
        BY <2>1, <4>1, <4>2, RoutedRowsAreRecords DEF RowGoesOn, KnowsRow
    <3> QED
      BY <2>2, <3>1, <3>2 DEF GoesOn, ContainerGoesOn
  <2>3. CASE ~engine'[a].up
    BY <2>1, <2>3 DEF RowGoesOn
  <2> QED
    BY <2>2, <2>3
<1>4. RivalsAreKnown'
  <2>1. ASSUME NEW x \in Apps, NEW p \in Ports, Wants(x, p)' PROVE Wants(x, p)
    <3>1. CASE app'[x] \notin {NoRow, Gone} /\ app'[x].port = p
      <4>1. RowGoesOn(app[x], app'[x])
        BY DEF GoesOn
      <4> QED
        BY <3>1, <4>1 DEF RowGoesOn, Wants, B!Exists
    <3>2. CASE \E c \in RoutedCalls : request'[c].at = "insert" /\ request'[c].app = x /\ request'[c].seen.port = p
      <4>1. PICK c \in RoutedCalls : request'[c].at = "insert" /\ request'[c].app = x /\ request'[c].seen.port = p
        BY <3>2
      <4>2. request[c].at = "insert" /\ request[c].app = x /\ request[c].seen.port = p
        BY <1>1, <4>1
      <4> QED
        BY <4>2 DEF Wants
    <3> QED
      BY <2>1, <3>1, <3>2 DEF Wants, B!Exists
  <2> QED
    BY <2>1, RivalsMeet DEF RivalsAreKnown
<1> QED
  BY <1>2, <1>3, <1>4 DEF PortInv
\* What a request that is under way comes with.
LEMMA RoutedUnderWay ==
  ASSUME PortInv, NEW c \in RoutedCalls, request[c].at # "free"
  PROVE  /\ request[c].app \in Apps /\ request[c].seen \in B!ApplicationRows
         /\ {"at", "app", "seen", "met", "id", "found"} \subseteq DOMAIN request[c]
         /\ KnowsRow(request[c], app[request[c].app]) /\ request[c].id \in (0..MaxRouted) \union {NoId}
BY DEF PortInv, RequestsKnow, Knows

\* What a step that leaves most alone leaves.
LEMMA LeftAlone ==
  ASSUME PortInv
  PROVE  /\ app \in [Apps -> B!ApplicationRows \union {NoRow, Gone}] /\ engine \in [Apps -> RoutedContainers] /\ runs \in 0..MaxRouted /\ DOMAIN request = RoutedCalls
         /\ \A a \in Apps : RowGoesOn(app[a], app[a]) /\ ContainerGoesOn(engine[a], engine[a], a)
         /\ \A c \in RoutedCalls : Knows(request[c]) /\ (request[c].at # "free" => RequestGoesOn(request[c], request[c]))
         /\ \A c \in RoutedCalls : request[c].at = "free" => RequestGoesOn(request[c], request[c])
         /\ Knows([at |-> "free"]) /\ \A q : RequestGoesOn(q, [at |-> "free"])
BY DEF PortInv, PortsAreTheRows, RequestsKnow, RowGoesOn, ContainerGoesOn, RequestGoesOn, Knows

\* One request goes on, with a row and a container that do.
LEMMA OneGoesOn ==
  ASSUME PortInv, PairsAreNoted, NEW c \in RoutedCalls, NEW a \in Apps, NEW q, NEW r, NEW b \in RoutedContainers,
         request' = [request EXCEPT ![c] = q], app' = [app EXCEPT ![a] = r], engine' = [engine EXCEPT ![a] = b],
         runs' \in 0..MaxRouted, Knows(q), RequestGoesOn(request[c], q), RowGoesOn(app[a], r), ContainerGoesOn(engine[a], b, a)
  PROVE  PortInv'
<1>0. r \in B!ApplicationRows \union {NoRow, Gone}
  BY LeftAlone DEF RowGoesOn
<1>1. /\ app' \in [Apps -> B!ApplicationRows \union {NoRow, Gone}] /\ engine' \in [Apps -> RoutedContainers] /\ DOMAIN request' = RoutedCalls
      /\ \A x \in Apps : app'[x] = (IF x = a THEN r ELSE app[x]) /\ engine'[x] = (IF x = a THEN b ELSE engine[x])
      /\ \A d \in RoutedCalls : request'[d] = IF d = c THEN q ELSE request[d]
  BY <1>0, LeftAlone
<1>2. \A x \in Apps : RowGoesOn(app[x], app'[x]) /\ ContainerGoesOn(engine[x], engine'[x], x)
  BY <1>1, LeftAlone
<1>3. \A d \in RoutedCalls : Knows(request'[d]) /\ RequestGoesOn(request[d], request'[d])
  BY <1>1, LeftAlone
<1> QED
  BY <1>1, <1>2, <1>3, GoingOn DEF GoesOn

\* The same, of a step that leaves rows or containers as they are.
LEMMA CommitGoesOn ==
  ASSUME PortInv, NEW c \in RoutedCalls, request[c].at # "free", NEW a \in Apps, request[c].app = a,
         NEW state \in {"stopped", "running", "failed"}, NEW id \in (0..MaxRouted) \union {NoId}, B!Commit(c, state, id)
  PROVE  \E r : app' = [app EXCEPT ![a] = r] /\ RowGoesOn(app[a], r)
<1>0. /\ request[c].seen \in B!ApplicationRows /\ app[a] \in B!ApplicationRows \union {NoRow, Gone} /\ DOMAIN app = Apps
      /\ B!About(c) = a /\ B!Seen(c) = request[c].seen
  BY RoutedUnderWay DEF PortInv, PortsAreTheRows, B!About, B!Seen
<1>1. CASE app[a] \in {NoRow, Gone}
  <2>1. app' = app /\ app = [app EXCEPT ![a] = app[a]]
    BY <1>0, <1>1 DEF B!Commit, B!Exists, PortInv, PortsAreTheRows
  <2> QED
    BY <2>1 DEF RowGoesOn
<1>2. CASE app[a] \notin {NoRow, Gone}
  <2> DEFINE st == IF state = request[c].seen.state THEN app[a].state ELSE state
             co == IF id = request[c].seen.container THEN app[a].container ELSE id
             r == [state |-> st, container |-> co, port |-> app[a].port]
  <2>1. app' = [app EXCEPT ![a] = r]
    BY <1>0, <1>2 DEF B!Commit, B!Exists, B!Row
  <2>2. /\ app[a].state \in {"stopped", "running", "failed"} /\ app[a].container \in (0..MaxRouted) \union {NoId}
        /\ app[a].port \in Ports \union {NoPort}
    BY <1>0, <1>2 DEF B!ApplicationRows
  <2>3. st \in {"stopped", "running", "failed"} /\ co \in (0..MaxRouted) \union {NoId}
    BY <2>2
  <2> HIDE DEF st, co
  <2>4. r \in B!ApplicationRows /\ r.port = app[a].port
    BY <2>2, <2>3 DEF B!ApplicationRows
  <2>5. RowGoesOn(app[a], r)
    BY <1>2, <2>4 DEF RowGoesOn
  <2> HIDE DEF r
  <2> QED
    BY <2>1, <2>5
<1> QED
  BY <1>1, <1>2

\* A request ends, with what the session's commit makes of the row.
LEMMA RoutedEnds ==
  ASSUME PortInv, PairsAreNoted, NEW c \in RoutedCalls, request[c].at # "free", B!Closes(c), UNCHANGED <<engine, runs>>,
         \/ UNCHANGED app
         \/ app' = [app EXCEPT ![request[c].app] = Gone] /\ request[c].at # "insert"
         \/ \E state \in {"stopped", "running", "failed"}, id \in (0..MaxRouted) \union {NoId} : B!Commit(c, state, id)
  PROVE  PortInv'
<1>1. PICK a : a = request[c].app
  OBVIOUS
<1> DEFINE q == [at |-> "free"]
<1>2. request' = [request EXCEPT ![c] = q] /\ Knows(q) /\ RequestGoesOn(request[c], q)
  BY LeftAlone DEF B!Closes, B!Free
<1> HIDE DEF q
<1> PICK b : b = engine[a]
  OBVIOUS
<1>3. /\ a \in Apps /\ b \in RoutedContainers /\ engine' = [engine EXCEPT ![a] = b] /\ runs' \in 0..MaxRouted
      /\ app = [app EXCEPT ![a] = app[a]] /\ RowGoesOn(app[a], app[a]) /\ ContainerGoesOn(engine[a], b, a)
      /\ KnowsRow(request[c], app[a])
  BY <1>1, LeftAlone, RoutedUnderWay
<1>4. PICK r : app' = [app EXCEPT ![a] = r] /\ RowGoesOn(app[a], r)
  <2>1. CASE UNCHANGED app
    BY <1>3, <2>1
  <2>2. CASE app' = [app EXCEPT ![a] = Gone] /\ request[c].at # "insert"
    BY <1>3, <2>2 DEF KnowsRow, RowGoesOn
  <2>3. ASSUME NEW state \in {"stopped", "running", "failed"}, NEW id \in (0..MaxRouted) \union {NoId}, B!Commit(c, state, id)
        PROVE  \E r : app' = [app EXCEPT ![a] = r] /\ RowGoesOn(app[a], r)
    BY <1>1, <1>3, <2>3, CommitGoesOn
  <2> QED
    BY <1>1, <2>1, <2>2, <2>3
<1> QED
  BY <1>2, <1>3, <1>4, OneGoesOn
LEMMA RoutedContainerSteps ==
  ASSUME PortInv, PairsAreNoted, NEW c \in RoutedCalls, B!_forget_container(c) \/ B!run(c) \/ (B!refresh(c) /\ ~B!Closes(c)) PROVE PortInv'
<1>0. request[c].at \notin {"free", "insert"} /\ UNCHANGED app
  BY DEF B!_forget_container, B!run, B!refresh, B!At
<1>1. PICK a : a = request[c].app
  OBVIOUS
<1>2. PICK s : s = request[c].seen
  OBVIOUS
<1>3. /\ a \in Apps /\ s \in B!ApplicationRows /\ engine = [engine EXCEPT ![a] = engine[a]] /\ app' = [app EXCEPT ![a] = app[a]]
      /\ RowGoesOn(app[a], app[a]) /\ runs \in 0..MaxRouted
      /\ {"at", "app", "seen", "met", "id", "found"} \subseteq DOMAIN request[c]
      /\ request[c].id \in (0..MaxRouted) \union {NoId}
      /\ engine[a] \in RoutedContainers /\ ContainerGoesOn(engine[a], engine[a], a)
  BY <1>0, <1>1, <1>2, LeftAlone, RoutedUnderWay
<1>4. s.port \in Ports \union {NoPort}
  BY <1>3 DEF B!ApplicationRows
<1>5. ASSUME NEW q, {"at", "app", "seen", "met", "id", "found"} \subseteq DOMAIN q, q.app = a, q.seen = s, q.at \notin {"free", "insert"}, q.id \in (0..MaxRouted) \union {NoId}
      PROVE  Knows(q) /\ RequestGoesOn(request[c], q)
  BY <1>0, <1>1, <1>2, <1>3, <1>5 DEF Knows, RequestGoesOn
<1>6. \E q : /\ request' = [request EXCEPT ![c] = q] /\ {"at", "app", "seen", "met", "id", "found"} \subseteq DOMAIN q
             /\ q.app = a /\ q.seen = s /\ q.at \notin {"free", "insert"} /\ q.id \in (0..MaxRouted) \union {NoId}
  <2>1. CASE B!_forget_container(c)
    <3> DEFINE t == CASE request[c].at = "start" -> "run" [] request[c].at = "stop" -> "stopped" [] OTHER -> "gone"
               q == [request[c] EXCEPT !.at = t]
               w == [request[c] EXCEPT !.met = TRUE, !.at = t]
    <3>1. request' = [request EXCEPT ![c] = q] \/ request' = [request EXCEPT ![c] = w]
      BY <2>1 DEF B!_forget_container, B!Moves, B!At
    <3>2. t \notin {"free", "insert"}
      OBVIOUS
    <3> HIDE DEF t
    <3>3. /\ {"at", "app", "seen", "met", "id", "found"} \subseteq DOMAIN q /\ q.app = a /\ q.seen = s /\ q.at = t /\ q.id = request[c].id
          /\ {"at", "app", "seen", "met", "id", "found"} \subseteq DOMAIN w /\ w.app = a /\ w.seen = s /\ w.at = t /\ w.id = request[c].id
      BY <1>1, <1>2, <1>3
    <3> HIDE DEF q, w
    <3> QED
      BY <1>3, <3>1, <3>2, <3>3
  <2>2. CASE B!run(c)
    <3> DEFINE q == [request[c] EXCEPT !.at = "failed"]
               w == [request[c] EXCEPT !.at = "failed", !.met = TRUE]
               k == [request[c] EXCEPT !.at = "ran", !.id = runs]
    <3>1. request' = [request EXCEPT ![c] = q] \/ request' = [request EXCEPT ![c] = w] \/ request' = [request EXCEPT ![c] = k]
      BY <2>2 DEF B!run, B!Moves, B!At
    <3>2. /\ {"at", "app", "seen", "met", "id", "found"} \subseteq DOMAIN q /\ q.app = a /\ q.seen = s /\ q.at = "failed" /\ q.id = request[c].id
          /\ {"at", "app", "seen", "met", "id", "found"} \subseteq DOMAIN w /\ w.app = a /\ w.seen = s /\ w.at = "failed" /\ w.id = request[c].id
          /\ {"at", "app", "seen", "met", "id", "found"} \subseteq DOMAIN k /\ k.app = a /\ k.seen = s /\ k.at = "ran" /\ k.id = runs
      BY <1>1, <1>2, <1>3
    <3> HIDE DEF q, w, k
    <3> QED
      BY <1>3, <3>1, <3>2
  <2>3. CASE B!refresh(c) /\ ~B!Closes(c)
    <3>1. PICK found : request' = [request EXCEPT ![c].at = "inspected", ![c].found = found]
      BY <2>3 DEF B!refresh
    <3> DEFINE q == [request[c] EXCEPT !.at = "inspected", !.found = found]
    <3>2. request' = [request EXCEPT ![c] = q]
      BY <3>1
    <3>3. {"at", "app", "seen", "met", "id", "found"} \subseteq DOMAIN q /\ q.app = a /\ q.seen = s /\ q.at = "inspected" /\ q.id = request[c].id
      BY <1>1, <1>2, <1>3
    <3> HIDE DEF q
    <3> QED
      BY <1>3, <3>2, <3>3
  <2> QED
    BY <2>1, <2>2, <2>3
<1>7. \E b \in RoutedContainers : engine' = [engine EXCEPT ![a] = b] /\ ContainerGoesOn(engine[a], b, a)
  <2>1. CASE UNCHANGED engine
    BY <1>3, <2>1
  <2>2. CASE engine' = [engine EXCEPT ![a] = B!NoContainer]
    BY <2>2, RoutedRowsAreRecords DEF ContainerGoesOn
  <2>3. ASSUME NEW up \in BOOLEAN, engine' = [engine EXCEPT ![a] = [id |-> runs, up |-> up, port |-> s.port]]
        PROVE  \E b \in RoutedContainers : engine' = [engine EXCEPT ![a] = b] /\ ContainerGoesOn(engine[a], b, a)
    <3> DEFINE b == [id |-> runs, up |-> up, port |-> s.port]
    <3>1. b \in RoutedContainers
      BY <1>3, <1>4 DEF RoutedContainers
    <3>2. b.port = s.port
      OBVIOUS
    <3> HIDE DEF b
    <3>3. ContainerGoesOn(engine[a], b, a)
      BY <1>0, <1>1, <1>2, <3>2 DEF ContainerGoesOn
    <3>4. engine' = [engine EXCEPT ![a] = b]
      BY <2>3 DEF b
    <3> QED
      BY <3>1, <3>3, <3>4
  <2>4. \/ UNCHANGED engine \/ engine' = [engine EXCEPT ![a] = B!NoContainer]
        \/ engine' = [engine EXCEPT ![a] = [id |-> runs, up |-> TRUE, port |-> s.port]]
        \/ engine' = [engine EXCEPT ![a] = [id |-> runs, up |-> FALSE, port |-> s.port]]
    BY <1>1, <1>2 DEF B!_forget_container, B!run, B!refresh, B!Container, B!Seen, B!About
  <2> QED
    BY <2>1, <2>2, <2>3, <2>4
<1>8. runs' \in 0..MaxRouted
  <2>1. runs' = runs \/ (runs' = runs + 1 /\ runs < MaxRouted)
    BY DEF B!_forget_container, B!run, B!refresh
  <2> QED
    BY <1>3, <2>1, RoutedRowsAreRecords
<1>9. PICK q : /\ request' = [request EXCEPT ![c] = q] /\ {"at", "app", "seen", "met", "id", "found"} \subseteq DOMAIN q
               /\ q.app = a /\ q.seen = s /\ q.at \notin {"free", "insert"} /\ q.id \in (0..MaxRouted) \union {NoId}
  BY <1>6
<1>10. PICK b \in RoutedContainers : engine' = [engine EXCEPT ![a] = b] /\ ContainerGoesOn(engine[a], b, a)
  BY <1>7
<1>11. Knows(q) /\ RequestGoesOn(request[c], q)
  BY <1>5, <1>9
<1>12. PICK r : r = app[a]
  OBVIOUS
<1>13. app' = [app EXCEPT ![a] = r] /\ RowGoesOn(app[a], r) /\ request' = [request EXCEPT ![c] = q]
  BY <1>3, <1>9, <1>12
<1> QED
  BY <1>3, <1>8, <1>10, <1>11, <1>13, OneGoesOn

\* A request is made beside others, or a container ends beside them.
LEMMA RoutedMeetings ==
  ASSUME PortInv, PairsAreNoted, NEW a \in Apps,
         B!Exits(a) \/ \E c \in RoutedCalls, what \in {"start", "stop", "delete", "refresh"} : B!_allowed(c, a, what)
  PROVE  PortInv'
<1>1. CASE B!Exits(a)
  <2> DEFINE b == [engine[a] EXCEPT !.up = FALSE]
  <2>1. UNCHANGED <<app, runs>> /\ engine' = [engine EXCEPT ![a] = b] /\ DOMAIN request' = RoutedCalls
        /\ \A d \in RoutedCalls : request'[d] = IF request[d].at # "free" /\ request[d].app = a
                                                THEN [request[d] EXCEPT !.met = TRUE] ELSE request[d]
    BY <1>1 DEF B!Exits, B!On, B!At, B!About
  <2>2. b \in RoutedContainers /\ b.up = FALSE
    BY LeftAlone DEF RoutedContainers
  <2> HIDE DEF b
  <2>3. engine' \in [Apps -> RoutedContainers] /\ \A x \in Apps : ContainerGoesOn(engine[x], engine'[x], x)
    BY <2>1, <2>2, LeftAlone DEF ContainerGoesOn
  <2>4. ASSUME NEW d \in RoutedCalls PROVE Knows(request'[d]) /\ RequestGoesOn(request[d], request'[d])
    <3>1. CASE request[d].at # "free" /\ request[d].app = a
      BY <2>1, <3>1, RoutedUnderWay DEF Knows, RequestGoesOn
    <3>2. CASE ~(request[d].at # "free" /\ request[d].app = a)
      BY <2>1, <3>2, LeftAlone
    <3> QED
      BY <3>1, <3>2
  <2>5. GoesOn
    BY <2>1, <2>3, <2>4, LeftAlone DEF GoesOn
  <2> QED
    BY <2>5, GoingOn
<1>2. ASSUME NEW c \in RoutedCalls, NEW what \in {"start", "stop", "delete", "refresh"}, B!_allowed(c, a, what) PROVE PortInv'
  <2> DEFINE m == B!On(a) # {}
             q == [at |-> what, app |-> a, seen |-> app[a], met |-> m, id |-> NoId, found |-> "none"]
  <2>1. /\ UNCHANGED <<app, engine, runs>> /\ DOMAIN request' = RoutedCalls /\ B!Exists(a) /\ request'[c] = q
        /\ \A d \in RoutedCalls \ {c} : request'[d] = IF request[d].at # "free" /\ request[d].app = a
                                                      THEN [request[d] EXCEPT !.met = TRUE] ELSE request[d]
    BY <1>2 DEF B!_allowed, B!Asking, B!On, B!At, B!About
  <2>2. /\ q.at = what /\ q.app = a /\ q.seen = app[a] /\ app[a] \in B!ApplicationRows /\ q.id = NoId
        /\ {"at", "app", "seen", "met", "id", "found"} \subseteq DOMAIN q
    BY <2>1, LeftAlone DEF B!Exists
  <2> HIDE DEF q
  <2>3. Knows(q) /\ RequestGoesOn(request[c], q)
    BY <2>1, <2>2 DEF Knows, RequestGoesOn
  <2>4. ASSUME NEW d \in RoutedCalls \ {c} PROVE Knows(request'[d]) /\ RequestGoesOn(request[d], request'[d])
    <3>1. CASE request[d].at # "free" /\ request[d].app = a
      BY <2>1, <3>1, RoutedUnderWay DEF Knows, RequestGoesOn
    <3>2. CASE ~(request[d].at # "free" /\ request[d].app = a)
      BY <2>1, <3>2, LeftAlone
    <3> QED
      BY <3>1, <3>2
  <2>5. \A d \in RoutedCalls : Knows(request'[d]) /\ RequestGoesOn(request[d], request'[d])
    BY <2>1, <2>3, <2>4
  <2>6. GoesOn
    BY <2>1, <2>5, LeftAlone DEF GoesOn
  <2> QED
    BY <2>6, GoingOn
<1> QED
  BY <1>1, <1>2
LEMMA RoutedCreation ==
  ASSUME PortInv, PairsAreNoted, NEW c \in RoutedCalls, NEW a \in Apps, B!create(c, a) PROVE PortInv'
<1>1. PICK p \in Ports \union {NoPort} :
          /\ p # NoPort => B!_free_port(p)
          /\ request' = [request EXCEPT ![c] = [at |-> "insert", app |-> a, seen |-> [state |-> "stopped", container |-> NoId, port |-> p],
                                                met |-> FALSE, id |-> NoId, found |-> "none"]]
  BY DEF B!create, B!Asking, B!Row
<1> DEFINE s == [state |-> "stopped", container |-> NoId, port |-> p]
           q == [at |-> "insert", app |-> a, seen |-> s, met |-> FALSE, id |-> NoId, found |-> "none"]
<1>2. /\ request[c].at = "free" /\ app[a] = NoRow /\ UNCHANGED <<app, engine, runs>>
      /\ \A d \in RoutedCalls : request[d].at = "free" \/ request[d].app # a
  BY DEF B!create, B!On, B!At, B!About
<1>3. DOMAIN request' = RoutedCalls /\ \A d \in RoutedCalls : request'[d] = IF d = c THEN q ELSE request[d]
  BY <1>1, LeftAlone
<1>4. s \in B!ApplicationRows /\ s.port = p
  BY DEF B!ApplicationRows
<1> HIDE DEF s
<1>5. /\ q.at = "insert" /\ q.app = a /\ q.seen = s /\ q.id = NoId /\ {"at", "app", "seen", "met", "id", "found"} \subseteq DOMAIN q
  OBVIOUS
<1> HIDE DEF q
<1>6. PortsAreTheRows'
  BY <1>2 DEF PortInv, PortsAreTheRows, B!Exists
<1>7. RequestsKnow'
  BY <1>2, <1>3, <1>4, <1>5 DEF PortInv, RequestsKnow, Knows, KnowsRow
<1>8. OnceAsked'
  BY <1>2, <1>3, <1>5 DEF PortInv, OnceAsked
<1>9. ASSUME NEW x \in Apps, NEW o \in Ports, Wants(x, o)' PROVE Wants(x, o) \/ (x = a /\ o = p)
  <2>1. CASE app'[x] \notin {NoRow, Gone} /\ app'[x].port = o
    BY <1>2, <2>1 DEF Wants, B!Exists
  <2>2. CASE \E d \in RoutedCalls : request'[d].at = "insert" /\ request'[d].app = x /\ request'[d].seen.port = o
    BY <1>3, <1>4, <1>5, <2>2 DEF Wants
  <2> QED
    BY <1>9, <2>1, <2>2 DEF Wants, B!Exists
<1>10. ASSUME NEW x \in Apps, NEW o \in Ports, x # a, Wants(x, o), o = p
       PROVE  <<x, a>> \in together' /\ <<a, x>> \in together'
  <2>1. ~(B!Exists(x) /\ app[x].port = p)
    BY <1>1, <1>10, RoutedRowsAreRecords DEF B!_free_port, B!FreePorts
  <2>2. PICK d \in RoutedCalls : request[d].at = "insert" /\ request[d].app = x
    BY <1>10, <2>1 DEF Wants
  <2>3. request'[d] = request[d] /\ request'[c] = q
    BY <1>2, <1>3, <2>2
  <2>4. x \in B!Given' /\ a \in B!Given'
    BY <1>5, <2>2, <2>3 DEF B!Given, B!About, B!At
  <2> QED
    BY <1>10, <2>4 DEF PairsAreNoted
<1>11. RivalsAreKnown'
  <2> SUFFICES ASSUME NEW x \in Apps, NEW y \in Apps, NEW o \in Ports, x # y, Wants(x, o)', Wants(y, o)'
               PROVE  <<x, y>> \in together'
    BY DEF RivalsAreKnown
  <2>1. CASE Wants(x, o) /\ Wants(y, o)
    BY <2>1, RivalsMeet
  <2>2. CASE ~Wants(x, o)
    <3>1. x = a /\ o = p /\ Wants(y, o)
      BY <1>9, <2>2
    <3> QED
      BY <1>10, <3>1
  <2>3. CASE ~Wants(y, o)
    <3>1. y = a /\ o = p /\ Wants(x, o)
      BY <1>9, <2>3
    <3> QED
      BY <1>10, <3>1
  <2> QED
    BY <2>1, <2>2, <2>3
<1> QED
  BY <1>6, <1>7, <1>8, <1>11 DEF PortInv

LEMMA RoutedInsertion ==
  ASSUME PortInv, PairsAreNoted, NEW c \in RoutedCalls, B!insert(c) PROVE PortInv'
<1>1. PICK a : a = request[c].app
  OBVIOUS
<1>2. PICK s : s = request[c].seen
  OBVIOUS
<1> DEFINE q == [at |-> "free"]
<1>3. /\ request[c].at = "insert" /\ request' = [request EXCEPT ![c] = q] /\ UNCHANGED <<engine, runs>>
      /\ app' = [app EXCEPT ![a] = s]
  BY <1>1, <1>2 DEF B!insert, B!Closes, B!Free, B!At, B!About, B!Seen
<1>4. a \in Apps /\ s \in B!ApplicationRows /\ app[a] = NoRow
  BY <1>1, <1>2, <1>3, RoutedUnderWay DEF KnowsRow
<1>5. q.at = "free" /\ Knows(q)
  BY LeftAlone
<1> HIDE DEF q
<1>6. /\ DOMAIN request' = RoutedCalls /\ \A d \in RoutedCalls : request'[d] = IF d = c THEN q ELSE request[d]
      /\ app' \in [Apps -> B!ApplicationRows \union {NoRow, Gone}] /\ \A x \in Apps : app'[x] = IF x = a THEN s ELSE app[x]
  BY <1>3, <1>4, LeftAlone
<1>7. ASSUME NEW d \in RoutedCalls, d # c, request[d].at # "free" PROVE request[d].app # a
  <2>1. KnowsRow(request[d], app[request[d].app])
    BY <1>7, RoutedUnderWay
  <2> QED
    BY <1>1, <1>3, <1>4, <1>7, <2>1 DEF KnowsRow, PortInv, OnceAsked
<1>8. PortsAreTheRows'
  BY <1>3, <1>4, <1>6 DEF PortInv, PortsAreTheRows, B!Exists
<1>9. RequestsKnow'
  <2>1. ASSUME NEW d \in RoutedCalls, d # c PROVE Knows(request[d]) /\ (request[d].at # "free" => KnowsRow(request[d], app'[request[d].app]))
    <3>1. request[d].at # "free" => request[d].app # a /\ request[d].app \in Apps /\ KnowsRow(request[d], app[request[d].app])
      BY <1>7, <2>1, RoutedUnderWay
    <3>2. Knows(request[d])
      BY LeftAlone
    <3> QED
      BY <1>6, <3>1, <3>2
  <2> SUFFICES ASSUME NEW d \in RoutedCalls
               PROVE  Knows(request'[d]) /\ (request'[d].at # "free" => KnowsRow(request'[d], app'[request'[d].app]))
    BY <1>6 DEF RequestsKnow
  <2>2. CASE d = c
    BY <1>5, <1>6, <2>2
  <2>3. CASE d # c
    BY <1>6, <2>1, <2>3
  <2> QED
    BY <2>2, <2>3
<1>10. OnceAsked'
  BY <1>5, <1>6 DEF PortInv, OnceAsked
<1>11. ASSUME NEW x \in Apps, NEW o \in Ports, Wants(x, o)' PROVE Wants(x, o)
  <2>1. CASE app'[x] \notin {NoRow, Gone} /\ app'[x].port = o
    BY <1>1, <1>2, <1>3, <1>6, <2>1 DEF Wants, B!Exists
  <2>2. CASE \E d \in RoutedCalls : request'[d].at = "insert" /\ request'[d].app = x /\ request'[d].seen.port = o
    BY <1>5, <1>6, <2>2 DEF Wants
  <2> QED
    BY <1>11, <2>1, <2>2 DEF Wants, B!Exists
<1>12. RivalsAreKnown'
  BY <1>11, RivalsMeet DEF RivalsAreKnown
<1> QED
  BY <1>8, <1>9, <1>10, <1>12 DEF PortInv

LEMMA PortNext == ASSUME PortInv, B!Next, PairsAreNoted PROVE PortInv'
<1>1. ASSUME NEW c \in RoutedCalls, NEW a \in Apps, B!create(c, a) PROVE PortInv'
  BY <1>1, RoutedCreation
<1>2. ASSUME NEW c \in RoutedCalls, NEW a \in Apps,
             \/ B!start_application(c, a) \/ B!stop_application(c, a)
             \/ B!delete_application(c, a) \/ B!read_application(c, a)
      PROVE  PortInv'
  <2>1. \E what \in {"start", "stop", "delete", "refresh"} : B!_allowed(c, a, what)
    BY <1>2 DEF B!start_application, B!stop_application, B!delete_application, B!read_application
  <2> QED
    BY <2>1, RoutedMeetings
<1>3. ASSUME NEW c \in RoutedCalls, B!insert(c) PROVE PortInv'
  BY <1>3, RoutedInsertion
<1>4. ASSUME NEW c \in RoutedCalls, B!_forget_container(c) \/ B!run(c) \/ (B!refresh(c) /\ ~B!Closes(c)) PROVE PortInv'
  BY <1>4, RoutedContainerSteps
<1>5. ASSUME NEW c \in RoutedCalls, (B!refresh(c) /\ B!Closes(c)) \/ B!Dies(c) PROVE PortInv'
  <2>1. request[c].at # "free" /\ B!Closes(c) /\ UNCHANGED <<app, engine, runs>>
    BY <1>5 DEF B!refresh, B!Dies, B!At
  <2> QED
    BY <2>1, RoutedEnds
<1>6. ASSUME NEW c \in RoutedCalls, B!start(c) \/ B!stop(c) \/ B!Refreshed(c) PROVE PortInv'
  <2>1. request[c].at # "free" /\ B!Closes(c) /\ UNCHANGED <<engine, runs>>
    BY <1>6 DEF B!start, B!stop, B!Refreshed, B!At
  <2>2. /\ request[c].id \in (0..MaxRouted) \union {NoId}
        /\ B!Seen(c).container \in (0..MaxRouted) \union {NoId}
    BY <2>1, RoutedUnderWay DEF B!ApplicationRows, B!Seen
  <2>3. \E state \in {"stopped", "running", "failed"}, id \in (0..MaxRouted) \union {NoId} : B!Commit(c, state, id)
    BY <1>6, <2>2 DEF B!start, B!stop, B!Refreshed, B!At
  <2> QED
    BY <2>1, <2>3, RoutedEnds
<1>7. ASSUME NEW c \in RoutedCalls, B!delete(c) PROVE PortInv'
  <2>1. /\ request[c].at # "free" /\ request[c].at # "insert" /\ B!Closes(c) /\ UNCHANGED <<engine, runs>>
        /\ app' = [app EXCEPT ![request[c].app] = Gone]
    BY <1>7 DEF B!delete, B!At, B!About
  <2> QED
    BY <2>1, RoutedEnds
<1>8. ASSUME NEW a \in Apps, B!Exits(a) PROVE PortInv'
  BY <1>8, RoutedMeetings
<1> QED
  BY <1>1, <1>2, <1>3, <1>4, <1>5, <1>6, <1>7, <1>8 DEF B!Next
\* A row that stands keeps its port.
LEMMA PortsAreKept ==
  ASSUME RouteInv, B!Next, PairsAreNoted, NEW a \in Apps, app[a] # NoRow
  PROVE  app'[a] # NoRow /\ (app'[a] # Gone => app[a] # Gone /\ app'[a].port = app[a].port)
<1>0. /\ app \in [Apps -> B!ApplicationRows \union {NoRow, Gone}]
      /\ \A c \in RoutedCalls : request[c].at # "free" => request[c].app \in Apps /\ KnowsRow(request[c], app[request[c].app])
                                                          /\ request[c].seen \in B!ApplicationRows
  BY RoutedUnderWay, LeftAlone DEF RouteInv
<1>1. CASE UNCHANGED app
  BY <1>1
<1>2. ASSUME NEW c \in RoutedCalls, B!insert(c) PROVE app'[a] = app[a]
  <2>1. request[c].at = "insert" /\ app' = [app EXCEPT ![request[c].app] = request[c].seen]
    BY <1>2 DEF B!insert, B!At, B!About, B!Seen
  <2> QED
    BY <1>0, <2>1 DEF KnowsRow
<1>3. ASSUME NEW c \in RoutedCalls, B!delete(c) PROVE app'[a] = app[a] \/ app'[a] = Gone
  <2>1. app' = [app EXCEPT ![request[c].app] = Gone]
    BY <1>3 DEF B!delete, B!About
  <2> QED
    BY <1>0, <2>1
<1>4. ASSUME NEW c \in RoutedCalls, B!start(c) \/ B!stop(c) \/ B!Refreshed(c) PROVE RowGoesOn(app[a], app'[a])
  <2>1. request[c].at # "free" /\ PortInv
    BY <1>4 DEF B!start, B!stop, B!Refreshed, B!At, RouteInv
  <2>2. /\ request[c].id \in (0..MaxRouted) \union {NoId} /\ request[c].app \in Apps
        /\ B!Seen(c).container \in (0..MaxRouted) \union {NoId}
    BY <2>1, RoutedUnderWay DEF B!ApplicationRows, B!Seen
  <2>3. PICK state \in {"stopped", "running", "failed"}, id \in (0..MaxRouted) \union {NoId} : B!Commit(c, state, id)
    BY <1>4, <2>2 DEF B!start, B!stop, B!Refreshed, B!At
  <2>4. PICK b : b = request[c].app
    OBVIOUS
  <2>5. PICK r : app' = [app EXCEPT ![b] = r] /\ RowGoesOn(app[b], r)
    BY <2>1, <2>2, <2>3, <2>4, CommitGoesOn
  <2> QED
    BY <1>0, <2>2, <2>4, <2>5 DEF RowGoesOn
<1>5. RowGoesOn(app[a], app'[a])
  <2>1. \/ UNCHANGED app \/ \E c \in RoutedCalls : B!insert(c) \/ B!delete(c) \/ B!start(c) \/ B!stop(c) \/ B!Refreshed(c)
    BY DEF B!Next, B!create, B!start_application, B!stop_application, B!delete_application, B!read_application, B!_allowed,
           B!_forget_container, B!run, B!refresh, B!Dies, B!Exits
  <2> QED
    BY <1>2, <1>3, <1>4, <2>1 DEF RowGoesOn
<1> QED
  BY <1>5, RoutedRowsAreRecords DEF RowGoesOn

LEMMA RouteNext == RouteInv /\ [B!RoutingNext]_B!routingVars => RouteInv'
<1> SUFFICES ASSUME RouteInv, [B!RoutingNext]_B!routingVars PROVE RouteInv'
  OBVIOUS
<1>0. ASSUME UNCHANGED <<B!appVars, together>> PROVE PortInv'
  <2>1. PortsAreTheRows' /\ RequestsKnow'
    BY <1>0 DEF B!appVars, RouteInv, PortInv, PortsAreTheRows, RequestsKnow, B!Exists, Knows, KnowsRow
  <2>2. OnceAsked' /\ RivalsAreKnown'
    BY <1>0 DEF B!appVars, RouteInv, PortInv, OnceAsked, RivalsAreKnown, Wants, Asks, B!Exists
  <2> QED
    BY <2>1, <2>2 DEF PortInv
<1>1. ASSUME UNCHANGED B!routingVars PROVE RouteInv'
  <2>1. PortInv'
    BY <1>0, <1>1 DEF B!routingVars
  <2> QED
    BY <1>1, <2>1 DEF B!routingVars, B!appVars, RouteInv, CallFits, B!Exists
<1>2. ASSUME B!AppsNext PROVE RouteInv'
  <2>1. B!Next /\ PairsAreNoted /\ UNCHANGED <<route, hop, strays>> /\ PortInv
    BY <1>2 DEF B!AppsNext, PairsAreNoted, RouteInv
  <2>2. PortInv'
    BY <2>1, PortNext
  <2>3. ASSUME NEW h \in Hops PROVE CallFits(hop[h])'
    <3>1. CallFits(hop[h]) /\ hop' = hop
      BY <2>1 DEF RouteInv
    <3>2. CASE hop[h] = [at |-> "free"] \/ hop[h].meant = Outside
      BY <3>1, <3>2 DEF CallFits
    <3>3. CASE /\ hop[h].meant \in Apps /\ hop[h].dials \in Ports /\ app[hop[h].meant] # NoRow
               /\ B!Exists(hop[h].meant) => app[hop[h].meant].port = hop[h].dials
               /\ B!Exists(hop[h].meant) \/ hop[h].meant \in deserted
      <4>1. PICK a \in Apps : a = hop[h].meant
        BY <3>3
      <4>2. app'[a] # NoRow /\ (app'[a] # Gone => app[a] # Gone /\ app'[a].port = app[a].port)
        BY <2>1, <3>3, <4>1, PortsAreKept
      <4>3. CASE hop[h] = B!Waiting
        BY <3>1, <4>3 DEF CallFits, B!Waiting
      <4>4. CASE hop[h] # B!Waiting
        <5>1. deserted \subseteq deserted' /\ (app[a] # Gone /\ app'[a] = Gone => a \in deserted')
          BY <1>2, <4>1, <4>4 DEF B!AppsNext
        <5>2. app'[a] # Gone \/ a \in deserted'
          BY <3>3, <4>1, <5>1 DEF B!Exists
        <5> QED
          BY <3>1, <3>3, <4>1, <4>2, <5>2 DEF CallFits, B!Exists
      <4> QED
        BY <4>3, <4>4
    <3> QED
      BY <3>1, <3>2, <3>3 DEF CallFits
  <2>4. deserted' \subseteq Apps /\ deserted \subseteq deserted'
    BY <1>2 DEF B!AppsNext, RouteInv
  <2>5. together' \subseteq Apps \X Apps /\ together \subseteq together'
    <3>1. B!Given' \subseteq Apps
      BY <2>2 DEF PortInv, RequestsKnow, Knows, B!Given, B!About, B!At
    <3> QED
      BY <2>1, <3>1 DEF PairsAreNoted, RouteInv
  <2> QED
    BY <2>1, <2>2, <2>3, <2>4, <2>5 DEF RouteInv
<1>3. ASSUME NEW n \in Names, B!create_route(n) \/ B!delete_route(n) PROVE RouteInv'
  <2>1. /\ UNCHANGED <<B!appVars, hop, together, strays, deserted>>
        /\ \E row_ \in B!RouteRows \union {NoRoute} : route' = [route EXCEPT ![n] = row_]
    BY <1>3 DEF B!create_route, B!delete_route, B!insert_route, B!past
  <2>2. PortInv'
    BY <1>0, <2>1
  <2> QED
    BY <2>1, <2>2 DEF B!appVars, RouteInv, CallFits, B!Exists
<1>4. ASSUME NEW h \in Hops, NEW n \in Names, B!forward_call(h, n) PROVE RouteInv'
  <2>1. PICK address \in B!resolve(route[n].target) :
            hop' = [hop EXCEPT ![h] = [at |-> "body", meant |-> route[n].target, dials |-> address]]
    BY <1>4 DEF B!forward_call
  <2>2. UNCHANGED <<B!appVars, route, together, strays, deserted>> /\ route[n] \in B!RouteRows
    BY <1>4 DEF B!forward_call, B!Routed, RouteInv, B!past
  <2> DEFINE k == [at |-> "body", meant |-> route[n].target, dials |-> address]
  <2>3. k.meant = route[n].target /\ k.dials = address /\ route[n].target \in Apps \union {Outside}
    BY <2>2 DEF B!RouteRows, B!Targets
  <2> HIDE DEF k
  <2>4. CallFits(k)
    BY <2>3, RoutedRowsAreRecords DEF B!resolve, B!Exists, CallFits
  <2>5. DOMAIN hop' = Hops /\ \A o \in Hops : hop'[o] = IF o = h THEN k ELSE hop[o]
    BY <2>1 DEF RouteInv, k
  <2>6. PortInv'
    BY <1>0, <2>2
  <2>7. \A o \in Hops : CallFits(hop'[o])
    BY <2>4, <2>5 DEF RouteInv
  <2> QED
    BY <2>2, <2>5, <2>6, <2>7 DEF B!appVars, RouteInv, CallFits, B!Exists
<1>5. ASSUME NEW h \in Hops, B!forward(h) PROVE RouteInv'
  <2>1. /\ hop' = [hop EXCEPT ![h] = [at |-> "free"]] /\ UNCHANGED <<B!appVars, route, together, deserted>>
        /\ hop[h] # [at |-> "free"]
        /\ strays' = IF hop[h].meant = Outside THEN strays ELSE strays \union B!Strayed(h)
    BY <1>5 DEF B!forward, B!Waiting
  <2>2. PortInv'
    BY <1>0, <2>1
  <2>3. CallFits([at |-> "free"])
    BY DEF CallFits
  <2>4. DOMAIN hop' = Hops /\ \A o \in Hops : CallFits(hop'[o])
    BY <2>1, <2>3 DEF RouteInv
  <2>5. ASSUME hop[h].meant # Outside, NEW a \in B!Answers(hop[h].dials), a # hop[h].meant, B!Exists(a)
        PROVE  <<hop[h].meant, a>> \in together \union (deserted \X Apps) /\ a \in Apps /\ hop[h].meant \in Apps
    <3>0. a \in Apps /\ hop[h].meant \in Apps /\ (B!Exists(hop[h].meant) \/ hop[h].meant \in deserted)
      BY <2>1, <2>5 DEF RouteInv, CallFits, B!Answers
    <3> SUFFICES ASSUME B!Exists(hop[h].meant) PROVE <<hop[h].meant, a>> \in together
      BY <3>0
    <3>1. PICK t \in Apps : t = hop[h].meant /\ hop[h].dials \in Ports /\ app[t].port = hop[h].dials
      BY <2>1, <2>5 DEF RouteInv, CallFits
    <3>2. PICK p \in Ports : p = hop[h].dials
      BY <3>1
    <3>3. a \in Apps /\ engine[a].up /\ engine[a].port = p
      BY <2>5, <3>2 DEF B!Answers
    <3>4. app[a].port = p /\ ~Asks(a)
      <4>1. app[a].port = p
        BY <2>5, <3>3 DEF RouteInv, PortInv, PortsAreTheRows
      <4>2. ~Asks(a)
        BY <2>5, RoutedUnderWay DEF Asks, KnowsRow, B!Exists, RouteInv
      <4> QED
        BY <4>1, <4>2
    <3>5. Wants(a, p) /\ Wants(t, p) /\ a # t
      BY <2>5, <3>1, <3>2, <3>4 DEF Wants
    <3> QED
      BY <3>1, <3>3, <3>4, <3>5 DEF RouteInv, PortInv, RivalsAreKnown
  <2>6. strays' \subseteq together \union (deserted \X Apps) /\ strays' \subseteq Apps \X Apps
    BY <2>1, <2>5 DEF B!Strayed, RouteInv
  <2> QED
    BY <2>1, <2>2, <2>4, <2>6 DEF B!appVars, RouteInv, CallFits, B!Exists
<1> QED
  BY <1>1, <1>2, <1>3, <1>4, <1>5 DEF B!RoutingNext

(* A call that came through a route reaches the application the route was  *)
(* resolved to, or nothing, unless the two were given their ports at one   *)
(* time or the one the call meant was deleted while the call came in       *)
(* (routing/service.py resolve, forward).                                  *)
THEOREM CallsAreRouted == B!RoutingSpec => [](B!RoutingTypeOK /\ B!CallsReachTheirTarget)
<1>1. RouteInv => B!RoutingTypeOK /\ B!CallsReachTheirTarget
  <2> SUFFICES ASSUME RouteInv PROVE B!RoutingTypeOK /\ B!CallsReachTheirTarget
    OBVIOUS
  <2>1. B!TypeOK
    BY DEF RouteInv, PortInv, PortsAreTheRows, B!TypeOK, B!Exists, RoutedContainers
  <2> QED
    BY <2>1 DEF RouteInv, B!RoutingTypeOK, B!CallsReachTheirTarget
<1> QED
  BY <1>1, RouteInit, RouteNext, PTL DEF B!RoutingSpec
-----------------------------------------------------------------------------
(* Together: a component behaves as it does alone.                         *)

LEMMA HostingBegins == Init =>
    /\ scene = "groups" => N!Init
    /\ scene = "pages" => P!Init
    /\ scene = "apps" => E!Init
    /\ scene = "routing" => B!RoutingInit
    /\ scene = "workspaces" => W!Init
  BY DEF Init

LEMMA HostingGoesOn == [Next]_forgeVars =>
    /\ scene' = scene
    /\ scene = "groups" => [N!Next]_N!groupVars
    /\ scene = "pages" => [P!Next]_P!pagesVars
    /\ scene = "apps" => [E!Next]_E!appVars
    /\ scene = "routing" => [B!RoutingNext]_B!routingVars
    /\ scene = "workspaces" => [W!Next]_W!workspaceVars
<1> SUFFICES ASSUME [Next]_forgeVars
         PROVE  /\ scene' = scene
                /\ scene = "groups" => [N!Next]_N!groupVars
                /\ scene = "pages" => [P!Next]_P!pagesVars
                /\ scene = "apps" => [E!Next]_E!appVars
                /\ scene = "routing" => [B!RoutingNext]_B!routingVars
                /\ scene = "workspaces" => [W!Next]_W!workspaceVars
  OBVIOUS
<1>1. CASE UNCHANGED forgeVars \/ Making \/ Reviewing
  BY <1>1 DEF forgeVars, Making, Reviewing, hostingVars,
    groupVars, pagesVars, appVars, routeVars, workspaceVars, N!groupVars,
    P!pagesVars, E!appVars, B!routingVars, B!appVars, W!workspaceVars
<1>2. CASE Hosting
  BY <1>2 DEF Hosting,
    groupVars, pagesVars, appVars, routeVars, workspaceVars, N!groupVars,
    P!pagesVars, E!appVars, B!routingVars, B!appVars, W!workspaceVars
<1> QED
  BY <1>1, <1>2 DEF Next

LEMMA MakingBegins == Init =>
    /\ scene = "pushes" => U!Init
    /\ scene = "projects" => J!Init
    /\ scene = "templates" => K!Init
  BY DEF Init

LEMMA MakingGoesOn == [Next]_forgeVars =>
    /\ scene' = scene
    /\ scene = "pushes" => [U!Next]_U!pushVars
    /\ scene = "projects" => [J!Next]_J!projectVars
    /\ scene = "templates" => [K!Next]_K!templateVars
<1> SUFFICES ASSUME [Next]_forgeVars
         PROVE  /\ scene' = scene
                /\ scene = "pushes" => [U!Next]_U!pushVars
                /\ scene = "projects" => [J!Next]_J!projectVars
                /\ scene = "templates" => [K!Next]_K!templateVars
  OBVIOUS
<1>1. CASE UNCHANGED forgeVars \/ Hosting \/ Reviewing
  BY <1>1 DEF forgeVars, Hosting, Reviewing, makingVars,
    pushVars, projectVars, templateVars, U!pushVars, U!protectionVars,
    U!historyVars, U!movedVars, J!projectVars, K!templateVars
<1>2. CASE Making
  BY <1>2 DEF Making,
    pushVars, projectVars, templateVars, U!pushVars, U!protectionVars,
    U!historyVars, U!movedVars, J!projectVars, K!templateVars
<1> QED
  BY <1>1, <1>2 DEF Next

LEMMA ReviewingBegins == Init =>
    /\ scene = "issues" => I!Init
    /\ scene = "suggestions" => L!Init
    /\ scene = "scanning" => Z!Init
  BY DEF Init

LEMMA ReviewingGoesOn == [Next]_forgeVars =>
    /\ scene' = scene
    /\ scene = "issues" => [I!Next]_I!issueVars
    /\ scene = "suggestions" => [L!Next]_L!suggestionVars
    /\ scene = "scanning" => [Z!Next]_Z!scanVars
<1> SUFFICES ASSUME [Next]_forgeVars
         PROVE  /\ scene' = scene
                /\ scene = "issues" => [I!Next]_I!issueVars
                /\ scene = "suggestions" => [L!Next]_L!suggestionVars
                /\ scene = "scanning" => [Z!Next]_Z!scanVars
  OBVIOUS
<1>1. CASE UNCHANGED forgeVars \/ Hosting \/ Making
  BY <1>1 DEF forgeVars, Hosting, Making, reviewingVars,
    issueVars, suggestionVars, scanVars, I!issueVars, L!suggestionVars,
    Z!scanVars
<1>2. CASE Reviewing
  BY <1>2 DEF Reviewing,
    issueVars, suggestionVars, scanVars, I!issueVars, L!suggestionVars,
    Z!scanVars
<1> QED
  BY <1>1, <1>2 DEF Next

(* A name is an account's or a group's and a removed group takes no        *)
(* project with it, but where two requests about the name overlapped       *)
(* (community/groups.py create, delete); issues are numbered without a gap *)
(* and say when they were closed exactly while they are                    *)
(* (collaboration/service.py open_issue, update_issue).                    *)
THEOREM AddressesAndProjectsAreKeptHolds == Spec => []AddressesAndProjectsAreKept
<1>1. Init => (scene = "groups" => N!Init)
  BY HostingBegins
<1>2. [Next]_forgeVars => /\ scene = "groups" <=> (scene = "groups")'
                          /\ scene = "groups" => [N!Next]_N!groupVars
  BY HostingGoesOn
<1>3. N!Spec => []N!AddressesAndProjectsAreKept
  BY GroupsKeepWhatTheyHold, ForgeAssumption, PTL
<1>4. Init => (scene = "issues" => I!Init)
  BY ReviewingBegins
<1>5. [Next]_forgeVars => /\ scene = "issues" <=> (scene = "issues")'
                          /\ scene = "issues" => [I!Next]_I!issueVars
  BY ReviewingGoesOn
<1>6. I!Spec => []I!IssuesAreKept
  BY IssuesStayInOrder, ForgeAssumption, PTL
<1>7. (scene = "groups" => N!AddressesAndProjectsAreKept) /\ (scene = "issues" => I!IssuesAreKept) <=> AddressesAndProjectsAreKept
  BY DEF AddressesAndProjectsAreKept
<1> QED
  BY <1>1, <1>2, <1>3, <1>4, <1>5, <1>6, <1>7, PTL DEF Spec, N!Spec, I!Spec

(* Visitors see one commit, whole, as long as no two publications met and  *)
(* no removal left some of the files (pages/service.py publish, remove).   *)
THEOREM SiteIsWholeHolds == Spec => []SiteIsWhole
<1>1. Init => (scene = "pages" => P!Init)
  BY HostingBegins
<1>2. [Next]_forgeVars => /\ scene = "pages" <=> (scene = "pages")'
                          /\ scene = "pages" => [P!Next]_P!pagesVars
  BY HostingGoesOn
<1>3. P!Spec => []P!SiteIsWhole
  BY SitesAreWhole, PTL
<1>4. (scene = "pages" => P!SiteIsWhole) <=> SiteIsWhole
  BY DEF SiteIsWhole
<1> QED
  BY <1>1, <1>2, <1>3, <1>4, PTL DEF Spec, P!Spec

(* An application's row and the engine agree after a start, a stop or a    *)
(* deletion that ran alone (apps/service.py start, stop, delete), and a    *)
(* call reaches what its route names, unless the two applications were     *)
(* given their ports at one time or the one it meant was deleted while it  *)
(* came in (routing/service.py resolve).                                   *)
THEOREM RowTellsEngineHolds == Spec => []RowTellsEngine
<1>1. Init => (scene = "apps" => E!Init)
  BY HostingBegins
<1>2. [Next]_forgeVars => /\ scene = "apps" <=> (scene = "apps")'
                          /\ scene = "apps" => [E!Next]_E!appVars
  BY HostingGoesOn
<1>3. E!Spec => []E!RowTellsEngine
  BY RowsTellTheEngine, ForgeAssumption, PTL
<1>4. Init => (scene = "routing" => B!RoutingInit)
  BY HostingBegins
<1>5. [Next]_forgeVars => /\ scene = "routing" <=> (scene = "routing")'
                          /\ scene = "routing" => [B!RoutingNext]_B!routingVars
  BY HostingGoesOn
<1>6. B!RoutingSpec => []B!CallsReachTheirTarget
  BY CallsAreRouted, ForgeAssumption, PTL
<1>7. (scene = "apps" => E!RowTellsEngine) /\ (scene = "routing" => B!CallsReachTheirTarget) <=> RowTellsEngine
  BY DEF RowTellsEngine
<1> QED
  BY <1>1, <1>2, <1>3, <1>4, <1>5, <1>6, <1>7, PTL DEF Spec, E!Spec, B!RoutingSpec

(* The sweep takes containers of removed workspaces only                   *)
(* (workspaces/service.py sweep).                                          *)
THEOREM SweepSparesTheLivingHolds == Spec => []SweepSparesTheLiving
<1>1. Init => (scene = "workspaces" => W!Init)
  BY HostingBegins
<1>2. [Next]_forgeVars => /\ scene = "workspaces" <=> (scene = "workspaces")'
                          /\ scene = "workspaces" => [W!Next]_W!workspaceVars
  BY HostingGoesOn
<1>3. W!Spec => []W!SweepSparesTheLiving
  BY WorkspacesAreKept, ForgeAssumption, PTL
<1>4. (scene = "workspaces" => W!SweepSparesTheLiving) <=> SweepSparesTheLiving
  BY DEF SweepSparesTheLiving
<1> QED
  BY <1>1, <1>2, <1>3, <1>4, PTL DEF Spec, W!Spec

(* Saving a workspace takes no regular file that git archives carry out of *)
(* the branch unless two requests changed a workspace at a time            *)
(* (workspaces/service.py save), and taking a suggestion changes one line  *)
(* of the last commit                                                      *)
(* (collaboration/suggestions.py apply).                                   *)
THEOREM WorkIsNotUndoneHolds == Spec => []WorkIsNotUndone
<1>1. Init => (scene = "workspaces" => W!Init)
  BY HostingBegins
<1>2. [Next]_forgeVars => /\ scene = "workspaces" <=> (scene = "workspaces")'
                          /\ scene = "workspaces" => [W!Next]_W!workspaceVars
  BY HostingGoesOn
<1>3. W!Spec => []W!WorkIsNotUndone
  BY WorkspacesAreKept, ForgeAssumption, PTL
<1>4. Init => (scene = "suggestions" => L!Init)
  BY ReviewingBegins
<1>5. [Next]_forgeVars => /\ scene = "suggestions" <=> (scene = "suggestions")'
                          /\ scene = "suggestions" => [L!Next]_L!suggestionVars
  BY ReviewingGoesOn
<1>6. L!Spec => []L!OneLineAtATime
  BY SuggestionsTakeALine, ForgeAssumption, PTL
<1>7. (scene = "workspaces" => W!WorkIsNotUndone) /\ (scene = "suggestions" => L!OneLineAtATime) <=> WorkIsNotUndone
  BY DEF WorkIsNotUndone
<1> QED
  BY <1>1, <1>2, <1>3, <1>4, <1>5, <1>6, <1>7, PTL DEF Spec, W!Spec, L!Spec

(* Every tip a push leaves is handed to pipelines and scan, but where it   *)
(* puts a branch back to the tip it was compared with                      *)
(* (repositories/after_push.py handle).                                    *)
THEOREM TipsAreToldHolds == Spec => []TipsAreTold
<1>1. Init => (scene = "pushes" => U!Init)
  BY MakingBegins
<1>2. [Next]_forgeVars => /\ scene = "pushes" <=> (scene = "pushes")'
                          /\ scene = "pushes" => [U!Next]_U!pushVars
  BY MakingGoesOn
<1>3. U!Spec => []U!TipsAreTold
  BY PushesAreTold, ForgeAssumption, PTL
<1>4. (scene = "pushes" => U!TipsAreTold) <=> TipsAreTold
  BY DEF TipsAreTold
<1> QED
  BY <1>1, <1>2, <1>3, <1>4, PTL DEF Spec, U!Spec

(* A branch whose protection was answered is neither deleted nor rewritten *)
(* by a push, unless a change of the protections met that push or another  *)
(* change, or was cut off (repositories/service.py protect_branch, git.py  *)
(* PRE_RECEIVE_HOOK).                                                      *)
THEOREM AnsweredIsEnforcedHolds == Spec => []AnsweredIsEnforced
<1>1. Init => (scene = "pushes" => U!Init)
  BY MakingBegins
<1>2. [Next]_forgeVars => /\ scene = "pushes" <=> (scene = "pushes")'
                          /\ scene = "pushes" => [U!Next]_U!pushVars
  BY MakingGoesOn
<1>3. U!Spec => []U!AnsweredIsEnforced
  BY PushesAreTold, ForgeAssumption, PTL
<1>4. (scene = "pushes" => U!AnsweredIsEnforced) <=> AnsweredIsEnforced
  BY DEF AnsweredIsEnforced
<1> QED
  BY <1>1, <1>2, <1>3, <1>4, PTL DEF Spec, U!Spec

(* A scan that saves while the tip and the findings stand as it read them  *)
(* leaves the findings telling what the branch holds, unless a new secret  *)
(* on several lines of one file takes it back; and no scan puts back on    *)
(* the list what somebody said is fine, but one that had read the finding  *)
(* before that was said (scanning/service.py scan, set_state).             *)
THEOREM FindingsAreKeptHolds == Spec => []FindingsAreKept
<1>1. Init => (scene = "scanning" => Z!Init)
  BY ReviewingBegins
<1>2. [Next]_forgeVars => /\ scene = "scanning" <=> (scene = "scanning")'
                          /\ scene = "scanning" => [Z!Next]_Z!scanVars
  BY ReviewingGoesOn
<1>3. Z!Spec => []Z!LoneScanTells /\ []Z!IgnoredStays
  BY FindingsAreTold, PTL
<1>4. (scene = "scanning" => Z!LoneScanTells) /\ (scene = "scanning" => Z!IgnoredStays) <=> FindingsAreKept
  BY DEF FindingsAreKept
<1> QED
  BY <1>1, <1>2, <1>3, <1>4, PTL DEF Spec, Z!Spec

(* A project has its repository and a removed one leaves none, but where   *)
(* its making was cut off or it was in use when it was removed             *)
(* (repositories/service.py create, delete); who took a template has a     *)
(* whole copy, and is counted once (templates/router.py take_template).    *)
THEOREM RowHasRepositoryHolds == Spec => []RowHasRepository
<1>1. Init => (scene = "projects" => J!Init)
  BY MakingBegins
<1>2. [Next]_forgeVars => /\ scene = "projects" <=> (scene = "projects")'
                          /\ scene = "projects" => [J!Next]_J!projectVars
  BY MakingGoesOn
<1>3. J!Spec => []J!RowHasRepository
  BY ProjectsAreWhole, PTL
<1>4. Init => (scene = "templates" => K!Init)
  BY MakingBegins
<1>5. [Next]_forgeVars => /\ scene = "templates" <=> (scene = "templates")'
                          /\ scene = "templates" => [K!Next]_K!templateVars
  BY MakingGoesOn
<1>6. K!Spec => []K!CopiesAreTheTakers
  BY TemplatesAreCopied, ForgeAssumption, PTL
<1>7. K!Spec => []K!TakenIsHonest
  BY TemplatesAreCopied, ForgeAssumption, PTL
<1>8. (scene = "projects" => J!RowHasRepository) /\ (scene = "templates" => K!CopiesAreTheTakers) /\ (scene = "templates" => K!TakenIsHonest) <=> RowHasRepository
  BY DEF RowHasRepository
<1> QED
  BY <1>1, <1>2, <1>3, <1>4, <1>5, <1>6, <1>7, <1>8, PTL DEF Spec, J!Spec, K!Spec

(* Every component's state stays of its kind.                              *)
THEOREM TypeCorrect == Spec => []TypeOK
<1>1. Spec => [](scene = "groups" => N!TypeOK)
  <2>1. Init => (scene = "groups" => N!Init)
    BY HostingBegins
  <2>2. [Next]_forgeVars => /\ scene = "groups" <=> (scene = "groups")'
                            /\ scene = "groups" => [N!Next]_N!groupVars
    BY HostingGoesOn
  <2>3. N!Spec => []N!TypeOK
    BY GroupsKeepWhatTheyHold, ForgeAssumption, PTL
  <2> QED
    BY <2>1, <2>2, <2>3, PTL DEF Spec, N!Spec
<1>2. Spec => [](scene = "pages" => P!TypeOK)
  <2>1. Init => (scene = "pages" => P!Init)
    BY HostingBegins
  <2>2. [Next]_forgeVars => /\ scene = "pages" <=> (scene = "pages")'
                            /\ scene = "pages" => [P!Next]_P!pagesVars
    BY HostingGoesOn
  <2>3. P!Spec => []P!TypeOK
    BY SitesAreWhole, PTL
  <2> QED
    BY <2>1, <2>2, <2>3, PTL DEF Spec, P!Spec
<1>3. Spec => [](scene = "apps" => E!TypeOK)
  <2>1. Init => (scene = "apps" => E!Init)
    BY HostingBegins
  <2>2. [Next]_forgeVars => /\ scene = "apps" <=> (scene = "apps")'
                            /\ scene = "apps" => [E!Next]_E!appVars
    BY HostingGoesOn
  <2>3. E!Spec => []E!TypeOK
    BY RowsTellTheEngine, ForgeAssumption, PTL
  <2> QED
    BY <2>1, <2>2, <2>3, PTL DEF Spec, E!Spec
<1>4. Spec => [](scene = "routing" => B!RoutingTypeOK)
  <2>1. Init => (scene = "routing" => B!RoutingInit)
    BY HostingBegins
  <2>2. [Next]_forgeVars => /\ scene = "routing" <=> (scene = "routing")'
                            /\ scene = "routing" => [B!RoutingNext]_B!routingVars
    BY HostingGoesOn
  <2>3. B!RoutingSpec => []B!RoutingTypeOK
    BY CallsAreRouted, ForgeAssumption, PTL
  <2> QED
    BY <2>1, <2>2, <2>3, PTL DEF Spec, B!RoutingSpec
<1>5. Spec => [](scene = "workspaces" => W!TypeOK)
  <2>1. Init => (scene = "workspaces" => W!Init)
    BY HostingBegins
  <2>2. [Next]_forgeVars => /\ scene = "workspaces" <=> (scene = "workspaces")'
                            /\ scene = "workspaces" => [W!Next]_W!workspaceVars
    BY HostingGoesOn
  <2>3. W!Spec => []W!TypeOK
    BY WorkspacesAreKept, ForgeAssumption, PTL
  <2> QED
    BY <2>1, <2>2, <2>3, PTL DEF Spec, W!Spec
<1>6. Spec => [](scene = "pushes" => U!TypeOK)
  <2>1. Init => (scene = "pushes" => U!Init)
    BY MakingBegins
  <2>2. [Next]_forgeVars => /\ scene = "pushes" <=> (scene = "pushes")'
                            /\ scene = "pushes" => [U!Next]_U!pushVars
    BY MakingGoesOn
  <2>3. U!Spec => []U!TypeOK
    BY PushesAreTold, ForgeAssumption, PTL
  <2> QED
    BY <2>1, <2>2, <2>3, PTL DEF Spec, U!Spec
<1>7. Spec => [](scene = "projects" => J!TypeOK)
  <2>1. Init => (scene = "projects" => J!Init)
    BY MakingBegins
  <2>2. [Next]_forgeVars => /\ scene = "projects" <=> (scene = "projects")'
                            /\ scene = "projects" => [J!Next]_J!projectVars
    BY MakingGoesOn
  <2>3. J!Spec => []J!TypeOK
    BY ProjectsAreWhole, PTL
  <2> QED
    BY <2>1, <2>2, <2>3, PTL DEF Spec, J!Spec
<1>8. Spec => [](scene = "templates" => K!TypeOK)
  <2>1. Init => (scene = "templates" => K!Init)
    BY MakingBegins
  <2>2. [Next]_forgeVars => /\ scene = "templates" <=> (scene = "templates")'
                            /\ scene = "templates" => [K!Next]_K!templateVars
    BY MakingGoesOn
  <2>3. K!Spec => []K!TypeOK
    BY TemplatesAreCopied, ForgeAssumption, PTL
  <2> QED
    BY <2>1, <2>2, <2>3, PTL DEF Spec, K!Spec
<1>9. Spec => [](scene = "issues" => I!TypeOK)
  <2>1. Init => (scene = "issues" => I!Init)
    BY ReviewingBegins
  <2>2. [Next]_forgeVars => /\ scene = "issues" <=> (scene = "issues")'
                            /\ scene = "issues" => [I!Next]_I!issueVars
    BY ReviewingGoesOn
  <2>3. I!Spec => []I!TypeOK
    BY IssuesStayInOrder, ForgeAssumption, PTL
  <2> QED
    BY <2>1, <2>2, <2>3, PTL DEF Spec, I!Spec
<1>10. Spec => [](scene = "suggestions" => L!TypeOK)
  <2>1. Init => (scene = "suggestions" => L!Init)
    BY ReviewingBegins
  <2>2. [Next]_forgeVars => /\ scene = "suggestions" <=> (scene = "suggestions")'
                            /\ scene = "suggestions" => [L!Next]_L!suggestionVars
    BY ReviewingGoesOn
  <2>3. L!Spec => []L!TypeOK
    BY SuggestionsTakeALine, ForgeAssumption, PTL
  <2> QED
    BY <2>1, <2>2, <2>3, PTL DEF Spec, L!Spec
<1>11. Spec => [](scene = "scanning" => Z!TypeOK)
  <2>1. Init => (scene = "scanning" => Z!Init)
    BY ReviewingBegins
  <2>2. [Next]_forgeVars => /\ scene = "scanning" <=> (scene = "scanning")'
                            /\ scene = "scanning" => [Z!Next]_Z!scanVars
    BY ReviewingGoesOn
  <2>3. Z!Spec => []Z!TypeOK
    BY FindingsAreTold, PTL
  <2> QED
    BY <2>1, <2>2, <2>3, PTL DEF Spec, Z!Spec
<1>12. /\ scene = "groups" => N!TypeOK
       /\ scene = "pages" => P!TypeOK
       /\ scene = "apps" => E!TypeOK
       /\ scene = "routing" => B!RoutingTypeOK
       /\ scene = "workspaces" => W!TypeOK
       /\ scene = "pushes" => U!TypeOK
       /\ scene = "projects" => J!TypeOK
       /\ scene = "templates" => K!TypeOK
       /\ scene = "issues" => I!TypeOK
       /\ scene = "suggestions" => L!TypeOK
       /\ scene = "scanning" => Z!TypeOK
  => TypeOK
  BY DEF TypeOK
<1> QED
  BY <1>1, <1>2, <1>3, <1>4, <1>5, <1>6, <1>7, <1>8, <1>9, <1>10, <1>11, <1>12, PTL
=============================================================================
