--------------------------- MODULE Supply_proofs ---------------------------
(***************************************************************************)
(* Theorems about a driver's papers (Papers) and cars (Garage), for any    *)
(* number of holders, documents, cars and concurrent requests.             *)
(***************************************************************************)
EXTENDS Papers, Garage, FiniteSetTheorems, TLAPS

(***************************************************************************)
(* Papers.                                                                 *)
(***************************************************************************)

(* The kinds of request are apart.                                         *)
LEMMA PaperKinds ==
  /\ Uploads \subseteq PaperRequests /\ Reviews \subseteq PaperRequests
  /\ Verdicts \subseteq PaperRequests /\ Erasers \subseteq PaperRequests
  /\ \A u \in Uploads : u \notin Reviews /\ u \notin Verdicts /\ u \notin Erasers
  /\ \A v \in Reviews : v \notin Uploads /\ v \notin Verdicts /\ v \notin Erasers
  /\ \A a \in Verdicts : a \notin Uploads /\ a \notin Reviews /\ a \notin Erasers
  /\ \A e \in Erasers : e \notin Uploads /\ e \notin Reviews /\ e \notin Verdicts
BY PaperKindsAssumption DEF PaperRequests

(* The uploads that began are finitely many.                               *)
LEMMA BegunFinite ==
  /\ IsFiniteSet(Begun) /\ Cardinality(Begun) \in Nat
  /\ Cardinality(Begun) <= Cardinality(Uploads) /\ Cardinality(Uploads) \in Nat
<1>1. Begun \subseteq Uploads
  BY DEF Begun
<1>2. QED BY <1>1, UploadsAssumption, FS_Subset, FS_CardinalityType

(* A new upload has a time that is within the bound and not taken.         *)
LEMMA NextTime ==
  ASSUME PapersTypeOK, NEW u \in Uploads, paperStep[u] = "new"
  PROVE  1 + Cardinality(Begun) \in 1..Cardinality(Uploads)
<1>1. Begun \cup {u} \subseteq Uploads /\ u \notin Begun
  BY DEF Begun
<1>2. Cardinality(Begun \cup {u}) = Cardinality(Begun) + 1
  BY <1>1, BegunFinite, FS_AddElement
<1>3. Cardinality(Begun \cup {u}) <= Cardinality(Uploads)
  BY <1>1, UploadsAssumption, FS_Subset
<1>4. QED BY <1>2, <1>3, BegunFinite

LEMMA InitPapersInv == PapersInit => PapersInv
<1> SUFFICES ASSUME PapersInit PROVE PapersInv OBVIOUS
<1> USE PaperKinds
<1>1. /\ \A r \in PaperRequests : paperStep[r] = "new" /\ paperNote[r] = Unread
      /\ \A u \in Uploads : paper[u].status = "none" /\ paperStep[u] = "new" /\ ~Live(u)
      /\ \A h \in Holders : standing[h] = "pending"
      /\ \A e \in Erasers : paperNote[e].sweep = {} /\ paperStep[e] = "new"
      /\ file = {} /\ ~closed
  BY DEF PapersInit, Unread, Live
<1>2. PapersTypeOK
  <2>1. Unread \in PaperNote
    BY BegunFinite DEF Unread, PaperNote
  <2>2. [status |-> "none", order |-> 0, expired |-> FALSE, erased |-> FALSE] \in PaperRow
    BY BegunFinite DEF PaperRow
  <2>3. QED BY <2>1, <2>2 DEF PapersInit, PapersTypeOK, PaperSteps, Standings
<1>3. UploadsExplained /\ TimesExplained
  BY <1>1 DEF UploadsExplained, TimesExplained, Timed
<1>4. NotesExplained
  BY <1>1 DEF NotesExplained
<1>5. BesideExplained
  BY <1>1 DEF PapersInit, BesideExplained, Going
<1>6. ApprovalsExplained
  BY <1>1 DEF ApprovalsExplained, PaperRequests
<1>7. FilesAccountedFor
  BY <1>1 DEF FilesAccountedFor
<1>8. QED BY <1>2, <1>3, <1>4, <1>5, <1>6, <1>7 DEF PapersInv

(* Every step keeps the types.                                             *)
LEMMA NextPapersTypeOK == PapersTypeOK /\ NotesExplained /\ [PapersNext]_paperVars => PapersTypeOK'
<1> SUFFICES ASSUME PapersTypeOK, NotesExplained, [PapersNext]_paperVars PROVE PapersTypeOK'
  OBVIOUS
<1> USE PaperKinds DEF PapersTypeOK
<1>1. Unread \in PaperNote
  BY BegunFinite DEF Unread, PaperNote
<1>2. \A u \in Uploads, n \in {"VERIFIED", "REJECTED"} :
        [paper EXCEPT ![u].status = n] \in [Uploads -> PaperRow]
  BY DEF PaperRow
<1>3. ASSUME NEW u \in Uploads, UploadPut(u) PROVE PapersTypeOK'
  <2>1. paperStep[u] = "new"
    BY <1>3 DEF UploadPut, Starts
  <2>2. {v \in Uploads : paperStep[v] # "new"} = Begun
    BY DEF Begun
  <2>3. 1 + Cardinality(Begun) \in 0..Cardinality(Uploads)
    BY <2>1, NextTime, BegunFinite
  <2>4. UploadHolder[u] \in Holders /\ standing[UploadHolder[u]] \in Standings
    BY PapersAssumption
  <2> DEFINE N == [Unread EXCEPT !.holder = UploadHolder[u], !.was = standing[UploadHolder[u]],
                     !.order = 1 + Cardinality({v \in Uploads : paperStep[v] # "new"})]
  <2>5. N \in PaperNote
    BY <2>2, <2>3, <2>4 DEF PaperNote, Unread
  <2>6. Starts(u, N)
    BY <1>3 DEF UploadPut
  <2>7. file' \subseteq Uploads /\ UNCHANGED <<paper, standing, closed>>
    BY <1>3 DEF UploadPut, Put
  <2> HIDE DEF N
  <2>8. QED BY <2>5, <2>6, <2>7 DEF Starts, Moves, PaperSteps
<1>4. ASSUME NEW u \in Uploads, UploadCommit(u) PROVE PapersTypeOK'
  <2>1. UploadHolder[u] \in Holders /\ standing[UploadHolder[u]] \in Standings
    BY PapersAssumption
  <2>2. paperNote[u].order \in 0..Cardinality(Uploads)
    BY DEF PaperNote
  <2>3. [status |-> "PENDING", order |-> paperNote[u].order, expired |-> FALSE, erased |-> FALSE]
          \in PaperRow
    BY <2>2 DEF PaperRow
  <2>4. standing' \in [Holders -> Standings]
    BY <1>4, <2>1 DEF UploadCommit, BackToPending, Standings
  <2>5. QED BY <1>1, <1>4, <2>3, <2>4 DEF UploadCommit, Ends, Moves, PaperSteps
<1>5. ASSUME NEW u \in Uploads, UploadRollback(u) PROVE PapersTypeOK'
  BY <1>1, <1>5 DEF UploadRollback, Discarded, Ends, Moves, PaperSteps
<1>6. ASSUME NEW u \in Uploads, PaperExpires(u) PROVE PapersTypeOK'
  BY <1>6 DEF PaperExpires, PaperRow
<1>7. ASSUME NEW v \in Reviews, review_document(v) PROVE PapersTypeOK'
  <2>1. CASE ReviewRead(v)
    <3>1. PICK u \in Uploads, verdict \in {"VERIFIED", "REJECTED"} :
            Starts(v, [Unread EXCEPT !.paper = u, !.was = paper[u].status, !.now = verdict])
      BY <2>1 DEF ReviewRead
    <3> DEFINE N == [Unread EXCEPT !.paper = u, !.was = paper[u].status, !.now = verdict]
    <3>2. paper[u].status \in {"none", "PENDING", "VERIFIED", "REJECTED"}
      BY DEF PaperRow
    <3>3. N \in PaperNote
      BY <1>1, <3>2 DEF PaperNote, Unread
    <3> HIDE DEF N
    <3>4. QED BY <2>1, <3>1, <3>3 DEF ReviewRead, Starts, Moves, PaperSteps, N
  <2>2. CASE ReviewCommit(v)
    <3>1. paperNote[v].paper \in Uploads /\ paperNote[v].now \in {"VERIFIED", "REJECTED"}
      BY <2>2 DEF ReviewCommit, NotesExplained
    <3>2. paper' \in [Uploads -> PaperRow]
      BY <1>2, <2>2, <3>1 DEF ReviewCommit
    <3>3. QED BY <1>1, <2>2, <3>2 DEF ReviewCommit, Ends, Moves, PaperSteps
  <2>3. QED BY <1>7, <2>1, <2>2 DEF review_document
<1>8. ASSUME NEW a \in Verdicts, approve_driver(a) PROVE PapersTypeOK'
  <2>1. CASE VerdictRead(a)
    <3>1. PICK h \in Holders, s \in {"active", "off"} :
            Starts(a, [Unread EXCEPT !.holder = h, !.was = standing[h], !.now = s])
      BY <2>1 DEF VerdictRead
    <3> DEFINE N == [Unread EXCEPT !.holder = h, !.was = standing[h], !.now = s]
    <3>2. N \in PaperNote
      BY <1>1 DEF PaperNote, Unread, Standings
    <3> HIDE DEF N
    <3>3. QED BY <2>1, <3>1, <3>2 DEF VerdictRead, Starts, Moves, PaperSteps, N
  <2>2. CASE VerdictCommit(a)
    <3>1. paperNote[a].holder \in Holders /\ paperNote[a].now \in {"active", "off"}
      BY <2>2 DEF VerdictCommit, NotesExplained
    <3>2. standing' \in [Holders -> Standings]
      BY <2>2, <3>1 DEF VerdictCommit, Standings
    <3>3. QED BY <2>2, <3>2 DEF VerdictCommit, Moves, PaperSteps
  <2>3. QED BY <1>8, <2>1, <2>2 DEF approve_driver
<1>9. ASSUME NEW e \in Erasers, delete_me(e) PROVE PapersTypeOK'
  <2>1. CASE EraseLook(e)
    <3> DEFINE N == [Unread EXCEPT !.sweep = {u \in Uploads : Live(u)}]
    <3>1. N \in PaperNote
      BY <1>1 DEF PaperNote, Unread
    <3>2. Starts(e, N)
      BY <2>1 DEF EraseLook
    <3> HIDE DEF N
    <3>3. UNCHANGED <<paper, file, standing, closed>>
      BY <2>1 DEF EraseLook
    <3>4. QED BY <3>1, <3>2, <3>3 DEF Starts, Moves, PaperSteps
  <2>2. CASE EraseCommit(e)
    BY <2>2 DEF EraseCommit, Moves, PaperSteps, PaperRow, Standings
  <2>3. CASE EraseFiles(e)
    BY <2>3 DEF EraseFiles, Unlinked, Moves, PaperSteps
  <2>4. QED BY <1>9, <2>1, <2>2, <2>3 DEF delete_me
<1>10. ASSUME NEW r \in PaperRequests, PaperFails(r) \/ Dies(r) PROVE PapersTypeOK'
  BY <1>1, <1>10 DEF PaperFails, Dies, Ends, Moves, PaperSteps
<1>11. CASE UNCHANGED paperVars
  BY <1>11 DEF paperVars
<1>12. QED BY <1>3, <1>4, <1>5, <1>6, <1>7, <1>8, <1>9, <1>10, <1>11
          DEF PapersNext, upload_document

(***************************************************************************)
(* What each step does, row by row.                                        *)
(***************************************************************************)

(* The other requests stay where they are.                                 *)
PaperApart(r) ==
  \A q \in PaperRequests \ {r} : paperStep'[q] = paperStep[q] /\ paperNote'[q] = paperNote[q]

(* A request starts, beside those that run, which are beside it.           *)
LEMMA StartsEffect ==
  ASSUME PapersTypeOK, NEW r \in PaperRequests, NEW note, Starts(r, note)
  PROVE  /\ paperStep[r] = "new" /\ paperStep'[r] = "going" /\ paperNote'[r] = note
         /\ PaperApart(r)
         /\ \A q \in (Verdicts \cup Erasers) \ {r} :
              beside'[q] = IF Going(q) THEN beside[q] \cup ({r} \cap Uploads) ELSE beside[q]
         /\ r \in Verdicts \cup Erasers => beside'[r] = {u \in Uploads : Going(u)}
BY PaperKinds DEF PapersTypeOK, Starts, Moves, PaperApart

LEMMA EndsEffect ==
  ASSUME PapersTypeOK, NEW r \in PaperRequests, NEW s, Ends(r, s)
  PROVE  PaperApart(r) /\ paperStep'[r] = s /\ paperNote'[r] = Unread
BY DEF PapersTypeOK, Ends, Moves, PaperApart

LEMMA MovesEffect ==
  ASSUME PapersTypeOK, NEW r \in PaperRequests, NEW s, Moves(r, s), UNCHANGED paperNote
  PROVE  PaperApart(r) /\ paperStep'[r] = s
BY DEF PapersTypeOK, Moves, PaperApart

LEMMA UploadPutEffect ==
  ASSUME PapersTypeOK, NEW u \in Uploads, UploadPut(u)
  PROVE  /\ paperStep[u] = "new" /\ paperStep'[u] = "going" /\ PaperApart(u) /\ ~closed
         /\ paperNote'[u].order = 1 + Cardinality(Begun)
         /\ paperNote'[u].was = standing[UploadHolder[u]]
         /\ \A q \in Verdicts \cup Erasers :
              beside'[q] = IF Going(q) THEN beside[q] \cup {u} ELSE beside[q]
         /\ file' = file \cup {u} /\ UNCHANGED <<paper, standing, closed>>
<1> DEFINE N == [Unread EXCEPT !.holder = UploadHolder[u], !.was = standing[UploadHolder[u]],
                   !.order = 1 + Cardinality({v \in Uploads : paperStep[v] # "new"})]
<1>1. Starts(u, N) /\ u \in PaperRequests /\ u \notin Verdicts \cup Erasers
  BY PaperKinds DEF UploadPut
<1>2. N.order = 1 + Cardinality(Begun) /\ N.was = standing[UploadHolder[u]]
  BY DEF Unread, Begun
<1> HIDE DEF N
<1>3. QED BY <1>1, <1>2, StartsEffect DEF UploadPut, Put

LEMMA UploadCommitEffect ==
  ASSUME PapersTypeOK, NEW u \in Uploads, UploadCommit(u)
  PROVE  /\ paperStep[u] = "going" /\ paperStep'[u] = "done" /\ PaperApart(u)
         /\ paper'[u].status = "PENDING" /\ paper'[u].order = paperNote[u].order
         /\ ~paper'[u].erased /\ \A v \in Uploads \ {u} : paper'[v] = paper[v]
         /\ \A h \in Holders : standing'[h] =
              IF h = UploadHolder[u] /\ paperNote[u].was = "active" THEN "pending" ELSE standing[h]
         /\ UNCHANGED <<file, closed, beside>>
<1>1. paper' = [paper EXCEPT ![u] = [status |-> "PENDING", order |-> paperNote[u].order,
                                     expired |-> FALSE, erased |-> FALSE]]
  BY DEF UploadCommit
<1>2. QED BY <1>1, PaperKinds, EndsEffect DEF UploadCommit, BackToPending, PapersTypeOK

LEMMA UploadRollbackEffect ==
  ASSUME PapersTypeOK, NEW u \in Uploads, UploadRollback(u)
  PROVE  /\ paperStep[u] = "going" /\ paperStep'[u] = "refused" /\ PaperApart(u)
         /\ file' = file \ {u} /\ UNCHANGED <<paper, standing, closed, beside>>
BY PaperKinds, EndsEffect DEF UploadRollback, Discarded

LEMMA PaperExpiresEffect ==
  ASSUME PapersTypeOK, NEW u \in Uploads, PaperExpires(u)
  PROVE  /\ \A v \in Uploads : /\ paper'[v].status = paper[v].status
                               /\ paper'[v].erased = paper[v].erased
                               /\ paper'[v].order = paper[v].order
         /\ UNCHANGED <<paperStep, paperNote, file, standing, closed, beside>>
BY DEF PapersTypeOK, PaperRow, PaperExpires

LEMMA ReviewReadEffect ==
  ASSUME PapersTypeOK, NEW v \in Reviews, ReviewRead(v)
  PROVE  /\ paperStep[v] = "new" /\ paperStep'[v] = "going" /\ PaperApart(v)
         /\ paperNote'[v].paper \in Uploads /\ Live(paperNote'[v].paper)
         /\ paperNote'[v].now \in {"VERIFIED", "REJECTED"}
         /\ UNCHANGED <<paper, file, standing, closed, beside>>
<1>1. PICK u \in Uploads, verdict \in {"VERIFIED", "REJECTED"} :
        Live(u) /\ Starts(v, [Unread EXCEPT !.paper = u, !.was = paper[u].status, !.now = verdict])
  BY DEF ReviewRead
<1> DEFINE N == [Unread EXCEPT !.paper = u, !.was = paper[u].status, !.now = verdict]
<1>2. N.paper = u /\ N.now = verdict
  BY DEF Unread
<1>3. Starts(v, N)
  BY <1>1
<1> HIDE DEF N
<1>4. /\ paperStep[v] = "new" /\ paperStep'[v] = "going" /\ PaperApart(v) /\ paperNote'[v] = N
  BY <1>3, PaperKinds, StartsEffect
<1>5. UNCHANGED beside
  <2>1. {v} \cap Uploads = {} /\ v \notin Verdicts \cup Erasers
    BY PaperKinds
  <2>2. \A q \in Verdicts \cup Erasers : beside'[q] = beside[q]
    BY <1>3, <2>1, PaperKinds, StartsEffect
  <2>3. beside' \in [Verdicts \cup Erasers -> SUBSET Uploads]
    BY <1>3, <2>1 DEF Starts, PapersTypeOK
  <2>4. QED BY <2>2, <2>3 DEF PapersTypeOK
<1>6. QED BY <1>1, <1>2, <1>4, <1>5 DEF ReviewRead

LEMMA ReviewCommitEffect ==
  ASSUME PapersTypeOK, NotesExplained, NEW v \in Reviews, ReviewCommit(v)
  PROVE  /\ paperStep[v] = "going" /\ paperStep'[v] = "done" /\ PaperApart(v)
         /\ \A u \in Uploads :
              /\ paper'[u].erased = paper[u].erased /\ paper'[u].order = paper[u].order
              /\ \/ paper'[u].status = paper[u].status
                 \/ paper[u].status # "none" /\ paper'[u].status \in {"VERIFIED", "REJECTED"}
         /\ UNCHANGED <<file, standing, closed, beside>>
<1>1. /\ paperNote[v].paper \in Uploads /\ paper[paperNote[v].paper].status # "none"
      /\ paperNote[v].now \in {"VERIFIED", "REJECTED"} /\ v \in PaperRequests
  BY PaperKinds DEF ReviewCommit, NotesExplained
<1>2. \A u \in Uploads : paper[u] \in PaperRow
  BY DEF PapersTypeOK
<1>3. QED BY <1>1, <1>2, EndsEffect DEF ReviewCommit, PapersTypeOK, PaperRow

LEMMA VerdictReadEffect ==
  ASSUME PapersTypeOK, NEW a \in Verdicts, VerdictRead(a)
  PROVE  /\ paperStep[a] = "new" /\ paperStep'[a] = "going" /\ PaperApart(a)
         /\ paperNote'[a].holder \in Holders /\ paperNote'[a].now \in {"active", "off"}
         /\ paperNote'[a].now = "active" => Outstanding(paperNote'[a].holder) = {}
         /\ beside'[a] = {u \in Uploads : Going(u)}
         /\ \A q \in (Verdicts \cup Erasers) \ {a} : beside'[q] = beside[q]
         /\ UNCHANGED <<paper, file, standing, closed>>
<1>1. PICK h \in Holders, s \in {"active", "off"} :
        /\ s = "active" => Outstanding(h) = {}
        /\ Starts(a, [Unread EXCEPT !.holder = h, !.was = standing[h], !.now = s])
  BY DEF VerdictRead
<1> DEFINE N == [Unread EXCEPT !.holder = h, !.was = standing[h], !.now = s]
<1>2. N.holder = h /\ N.now = s
  BY DEF Unread
<1>3. Starts(a, N)
  BY <1>1
<1> HIDE DEF N
<1>4. {a} \cap Uploads = {} /\ a \in PaperRequests
  BY PaperKinds
<1>5. QED BY <1>1, <1>2, <1>3, <1>4, StartsEffect DEF VerdictRead

LEMMA VerdictCommitEffect ==
  ASSUME PapersTypeOK, NotesExplained, NEW a \in Verdicts, VerdictCommit(a)
  PROVE  /\ paperStep[a] = "going" /\ paperStep'[a] = "done" /\ PaperApart(a)
         /\ \A h \in Holders : \/ standing'[h] = standing[h]
                               \/ h = paperNote[a].holder /\ standing'[h] = paperNote[a].now
         /\ UNCHANGED <<paperNote, paper, file, closed, beside>>
<1>1. paperNote[a].holder \in Holders /\ a \in PaperRequests
  BY PaperKinds DEF VerdictCommit, NotesExplained
<1>2. QED BY <1>1, MovesEffect DEF VerdictCommit, PapersTypeOK

LEMMA EraseLookEffect ==
  ASSUME PapersTypeOK, NEW e \in Erasers, EraseLook(e)
  PROVE  /\ paperStep[e] = "new" /\ paperStep'[e] = "going" /\ PaperApart(e) /\ ~closed
         /\ paperNote'[e].sweep = {u \in Uploads : Live(u)}
         /\ beside'[e] = {u \in Uploads : Going(u)}
         /\ \A q \in (Verdicts \cup Erasers) \ {e} : beside'[q] = beside[q]
         /\ UNCHANGED <<paper, file, standing, closed>>
<1> DEFINE N == [Unread EXCEPT !.sweep = {u \in Uploads : Live(u)}]
<1>1. N.sweep = {u \in Uploads : Live(u)}
  BY DEF Unread
<1>2. Starts(e, N)
  BY DEF EraseLook
<1> HIDE DEF N
<1>3. {e} \cap Uploads = {} /\ e \in PaperRequests
  BY PaperKinds
<1>4. QED BY <1>1, <1>2, <1>3, StartsEffect DEF EraseLook

LEMMA EraseCommitEffect ==
  ASSUME PapersTypeOK, NEW e \in Erasers, EraseCommit(e)
  PROVE  /\ paperStep[e] = "going" /\ paperStep'[e] = "committed" /\ PaperApart(e)
         /\ \A u \in Uploads : /\ paper'[u].status = paper[u].status
                               /\ paper'[u].order = paper[u].order
                               /\ paper'[u].erased <=> paper[u].erased \/ u \in paperNote[e].sweep
         /\ closed' /\ UNCHANGED <<paperNote, file, beside>>
BY PaperKinds, MovesEffect DEF PapersTypeOK, PaperRow, EraseCommit

LEMMA EraseFilesEffect ==
  ASSUME PapersTypeOK, NEW e \in Erasers, EraseFiles(e)
  PROVE  /\ paperStep[e] = "committed" /\ paperStep'[e] = "done" /\ PaperApart(e)
         /\ file' = file \ paperNote[e].sweep
         /\ UNCHANGED <<paperNote, paper, standing, closed, beside>>
BY PaperKinds, MovesEffect DEF EraseFiles, Unlinked

LEMMA PaperFailsEffect ==
  ASSUME PapersTypeOK, NEW r \in PaperRequests, PaperFails(r)
  PROVE  /\ r \notin Uploads /\ paperStep[r] = "going" /\ paperStep'[r] = "refused" /\ PaperApart(r)
         /\ paperNote'[r].sweep = {} /\ UNCHANGED <<paper, file, standing, closed, beside>>
<1>1. Unread.sweep = {}
  BY DEF Unread
<1>2. QED BY <1>1, EndsEffect DEF PaperFails

LEMMA DiesEffect ==
  ASSUME PapersTypeOK, NEW r \in PaperRequests, Dies(r)
  PROVE  /\ r \in Uploads \cup Erasers /\ Going(r) /\ paperStep'[r] = "dead" /\ PaperApart(r)
         /\ UNCHANGED <<paperNote, paper, file, standing, closed, beside>>
BY MovesEffect DEF Dies

(***************************************************************************)
(* What each step preserves.                                               *)
(***************************************************************************)

(* What the rows of the papers, the files and the deletions keep.          *)
RowsInv == UploadsExplained /\ NotesExplained /\ BesideExplained /\ FilesAccountedFor

LEMMA UploadPutRows ==
  ASSUME PapersInv, NEW u \in Uploads, UploadPut(u) PROVE RowsInv'
<1> USE PaperKinds DEF PapersInv
<1>1. /\ paperStep[u] = "new" /\ paperStep'[u] = "going" /\ PaperApart(u) /\ ~closed
      /\ \A q \in Verdicts \cup Erasers :
           beside'[q] = IF Going(q) THEN beside[q] \cup {u} ELSE beside[q]
      /\ file' = file \cup {u} /\ UNCHANGED <<paper, standing, closed>>
  BY UploadPutEffect
<1>2. UploadsExplained'
  BY <1>1 DEF UploadsExplained, PaperApart
<1>3. NotesExplained'
  BY <1>1 DEF NotesExplained, PaperApart
<1>4. BesideExplained'
  BY <1>1 DEF BesideExplained, PaperApart, Going, Live
<1>5. FilesAccountedFor'
  BY <1>1 DEF FilesAccountedFor, PaperApart, Live
<1>6. QED BY <1>2, <1>3, <1>4, <1>5 DEF RowsInv

LEMMA UploadCommitRows ==
  ASSUME PapersInv, NEW u \in Uploads, UploadCommit(u) PROVE RowsInv'
<1> USE PaperKinds DEF PapersInv
<1>1. /\ paperStep[u] = "going" /\ paperStep'[u] = "done" /\ PaperApart(u)
      /\ paper'[u].status = "PENDING" /\ ~paper'[u].erased
      /\ \A v \in Uploads \ {u} : paper'[v] = paper[v]
      /\ UNCHANGED <<file, closed, beside>>
  BY UploadCommitEffect
<1>2. UploadsExplained'
  BY <1>1 DEF UploadsExplained, PaperApart
<1>3. NotesExplained'
  <2>1. paper[u].status = "none"
    BY <1>1 DEF UploadsExplained
  <2>2. ASSUME NEW v \in Reviews, paperStep'[v] = "going"
        PROVE  /\ paperNote'[v].paper \in Uploads /\ paper'[paperNote'[v].paper].status # "none"
               /\ paperNote'[v].now \in {"VERIFIED", "REJECTED"}
    BY <1>1, <2>1, <2>2 DEF NotesExplained, PaperApart
  <2>3. ASSUME NEW a \in Verdicts, paperStep'[a] \in {"going", "done"}
        PROVE  paperNote'[a].holder \in Holders /\ paperNote'[a].now \in {"active", "off"}
    BY <1>1, <2>3 DEF NotesExplained, PaperApart
  <2>4. ASSUME NEW e \in Erasers, NEW w \in paperNote'[e].sweep
        PROVE  paper'[w].status # "none" /\ (paperStep'[e] = "committed" => paper'[w].erased)
    <3>1. paperStep'[e] = paperStep[e] /\ paperNote'[e] = paperNote[e]
      BY <1>1 DEF PaperApart
    <3>2. w \in Uploads /\ paper[w].status # "none"
      BY <3>1, <2>4 DEF NotesExplained, PapersTypeOK, PaperNote
    <3>3. paper'[w] = paper[w]
      BY <1>1, <2>1, <3>2
    <3>4. QED BY <2>4, <3>1, <3>3 DEF NotesExplained
  <2>5. QED BY <2>2, <2>3, <2>4 DEF NotesExplained
<1>4. BesideExplained'
  BY <1>1 DEF BesideExplained, PaperApart, Going, Live
<1>5. FilesAccountedFor'
  BY <1>1 DEF FilesAccountedFor, PaperApart, Live, UploadsExplained, BesideExplained, Going
<1>6. QED BY <1>2, <1>3, <1>4, <1>5 DEF RowsInv

LEMMA UploadEndsRows ==
  ASSUME PapersInv, NEW u \in Uploads, UploadRollback(u) PROVE RowsInv'
<1> USE PaperKinds DEF PapersInv
<1>1. /\ paperStep[u] = "going" /\ paperStep'[u] = "refused" /\ PaperApart(u)
      /\ file' = file \ {u} /\ UNCHANGED <<paper, standing, closed, beside>>
  BY UploadRollbackEffect
<1>2. UploadsExplained'
  BY <1>1 DEF UploadsExplained, PaperApart
<1>3. NotesExplained'
  BY <1>1 DEF NotesExplained, PaperApart
<1>4. BesideExplained'
  BY <1>1 DEF BesideExplained, PaperApart, Going, Live
<1>5. FilesAccountedFor'
  BY <1>1 DEF FilesAccountedFor, PaperApart, Live, UploadsExplained
<1>6. QED BY <1>2, <1>3, <1>4, <1>5 DEF RowsInv

(* A request about papers on record starts, or ends: they stay on record.  *)
LEMMA SamePapersRows ==
  ASSUME PapersInv, NEW r \in PaperRequests, r \notin Uploads, PaperApart(r),
         \/ /\ paperStep[r] = "new" /\ paperStep'[r] = "going"
            /\ r \in Verdicts \cup Erasers => beside'[r] = {u \in Uploads : Going(u)}
            /\ \A q \in (Verdicts \cup Erasers) \ {r} : beside'[q] = beside[q]
            /\ r \in Erasers => paperNote'[r].sweep = {u \in Uploads : Live(u)}
         \/ /\ paperStep[r] = "going" /\ paperStep'[r] \in {"done", "refused"}
            /\ UNCHANGED beside
            /\ r \in Erasers => paperNote'[r].sweep = {},
         r \in Reviews /\ paperStep'[r] = "going" =>
           /\ paperNote'[r].paper \in Uploads /\ paper[paperNote'[r].paper].status # "none"
           /\ paperNote'[r].now \in {"VERIFIED", "REJECTED"},
         r \in Verdicts /\ paperStep'[r] \in {"going", "done"} =>
           paperNote'[r].holder \in Holders /\ paperNote'[r].now \in {"active", "off"},
         \A u \in Uploads : /\ paper'[u].status = "none" <=> paper[u].status = "none"
                            /\ paper'[u].erased = paper[u].erased,
         UNCHANGED <<file, closed>>
  PROVE  RowsInv'
<1> USE PaperKinds DEF PapersInv
<1>1. \A u \in Uploads : /\ paperStep'[u] = paperStep[u]
                         /\ Live(u)' <=> Live(u)
                         /\ Going(u)' <=> Going(u)
  BY DEF PaperApart, Live, Going
<1>2. UploadsExplained'
  BY <1>1 DEF UploadsExplained
<1>3. NotesExplained'
  <2>1. ASSUME NEW v \in Reviews, paperStep'[v] = "going"
        PROVE  /\ paperNote'[v].paper \in Uploads /\ paper'[paperNote'[v].paper].status # "none"
               /\ paperNote'[v].now \in {"VERIFIED", "REJECTED"}
    BY <2>1 DEF NotesExplained, PaperApart
  <2>2. ASSUME NEW a \in Verdicts, paperStep'[a] \in {"going", "done"}
        PROVE  paperNote'[a].holder \in Holders /\ paperNote'[a].now \in {"active", "off"}
    BY <2>2 DEF NotesExplained, PaperApart
  <2>3. ASSUME NEW e \in Erasers, NEW u \in paperNote'[e].sweep
        PROVE  paper'[u].status # "none" /\ (paperStep'[e] = "committed" => paper'[u].erased)
    <3>1. CASE e = r
      BY <1>1, <2>3, <3>1 DEF Live
    <3>2. CASE e # r
      <4>1. paperStep'[e] = paperStep[e] /\ paperNote'[e] = paperNote[e]
        BY <3>2 DEF PaperApart
      <4>2. u \in paperNote[e].sweep /\ u \in Uploads
        BY <2>3, <4>1 DEF PapersTypeOK, PaperNote
      <4>3. QED BY <4>1, <4>2 DEF NotesExplained
    <3>3. QED BY <3>1, <3>2
  <2>4. QED BY <2>1, <2>2, <2>3 DEF NotesExplained
<1>4. BesideExplained'
  <2>1. ASSUME NEW q \in Verdicts \cup Erasers
        PROVE  /\ paperStep'[q] = "new" => beside'[q] = {}
               /\ \A u \in Uploads : Going(q)' /\ Going(u)' => u \in beside'[q]
    BY <1>1 DEF BesideExplained, PaperApart, Going
  <2>2. ASSUME NEW e \in Erasers, NEW u \in Uploads, paperStep'[e] = "going", Live(u)'
        PROVE  u \in paperNote'[e].sweep \cup beside'[e]
    <3>1. CASE e = r
      BY <1>1, <2>2, <3>1
    <3>2. CASE e # r
      <4>1. paperStep'[e] = paperStep[e] /\ paperNote'[e] = paperNote[e] /\ beside'[e] = beside[e]
        BY <3>2 DEF PaperApart
      <4>2. QED BY <1>1, <2>2, <4>1 DEF BesideExplained
    <3>3. QED BY <3>1, <3>2
  <2>3. closed' => \A u \in Uploads : Going(u)' => \E e \in Erasers : u \in beside'[e]
    BY <1>1 DEF BesideExplained
  <2>4. QED BY <2>1, <2>2, <2>3 DEF BesideExplained
<1>5. FilesAccountedFor'
  <2>1. \A e \in Erasers : paperStep[e] \in {"committed", "dead"} =>
          paperStep'[e] = paperStep[e] /\ paperNote'[e] = paperNote[e]
    BY DEF PaperApart
  <2>2. \A e \in Erasers : beside[e] \subseteq beside'[e]
    BY DEF BesideExplained
  <2>3. QED BY <1>1, <2>1, <2>2 DEF FilesAccountedFor
<1>6. QED BY <1>2, <1>3, <1>4, <1>5 DEF RowsInv

LEMMA ReviewRows ==
  ASSUME PapersInv, NEW v \in Reviews, review_document(v) PROVE RowsInv'
<1> USE PaperKinds DEF PapersInv
<1>1. CASE ReviewRead(v)
  <2>1. /\ paperStep[v] = "new" /\ paperStep'[v] = "going" /\ PaperApart(v)
        /\ paperNote'[v].paper \in Uploads /\ Live(paperNote'[v].paper)
        /\ paperNote'[v].now \in {"VERIFIED", "REJECTED"}
        /\ UNCHANGED <<paper, file, standing, closed, beside>>
    BY <1>1, ReviewReadEffect
  <2>2. v \in PaperRequests /\ v \notin Uploads \cup Verdicts \cup Erasers
    OBVIOUS
  <2>3. QED BY <2>1, <2>2, SamePapersRows DEF Live
<1>2. CASE ReviewCommit(v)
  <2>1. /\ paperStep[v] = "going" /\ paperStep'[v] = "done" /\ PaperApart(v)
        /\ \A u \in Uploads :
             /\ paper'[u].erased = paper[u].erased
             /\ \/ paper'[u].status = paper[u].status
                \/ paper[u].status # "none" /\ paper'[u].status \in {"VERIFIED", "REJECTED"}
        /\ UNCHANGED <<file, standing, closed, beside>>
    BY <1>2, ReviewCommitEffect
  <2>2. v \in PaperRequests /\ v \notin Uploads \cup Verdicts \cup Erasers
    OBVIOUS
  <2>3. QED BY <2>1, <2>2, SamePapersRows
<1>3. QED BY <1>1, <1>2 DEF review_document

LEMMA VerdictRows ==
  ASSUME PapersInv, NEW a \in Verdicts, approve_driver(a) PROVE RowsInv'
<1> USE PaperKinds DEF PapersInv
<1>1. a \in PaperRequests /\ a \notin Uploads \cup Reviews \cup Erasers
  OBVIOUS
<1>2. CASE VerdictRead(a)
  BY <1>1, <1>2, VerdictReadEffect, SamePapersRows
<1>3. CASE VerdictCommit(a)
  <2>1. /\ paperStep[a] = "going" /\ paperStep'[a] = "done" /\ PaperApart(a)
        /\ UNCHANGED <<paperNote, paper, file, closed, beside>>
    BY <1>3, VerdictCommitEffect
  <2>2. paperNote'[a].holder \in Holders /\ paperNote'[a].now \in {"active", "off"}
    BY <2>1 DEF NotesExplained
  <2>3. QED BY <1>1, <2>1, <2>2, SamePapersRows
<1>4. QED BY <1>2, <1>3 DEF approve_driver

LEMMA EraseLookRows ==
  ASSUME PapersInv, NEW e \in Erasers, EraseLook(e) PROVE RowsInv'
<1> USE PaperKinds DEF PapersInv
<1>1. e \in PaperRequests /\ e \notin Uploads \cup Reviews \cup Verdicts
  OBVIOUS
<1>2. QED BY <1>1, EraseLookEffect, SamePapersRows

LEMMA PaperFailsRows ==
  ASSUME PapersInv, NEW r \in PaperRequests, PaperFails(r) PROVE RowsInv'
<1> USE DEF PapersInv
<1>1. QED BY PaperFailsEffect, SamePapersRows

LEMMA PaperExpiresRows ==
  ASSUME PapersInv, NEW u \in Uploads, PaperExpires(u) PROVE RowsInv'
<1> USE PaperKinds DEF PapersInv
<1>1. /\ \A v \in Uploads : /\ paper'[v].status = paper[v].status
                            /\ paper'[v].erased = paper[v].erased
      /\ UNCHANGED <<paperStep, paperNote, file, standing, closed, beside>>
  BY PaperExpiresEffect
<1>2. \A v \in Uploads : (Live(v)' <=> Live(v)) /\ (Going(v)' <=> Going(v))
  BY <1>1 DEF Live, Going
<1>3. \A q \in Verdicts \cup Erasers : Going(q)' <=> Going(q)
  BY <1>1 DEF Going
<1>4. UploadsExplained'
  BY <1>1 DEF UploadsExplained
<1>5. NotesExplained'
  <2>1. \A e \in Erasers : paperNote[e].sweep \subseteq Uploads
    BY DEF PapersTypeOK, PaperNote
  <2>2. QED BY <1>1, <2>1 DEF NotesExplained
<1>6. BesideExplained'
  BY <1>1, <1>2, <1>3 DEF BesideExplained
<1>7. FilesAccountedFor'
  BY <1>1, <1>2 DEF FilesAccountedFor
<1>8. QED BY <1>4, <1>5, <1>6, <1>7 DEF RowsInv

LEMMA EraseCommitRows ==
  ASSUME PapersInv, NEW e \in Erasers, EraseCommit(e) PROVE RowsInv'
<1> USE PaperKinds DEF PapersInv
<1>1. /\ paperStep[e] = "going" /\ paperStep'[e] = "committed" /\ PaperApart(e)
      /\ \A u \in Uploads : /\ paper'[u].status = paper[u].status
                            /\ paper'[u].erased <=> paper[u].erased \/ u \in paperNote[e].sweep
      /\ closed' /\ UNCHANGED <<paperNote, file, beside>>
  BY EraseCommitEffect
<1>2. \A u \in Uploads : /\ paperStep'[u] = paperStep[u] /\ (Going(u)' <=> Going(u))
                         /\ Live(u)' <=> Live(u) /\ u \notin paperNote[e].sweep
  BY <1>1 DEF PaperApart, Live, Going
<1>3. \A q \in Verdicts \cup Erasers : Going(q)' <=> Going(q)
  BY <1>1 DEF Going, PaperApart
<1>4. UploadsExplained'
  BY <1>1, <1>2 DEF UploadsExplained
<1>5. NotesExplained'
  <2>1. \A d \in Erasers : paperNote[d].sweep \subseteq Uploads
    BY DEF PapersTypeOK, PaperNote
  <2>2. \A d \in Erasers : paperStep'[d] = "committed" => paperStep[d] = "committed" \/ d = e
    BY <1>1 DEF PaperApart
  <2>3. ASSUME NEW d \in Erasers, NEW u \in paperNote'[d].sweep
        PROVE  paper'[u].status # "none" /\ (paperStep'[d] = "committed" => paper'[u].erased)
    BY <1>1, <2>1, <2>2, <2>3 DEF NotesExplained
  <2>4. ASSUME NEW v \in Reviews, paperStep'[v] = "going"
        PROVE  /\ paperNote'[v].paper \in Uploads /\ paper'[paperNote'[v].paper].status # "none"
               /\ paperNote'[v].now \in {"VERIFIED", "REJECTED"}
    BY <1>1, <2>4 DEF NotesExplained, PaperApart
  <2>5. ASSUME NEW a \in Verdicts, paperStep'[a] \in {"going", "done"}
        PROVE  paperNote'[a].holder \in Holders /\ paperNote'[a].now \in {"active", "off"}
    BY <1>1, <2>5 DEF NotesExplained, PaperApart
  <2>6. QED BY <2>3, <2>4, <2>5 DEF NotesExplained
<1>6. BesideExplained'
  <2>1. \A u \in Uploads : Going(u) => u \in beside[e]
    BY <1>1 DEF BesideExplained, Going
  <2>2. ASSUME NEW q \in Verdicts \cup Erasers
        PROVE  /\ paperStep'[q] = "new" => beside'[q] = {}
               /\ \A u \in Uploads : Going(q)' /\ Going(u)' => u \in beside'[q]
    BY <1>1, <1>2, <1>3 DEF BesideExplained, PaperApart
  <2>3. ASSUME NEW d \in Erasers, NEW u \in Uploads, paperStep'[d] = "going", Live(u)'
        PROVE  u \in paperNote'[d].sweep \cup beside'[d]
    BY <1>1, <1>2, <2>3 DEF BesideExplained, PaperApart
  <2>4. \A u \in Uploads : Going(u)' => u \in beside'[e]
    BY <1>1, <1>2, <2>1
  <2>5. QED BY <2>2, <2>3, <2>4 DEF BesideExplained
<1>7. FilesAccountedFor'
  <2>1. \A u \in Uploads : Live(u) => u \in paperNote[e].sweep \cup beside[e]
    BY <1>1 DEF BesideExplained
  <2>2. \A u \in Uploads : Live(u)' => u \in file' /\ u \in beside'[e]
    BY <1>1, <1>2, <2>1 DEF FilesAccountedFor
  <2>3. ASSUME NEW u \in Uploads, u \in file, ~Live(u)'
        PROVE  \/ paperStep'[u] \in {"going", "dead"}
               \/ \E d \in Erasers : u \in paperNote'[d].sweep /\ paperStep'[d] \in {"committed", "dead"}
    <3>1. CASE u \in paperNote[e].sweep
      BY <1>1, <3>1
    <3>2. CASE u \notin paperNote[e].sweep
      <4>1. ~Live(u)
        BY <1>1, <2>3, <3>2 DEF Live
      <4>2. CASE paperStep[u] \in {"going", "dead"}
        BY <1>2, <4>2
      <4>3. CASE \E d \in Erasers : u \in paperNote[d].sweep /\ paperStep[d] \in {"committed", "dead"}
        BY <1>1, <4>3 DEF PaperApart
      <4>4. QED BY <2>3, <4>1, <4>2, <4>3 DEF FilesAccountedFor
    <3>3. QED BY <3>1, <3>2
  <2>4. QED BY <1>1, <2>2, <2>3 DEF FilesAccountedFor
<1>8. QED BY <1>4, <1>5, <1>6, <1>7 DEF RowsInv

LEMMA EraseFilesRows ==
  ASSUME PapersInv, NEW e \in Erasers, EraseFiles(e) PROVE RowsInv'
<1> USE PaperKinds DEF PapersInv
<1>1. /\ paperStep[e] = "committed" /\ paperStep'[e] = "done" /\ PaperApart(e)
      /\ file' = file \ paperNote[e].sweep
      /\ UNCHANGED <<paperNote, paper, standing, closed, beside>>
  BY EraseFilesEffect
<1>2. \A u \in Uploads : /\ paperStep'[u] = paperStep[u] /\ (Going(u)' <=> Going(u))
                         /\ Live(u)' <=> Live(u)
  BY <1>1 DEF PaperApart, Live, Going
<1>3. \A u \in paperNote[e].sweep : paper[u].status # "none" /\ paper[u].erased
  BY <1>1 DEF NotesExplained
<1>4. UploadsExplained'
  BY <1>1, <1>2, <1>3 DEF UploadsExplained
<1>5. NotesExplained'
  BY <1>1 DEF NotesExplained, PaperApart
<1>6. BesideExplained'
  <2>1. \A q \in Verdicts \cup Erasers : Going(q)' => Going(q)
    BY <1>1 DEF Going, PaperApart
  <2>2. QED BY <1>1, <1>2, <2>1 DEF BesideExplained, PaperApart
<1>7. FilesAccountedFor'
  <2>1. ASSUME NEW u \in Uploads, u \in file', ~Live(u)'
        PROVE  \/ paperStep'[u] \in {"going", "dead"}
               \/ \E d \in Erasers : u \in paperNote'[d].sweep /\ paperStep'[d] \in {"committed", "dead"}
    BY <1>1, <1>2, <2>1 DEF FilesAccountedFor, PaperApart
  <2>2. QED BY <1>1, <1>2, <1>3, <2>1 DEF FilesAccountedFor, Live
<1>8. QED BY <1>4, <1>5, <1>6, <1>7 DEF RowsInv

LEMMA DiesRows ==
  ASSUME PapersInv, NEW r \in PaperRequests, Dies(r) PROVE RowsInv'
<1> USE PaperKinds DEF PapersInv
<1>1. /\ r \in Uploads \cup Erasers /\ Going(r) /\ paperStep'[r] = "dead" /\ PaperApart(r)
      /\ UNCHANGED <<paperNote, paper, file, standing, closed, beside>>
  BY DiesEffect
<1>2. \A q \in PaperRequests : (Going(q)' => Going(q)) /\ (q # r => paperStep'[q] = paperStep[q])
  BY <1>1 DEF Going, PaperApart
<1>3. \A u \in Uploads : Live(u)' <=> Live(u)
  BY <1>1 DEF Live
<1>4. UploadsExplained'
  BY <1>1, <1>2 DEF UploadsExplained, Going
<1>5. NotesExplained'
  BY <1>1, <1>2 DEF NotesExplained
<1>6. BesideExplained'
  BY <1>1, <1>2, <1>3 DEF BesideExplained
<1>7. FilesAccountedFor'
  BY <1>1, <1>2, <1>3 DEF FilesAccountedFor
<1>8. QED BY <1>4, <1>5, <1>6, <1>7 DEF RowsInv

LEMMA NextRows == PapersInv /\ [PapersNext]_paperVars => RowsInv'
<1> SUFFICES ASSUME PapersInv, [PapersNext]_paperVars PROVE RowsInv'
  OBVIOUS
<1>1. CASE UNCHANGED paperVars
  BY <1>1 DEF PapersInv, RowsInv, paperVars, UploadsExplained, NotesExplained, BesideExplained,
              FilesAccountedFor, Going, Live
<1>2. CASE PapersNext
  BY <1>2, UploadPutRows, UploadCommitRows, UploadEndsRows, PaperExpiresRows, ReviewRows,
     VerdictRows, EraseLookRows, EraseCommitRows, EraseFilesRows, PaperFailsRows, DiesRows
     DEF PapersNext, upload_document, delete_me
<1>3. QED BY <1>1, <1>2

(***************************************************************************)
(* The times of the uploads.                                               *)
(***************************************************************************)

LEMMA TimesKept ==
  ASSUME TimesExplained, Begun' = Begun,
         \A v \in Uploads : Timed(v)' => Timed(v) /\ TimeOf(v)' = TimeOf(v)
  PROVE  TimesExplained'
BY DEF TimesExplained

LEMMA UploadPutTimes ==
  ASSUME PapersInv, NEW u \in Uploads, UploadPut(u) PROVE TimesExplained'
<1> USE PaperKinds DEF PapersInv
<1>1. /\ paperStep[u] = "new" /\ paperStep'[u] = "going" /\ PaperApart(u)
      /\ paperNote'[u].order = 1 + Cardinality(Begun) /\ UNCHANGED paper
  BY UploadPutEffect
<1>2. Begun' = Begun \cup {u} /\ u \notin Begun
  BY <1>1 DEF Begun, PaperApart
<1>3. Cardinality(Begun') = Cardinality(Begun) + 1 /\ Cardinality(Begun) \in Nat
  BY <1>2, BegunFinite, FS_AddElement
<1>4. /\ TimeOf(u)' = 1 + Cardinality(Begun)
      /\ \A v \in Uploads \ {u} : (Timed(v)' <=> Timed(v)) /\ TimeOf(v)' = TimeOf(v)
  BY <1>1 DEF TimeOf, Timed, PaperApart
<1>5. \A v \in Uploads \ {u} : Timed(v)' => TimeOf(v)' \in 1..Cardinality(Begun)
  BY <1>4 DEF TimesExplained
<1>6. \A v \in Uploads : Timed(v)' => TimeOf(v)' \in 1..Cardinality(Begun')
  BY <1>3, <1>4, <1>5
<1>7. ASSUME NEW v \in Uploads, NEW w \in Uploads, Timed(v)', Timed(w)', TimeOf(v)' = TimeOf(w)'
      PROVE  v = w
  <2>1. CASE v = u \/ w = u
    BY <1>3, <1>4, <1>5, <1>7, <2>1
  <2>2. CASE v # u /\ w # u
    BY <1>4, <1>7, <2>2 DEF TimesExplained
  <2>3. QED BY <2>1, <2>2
<1>8. QED BY <1>6, <1>7 DEF TimesExplained

(* A request that is no upload leaves the times alone.                     *)
LEMMA OthersTimes ==
  ASSUME PapersInv, \A u \in Uploads : paperStep'[u] = paperStep[u] /\ paper'[u].order = paper[u].order
                                       /\ (paperStep[u] = "going" => paperNote'[u] = paperNote[u])
  PROVE  TimesExplained'
<1>1. Begun' = Begun
  BY DEF Begun
<1>2. \A v \in Uploads : Timed(v)' => Timed(v) /\ TimeOf(v)' = TimeOf(v)
  BY DEF Timed, TimeOf
<1>3. QED BY <1>1, <1>2, TimesKept DEF PapersInv

LEMMA NextTimes == PapersInv /\ [PapersNext]_paperVars => TimesExplained'
<1> SUFFICES ASSUME PapersInv, [PapersNext]_paperVars PROVE TimesExplained'
  OBVIOUS
<1> USE PaperKinds
<1>0. PapersTypeOK /\ NotesExplained
  BY DEF PapersInv
<1>1. ASSUME NEW u \in Uploads, UploadCommit(u) PROVE TimesExplained'
  <2>1. /\ paperStep[u] = "going" /\ paperStep'[u] = "done" /\ PaperApart(u)
        /\ paper'[u].order = paperNote[u].order /\ \A v \in Uploads \ {u} : paper'[v] = paper[v]
    BY <1>0, <1>1, UploadCommitEffect
  <2>2. Begun' = Begun
    BY <2>1 DEF Begun, PaperApart
  <2>3. \A v \in Uploads : Timed(v)' => Timed(v) /\ TimeOf(v)' = TimeOf(v)
    BY <2>1 DEF Timed, TimeOf, PaperApart
  <2>4. QED BY <2>2, <2>3, TimesKept DEF PapersInv
<1>2. ASSUME NEW r \in PaperRequests, r \in Uploads \cup Erasers,
             paperStep'[r] \in {"refused", "dead"}, Going(r), PaperApart(r), UNCHANGED paper
      PROVE  TimesExplained'
  <2>1. Begun' = Begun
    BY <1>2 DEF Begun, PaperApart, Going
  <2>2. \A v \in Uploads : Timed(v)' => Timed(v) /\ TimeOf(v)' = TimeOf(v)
    BY <1>2 DEF Timed, TimeOf, PaperApart
  <2>3. QED BY <2>1, <2>2, TimesKept DEF PapersInv
<1>3. ASSUME NEW r \in PaperRequests, r \notin Uploads, PaperApart(r),
             \A u \in Uploads : paper'[u].order = paper[u].order
      PROVE  TimesExplained'
  BY <1>3, OthersTimes DEF PaperApart
<1>4. ASSUME NEW u \in Uploads, upload_document(u) \/ PaperExpires(u) PROVE TimesExplained'
  <2>1. CASE UploadRollback(u)
    BY <1>0, <1>2, <2>1, UploadRollbackEffect DEF Going
  <2>2. CASE PaperExpires(u)
    BY <1>0, <2>2, PaperExpiresEffect, OthersTimes
  <2>3. QED BY <1>1, <1>4, <2>1, <2>2, UploadPutTimes DEF upload_document
<1>5. ASSUME NEW v \in Reviews, review_document(v) PROVE TimesExplained'
  BY <1>0, <1>3, <1>5, ReviewReadEffect, ReviewCommitEffect DEF review_document
<1>6. ASSUME NEW a \in Verdicts, approve_driver(a) PROVE TimesExplained'
  BY <1>0, <1>3, <1>6, VerdictReadEffect, VerdictCommitEffect DEF approve_driver
<1>7. ASSUME NEW e \in Erasers, delete_me(e) PROVE TimesExplained'
  BY <1>0, <1>3, <1>7, EraseLookEffect, EraseCommitEffect, EraseFilesEffect DEF delete_me
<1>8. ASSUME NEW r \in PaperRequests, PaperFails(r) PROVE TimesExplained'
  BY <1>0, <1>3, <1>8, PaperFailsEffect
<1>9. ASSUME NEW r \in PaperRequests, Dies(r) PROVE TimesExplained'
  BY <1>0, <1>2, <1>9, DiesEffect
<1>10. CASE UNCHANGED paperVars
  BY <1>10, OthersTimes DEF paperVars
<1>11. QED BY <1>4, <1>5, <1>6, <1>7, <1>8, <1>9, <1>10 DEF PapersNext

(***************************************************************************)
(* What approval rests on.                                                 *)
(***************************************************************************)

(* Whose papers are live and when they came decide which is current.       *)
LEMMA CurrentSame ==
  ASSUME NEW h \in Holders, NEW t \in Types,
         \A u \in Uploads : (Live(u)' <=> Live(u)) /\ paper'[u].order = paper[u].order
  PROVE  Current(h, t)' = Current(h, t)
BY DEF Current

(* A step that commits no approval and no upload leaves them as they were, *)
(* for the uploads and the verdicts that start see nothing they miss.      *)
LEMMA ApprovalsKept ==
  ASSUME PapersInv, ~closed' => ~closed,
         \A h \in Holders : standing'[h] = "active" => standing[h] = "active",
         \A u \in Uploads : paperStep'[u] = "going" =>
           \/ paperStep[u] = "going" /\ paperNote'[u].was = paperNote[u].was
           \/ paperNote'[u].was = standing[UploadHolder[u]],
         \A u \in Uploads : paper'[u].status = "PENDING" => paper[u].status = "PENDING",
         \A u \in Uploads : (Live(u)' <=> Live(u)) /\ paper'[u].order = paper[u].order,
         \A a \in Verdicts : paperStep[a] = "done" =>
           paperStep'[a] = "done" /\ paperNote'[a] = paperNote[a] /\ beside[a] \subseteq beside'[a],
         \A a \in Verdicts : paperStep'[a] = "going" =>
           \/ paperStep[a] = "going" /\ paperNote'[a] = paperNote[a] /\ beside[a] \subseteq beside'[a]
           \/ /\ paperNote'[a].holder \in Holders
              /\ paperNote'[a].now = "active" => Outstanding(paperNote'[a].holder) = {}
  PROVE  ApprovalsExplained'
<1> USE DEF PapersInv
<1> SUFFICES ASSUME ~closed' PROVE ApprovalsExplained'
  BY DEF ApprovalsExplained
<1>1. \A u, h : ApprovedBeside(u, h) => ApprovedBeside(u, h)'
  BY DEF ApprovedBeside
<1>2. \A h \in Holders, t \in Types : Current(h, t)' = Current(h, t)
  BY CurrentSame
<1>3. ASSUME NEW u \in Uploads, paperStep'[u] = "going", paperNote'[u].was # "active",
             standing'[UploadHolder[u]] = "active"
      PROVE  ApprovedBeside(u, UploadHolder[u])'
  <2>1. UploadHolder[u] \in Holders
    BY PapersAssumption
  <2>2. QED BY <1>1, <1>3, <2>1 DEF ApprovalsExplained
<1>4. ASSUME NEW h \in Holders, NEW t \in Types, standing'[h] = "active",
             NEW u \in Current(h, t)', paper'[u].status = "PENDING"
      PROVE  ApprovedBeside(u, h)'
  <2>1. u \in Current(h, t) /\ u \in Uploads
    BY <1>2 DEF Current
  <2>2. QED BY <1>1, <1>4, <2>1 DEF ApprovalsExplained
<1>5. ASSUME NEW a \in Verdicts, paperStep'[a] = "going", paperNote'[a].now = "active", NEW t \in Types,
             NEW u \in Current(paperNote[a].holder, t)', paper'[u].status = "PENDING"
      PROVE  u \in beside'[a]
  <2> DEFINE h == paperNote'[a].holder
  <2>1. h \in Holders
    BY <1>5 DEF NotesExplained
  <2>2. u \in Current(h, t) /\ u \in Uploads /\ paper[u].status = "PENDING"
    BY <1>2, <1>5, <2>1 DEF Current
  <2>3. CASE paperStep[a] = "going" /\ paperNote'[a] = paperNote[a] /\ beside[a] \subseteq beside'[a]
    BY <1>5, <2>2, <2>3 DEF ApprovalsExplained
  <2>4. CASE Outstanding(h) = {}
    <3>1. PICK w \in Current(h, t) : Valid(w)
      BY <2>4 DEF Outstanding
    <3>2. w \in Uploads /\ paper[w].order <= paper[u].order /\ paper[u].order <= paper[w].order
      BY <2>2, <3>1 DEF Current
    <3>3. paper[w].order = paper[u].order
      <4>1. paper[w].order \in Nat /\ paper[u].order \in Nat
        BY <2>2, <3>2, BegunFinite DEF PapersTypeOK, PaperRow
      <4>2. QED BY <3>2, <4>1
    <3>4. paperStep[u] = "done" /\ paperStep[w] = "done"
      BY <2>2, <3>1, <3>2 DEF UploadsExplained, Valid
    <3>5. u = w
      BY <2>2, <3>2, <3>3, <3>4 DEF TimesExplained, Timed, TimeOf
    <3>6. QED BY <2>2, <3>1, <3>5 DEF Valid
  <2>5. QED BY <1>5, <2>3, <2>4
<1>6. QED BY <1>3, <1>4, <1>5 DEF ApprovalsExplained

LEMMA UploadCommitApprovals ==
  ASSUME PapersInv, NEW u \in Uploads, UploadCommit(u) PROVE ApprovalsExplained'
<1> USE PaperKinds DEF PapersInv
<1>1. /\ paperStep[u] = "going" /\ paperStep'[u] = "done" /\ PaperApart(u)
      /\ paper'[u].status = "PENDING" /\ \A v \in Uploads \ {u} : paper'[v] = paper[v]
      /\ \A h \in Holders : standing'[h] =
           IF h = UploadHolder[u] /\ paperNote[u].was = "active" THEN "pending" ELSE standing[h]
      /\ UNCHANGED <<file, closed, beside>>
  BY UploadCommitEffect
<1> SUFFICES ASSUME ~closed' PROVE ApprovalsExplained'
  BY DEF ApprovalsExplained
<1>2. \A v, h : ApprovedBeside(v, h) => ApprovedBeside(v, h)'
  BY <1>1 DEF ApprovedBeside, PaperApart
<1>3. paper[u].status = "none"
  BY <1>1 DEF UploadsExplained
<1>4. \A h \in Holders, t \in Types : Current(h, t)' \subseteq Current(h, t) \cup {u}
  BY <1>1, <1>3 DEF Current, Live
<1>5. ASSUME NEW v \in Uploads, paperStep'[v] = "going", paperNote'[v].was # "active",
             standing'[UploadHolder[v]] = "active"
      PROVE  ApprovedBeside(v, UploadHolder[v])'
  <2>1. UploadHolder[v] \in Holders /\ v # u
    BY <1>1, <1>5, PapersAssumption
  <2>2. standing[UploadHolder[v]] = "active" /\ paperStep[v] = "going" /\ paperNote[v].was # "active"
    BY <1>1, <1>5, <2>1 DEF PaperApart
  <2>3. QED BY <1>1, <1>2, <2>2 DEF ApprovalsExplained
<1>6. ASSUME NEW h \in Holders, NEW t \in Types, standing'[h] = "active",
             NEW v \in Current(h, t)', paper'[v].status = "PENDING"
      PROVE  ApprovedBeside(v, h)'
  <2>1. standing[h] = "active"
    BY <1>1, <1>6
  <2>2. CASE v = u
    <3>1. h = UploadHolder[u] /\ paperNote[u].was # "active"
      BY <1>1, <1>6, <2>2 DEF Current
    <3>2. QED BY <1>1, <1>2, <2>1, <2>2, <3>1 DEF ApprovalsExplained
  <2>3. CASE v # u
    <3>1. v \in Current(h, t) /\ paper[v].status = "PENDING"
      BY <1>1, <1>4, <1>6, <2>3 DEF Current
    <3>2. QED BY <1>1, <1>2, <2>1, <3>1 DEF ApprovalsExplained
  <2>4. QED BY <2>2, <2>3
<1>7. ASSUME NEW a \in Verdicts, paperStep'[a] = "going", paperNote'[a].now = "active", NEW t \in Types,
             NEW v \in Current(paperNote[a].holder, t)', paper'[v].status = "PENDING"
      PROVE  v \in beside'[a]
  <2>1. paperStep[a] = "going" /\ paperNote'[a] = paperNote[a]
    BY <1>1, <1>7 DEF PaperApart
  <2>2. CASE v = u
    BY <1>1, <2>1, <2>2 DEF BesideExplained, Going
  <2>3. CASE v # u
    <3>1. paperNote[a].holder \in Holders
      BY <2>1 DEF NotesExplained
    <3>2. v \in Current(paperNote[a].holder, t) /\ paper[v].status = "PENDING"
      BY <1>1, <1>4, <1>7, <2>1, <2>3, <3>1 DEF Current
    <3>3. QED BY <1>1, <1>7, <2>1, <3>2 DEF ApprovalsExplained
  <2>4. QED BY <2>2, <2>3
<1>8. QED BY <1>5, <1>6, <1>7 DEF ApprovalsExplained

LEMMA VerdictCommitApprovals ==
  ASSUME PapersInv, NEW a \in Verdicts, VerdictCommit(a) PROVE ApprovalsExplained'
<1> USE PaperKinds DEF PapersInv
<1>1. /\ paperStep[a] = "going" /\ paperStep'[a] = "done" /\ PaperApart(a)
      /\ \A h \in Holders : \/ standing'[h] = standing[h]
                            \/ h = paperNote[a].holder /\ standing'[h] = paperNote[a].now
      /\ UNCHANGED <<paperNote, paper, file, closed, beside>>
  BY VerdictCommitEffect
<1> SUFFICES ASSUME ~closed' PROVE ApprovalsExplained'
  BY DEF ApprovalsExplained
<1>2. \A u, h : ApprovedBeside(u, h) => ApprovedBeside(u, h)'
  BY <1>1 DEF ApprovedBeside, PaperApart
<1>3. \A u \in Uploads : paperStep'[u] = paperStep[u]
  BY <1>1 DEF PaperApart
<1>4. \A h \in Holders, t \in Types : Current(h, t)' = Current(h, t)
  BY <1>1 DEF Current, Live
<1>5. ASSUME NEW h \in Holders, standing'[h] = "active", standing[h] # "active"
      PROVE  paperNote[a].holder = h /\ paperNote[a].now = "active"
  BY <1>1, <1>5
<1>6. ASSUME NEW u \in Uploads, paperStep'[u] = "going", paperNote'[u].was # "active",
             standing'[UploadHolder[u]] = "active"
      PROVE  ApprovedBeside(u, UploadHolder[u])'
  <2>1. UploadHolder[u] \in Holders
    BY PapersAssumption
  <2>2. CASE standing[UploadHolder[u]] = "active"
    BY <1>1, <1>2, <1>3, <1>6, <2>2 DEF ApprovalsExplained
  <2>3. CASE standing[UploadHolder[u]] # "active"
    <3>1. u \in beside[a]
      BY <1>1, <1>3, <1>6 DEF BesideExplained, Going
    <3>2. QED BY <1>1, <1>5, <1>6, <2>1, <2>3, <3>1 DEF ApprovedBeside
  <2>4. QED BY <2>2, <2>3
<1>7. ASSUME NEW h \in Holders, NEW t \in Types, standing'[h] = "active",
             NEW u \in Current(h, t)', paper'[u].status = "PENDING"
      PROVE  ApprovedBeside(u, h)'
  <2>1. u \in Current(h, t) /\ paper[u].status = "PENDING"
    BY <1>1, <1>4, <1>7
  <2>2. CASE standing[h] = "active"
    BY <1>1, <1>2, <2>1, <2>2 DEF ApprovalsExplained
  <2>3. CASE standing[h] # "active"
    <3>1. paperNote[a].holder = h /\ paperNote[a].now = "active"
      BY <1>5, <1>7, <2>3
    <3>2. u \in beside[a]
      BY <1>1, <2>1, <3>1 DEF ApprovalsExplained
    <3>3. QED BY <1>1, <3>1, <3>2 DEF ApprovedBeside
  <2>4. QED BY <2>2, <2>3
<1>8. ASSUME NEW b \in Verdicts, paperStep'[b] = "going", paperNote'[b].now = "active", NEW t \in Types,
             NEW u \in Current(paperNote[b].holder, t)', paper'[u].status = "PENDING"
      PROVE  u \in beside'[b]
  <2>1. paperStep[b] = "going" /\ paperNote'[b] = paperNote[b]
    BY <1>1, <1>8 DEF PaperApart
  <2>2. paperNote[b].holder \in Holders
    BY <2>1 DEF NotesExplained
  <2>3. QED BY <1>1, <1>4, <1>8, <2>1, <2>2 DEF ApprovalsExplained
<1>9. QED BY <1>6, <1>7, <1>8 DEF ApprovalsExplained

LEMMA NextApprovals == PapersInv /\ [PapersNext]_paperVars => ApprovalsExplained'
<1> SUFFICES ASSUME PapersInv, [PapersNext]_paperVars PROVE ApprovalsExplained'
  OBVIOUS
<1> USE PaperKinds
<1>0. PapersTypeOK /\ NotesExplained
  BY DEF PapersInv
<1>1. ASSUME NEW u \in Uploads, UploadPut(u) PROVE ApprovalsExplained'
  <2>1. /\ paperStep[u] = "new" /\ paperStep'[u] = "going" /\ PaperApart(u)
        /\ paperNote'[u].was = standing[UploadHolder[u]]
        /\ \A q \in Verdicts \cup Erasers :
             beside'[q] = IF Going(q) THEN beside[q] \cup {u} ELSE beside[q]
        /\ UNCHANGED <<paper, standing, closed>>
    BY <1>0, <1>1, UploadPutEffect
  <2>2. \A v \in Uploads : Live(v)' <=> Live(v)
    BY <2>1 DEF Live
  <2>3. QED BY <2>1, <2>2, ApprovalsKept DEF PaperApart
<1>2. ASSUME NEW u \in Uploads, UploadRollback(u) PROVE ApprovalsExplained'
  <2>1. /\ paperStep'[u] = "refused" /\ PaperApart(u) /\ UNCHANGED <<paper, standing, closed, beside>>
    BY <1>0, <1>2, UploadRollbackEffect
  <2>2. \A v \in Uploads : Live(v)' <=> Live(v)
    BY <2>1 DEF Live
  <2>3. QED BY <2>1, <2>2, ApprovalsKept DEF PaperApart
<1>3. ASSUME NEW u \in Uploads, PaperExpires(u) PROVE ApprovalsExplained'
  <2>1. /\ \A v \in Uploads : /\ paper'[v].status = paper[v].status
                              /\ paper'[v].erased = paper[v].erased
                              /\ paper'[v].order = paper[v].order
        /\ UNCHANGED <<paperStep, paperNote, standing, closed, beside>>
    BY <1>0, <1>3, PaperExpiresEffect
  <2>2. \A v \in Uploads : Live(v)' <=> Live(v)
    BY <2>1 DEF Live
  <2>3. QED BY <2>1, <2>2, ApprovalsKept
<1>4. ASSUME NEW v \in Reviews, review_document(v) PROVE ApprovalsExplained'
  <2>1. /\ PaperApart(v) /\ UNCHANGED <<standing, closed, beside>>
        /\ \A u \in Uploads :
             /\ paper'[u].erased = paper[u].erased /\ paper'[u].order = paper[u].order
             /\ \/ paper'[u].status = paper[u].status
                \/ paper[u].status # "none" /\ paper'[u].status \in {"VERIFIED", "REJECTED"}
    BY <1>0, <1>4, ReviewReadEffect, ReviewCommitEffect DEF review_document
  <2>2. \A u \in Uploads : Live(u)' <=> Live(u)
    BY <2>1 DEF Live
  <2>3. QED BY <2>1, <2>2, ApprovalsKept DEF PaperApart
<1>5. ASSUME NEW a \in Verdicts, VerdictRead(a) PROVE ApprovalsExplained'
  <2>1. /\ paperStep[a] = "new" /\ paperStep'[a] = "going" /\ PaperApart(a)
        /\ paperNote'[a].holder \in Holders
        /\ paperNote'[a].now = "active" => Outstanding(paperNote'[a].holder) = {}
        /\ \A q \in (Verdicts \cup Erasers) \ {a} : beside'[q] = beside[q]
        /\ UNCHANGED <<paper, standing, closed>>
    BY <1>0, <1>5, VerdictReadEffect
  <2>2. \A v \in Uploads : Live(v)' <=> Live(v)
    BY <2>1 DEF Live
  <2>3. QED BY <2>1, <2>2, ApprovalsKept DEF PaperApart
<1>6. ASSUME NEW e \in Erasers, EraseLook(e) \/ EraseFiles(e) PROVE ApprovalsExplained'
  <2>1. /\ PaperApart(e) /\ UNCHANGED <<paper, standing, closed>>
        /\ \A q \in Verdicts : beside'[q] = beside[q]
    BY <1>0, <1>6, EraseLookEffect, EraseFilesEffect
  <2>2. \A v \in Uploads : Live(v)' <=> Live(v)
    BY <2>1 DEF Live
  <2>3. QED BY <2>1, <2>2, ApprovalsKept DEF PaperApart
<1>7. ASSUME NEW e \in Erasers, EraseCommit(e) PROVE ApprovalsExplained'
  BY <1>0, <1>7, EraseCommitEffect DEF ApprovalsExplained
<1>8. ASSUME NEW r \in PaperRequests, PaperFails(r) \/ Dies(r) PROVE ApprovalsExplained'
  <2>1. /\ PaperApart(r) /\ paperStep'[r] \in {"refused", "dead"} /\ Going(r)
        /\ UNCHANGED <<paper, standing, closed, beside>>
    BY <1>0, <1>8, PaperFailsEffect, DiesEffect DEF Going
  <2>2. \A v \in Uploads : Live(v)' <=> Live(v)
    BY <2>1 DEF Live
  <2>3. QED BY <2>1, <2>2, ApprovalsKept DEF PaperApart, Going
<1>9. CASE UNCHANGED paperVars
  <2>1. \A v \in Uploads : Live(v)' <=> Live(v)
    BY <1>9 DEF Live, paperVars
  <2>2. QED BY <1>9, <2>1, ApprovalsKept DEF paperVars
<1>10. QED BY <1>1, <1>2, <1>3, <1>4, <1>5, <1>6, <1>7, <1>8, <1>9,
              UploadCommitApprovals, VerdictCommitApprovals
          DEF PapersNext, upload_document, approve_driver, delete_me

LEMMA NextPapersInv == PapersInv /\ [PapersNext]_paperVars => PapersInv'
<1> SUFFICES ASSUME PapersInv, [PapersNext]_paperVars PROVE PapersInv'
  OBVIOUS
<1>1. PapersTypeOK /\ NotesExplained
  BY DEF PapersInv
<1>2. QED BY <1>1, NextPapersTypeOK, NextRows, NextTimes, NextApprovals DEF PapersInv, RowsInv

LEMMA PapersInvHolds == PapersSpec => []PapersInv
<1>1. QED BY InitPapersInv, NextPapersInv, PTL DEF PapersSpec

(* Type correctness of the papers and of the requests about them.          *)
THEOREM PapersTypes == PapersSpec => []PapersTypeOK
<1>1. PapersInv => PapersTypeOK
  BY DEF PapersInv
<1>2. QED BY <1>1, PapersInvHolds, PTL

(* storage.py, DiscardOnRollbackStorage, and erasure.py: whatever fails or *)
(* dies at whatever moment, a document on record has its file, and a file  *)
(* with no record is that of a request still running or whose process died *)
THEOREM FilesAreAccountedFor == PapersSpec => []FilesAccountedFor
<1>1. PapersInv => FilesAccountedFor
  BY DEF PapersInv
<1>2. QED BY <1>1, PapersInvHolds, PTL

(* driver_documents.py, vehicle_documents.py and approve of                *)
(* routers/admin.py: no approval stands on a document that nobody reviewed *)
(* unless the document was uploaded beside that very approval.             *)
THEOREM ApprovalsRestOnReviews == PapersSpec => []ActiveOnReviewedPapers
<1>1. PapersInv => ActiveOnReviewedPapers
  <2> SUFFICES ASSUME PapersInv, ~closed, NEW h \in Holders, NEW t \in Types, standing[h] = "active",
                      NEW u \in Current(h, t), paper[u].status = "PENDING"
               PROVE  \E a \in Verdicts : /\ paperNote[a].holder = h /\ paperNote[a].now = "active"
                                          /\ u \in beside[a]
    BY DEF ActiveOnReviewedPapers
  <2>1. ApprovedBeside(u, h)
    BY DEF PapersInv, ApprovalsExplained
  <2>2. QED BY <2>1 DEF ApprovedBeside
<1>2. QED BY <1>1, PapersInvHolds, PTL

(***************************************************************************)
(* Garage.                                                                 *)
(***************************************************************************)

LEMMA GarageKinds ==
  /\ Registrations \subseteq GarageRequests /\ CarDecisions \subseteq GarageRequests
  /\ CarUploads \subseteq GarageRequests /\ CarErasers \subseteq GarageRequests
  /\ CarDecisions \subseteq CarChanges /\ CarUploads \subseteq CarChanges
  /\ CarChanges \subseteq GarageRequests
  /\ GarageRequests = Registrations \cup CarChanges \cup CarErasers
  /\ \A r \in Registrations : /\ r \notin CarChanges /\ r \notin CarErasers /\ r \notin CarUploads
                              /\ r # NoCar
                              /\ CarDriver[r] \in Drivers /\ CarPlate[r] \in Plates
  /\ \A x \in CarChanges : x \notin Registrations /\ x \notin CarErasers
  /\ \A x \in CarDecisions : x \notin CarUploads
  /\ \A e \in CarErasers : /\ e \notin Registrations /\ e \notin CarChanges /\ e \notin CarUploads
                            /\ ErasedDriver[e] \in Drivers
BY GarageAssumption DEF GarageRequests, CarChanges

LEMMA CarsFinite ==
  LET Born == {c \in Registrations : Exists(c)} IN
    /\ Cardinality(Born) \in Nat /\ Cardinality(Registrations) \in Nat
    /\ Cardinality(Born) <= Cardinality(Registrations)
    /\ \A r \in Registrations : ~Exists(r) => Cardinality(Born) + 1 <= Cardinality(Registrations)
<1> DEFINE Born == {c \in Registrations : Exists(c)}
<1>1. Born \subseteq Registrations
  OBVIOUS
<1> HIDE DEF Born
<1>2. /\ IsFiniteSet(Born) /\ Cardinality(Born) \in Nat /\ Cardinality(Registrations) \in Nat
      /\ Cardinality(Born) <= Cardinality(Registrations)
  BY <1>1, GarageAssumption, FS_Subset, FS_CardinalityType
<1>3. ASSUME NEW r \in Registrations, ~Exists(r)
      PROVE  Cardinality(Born) + 1 <= Cardinality(Registrations)
  <2>1. r \notin Born /\ Born \cup {r} \subseteq Registrations
    BY <1>1, <1>3 DEF Born
  <2>2. Cardinality(Born \cup {r}) = Cardinality(Born) + 1
    BY <1>2, <2>1, FS_AddElement
  <2>3. Cardinality(Born \cup {r}) <= Cardinality(Registrations)
    BY <2>1, GarageAssumption, FS_Subset
  <2>4. QED BY <2>2, <2>3
<1>4. QED BY <1>2, <1>3 DEF Born

(* The steps are of six kinds.                                             *)
CarApart(r) == \A q \in GarageRequests \ {r} : garage'[q] = garage[q] /\ looked'[q] = looked[q]

\* A request begins.
Begins(r) ==
  /\ garage[r] = "new" /\ garage'[r] = "read" /\ CarApart(r) /\ looked'[r] \in Looked
  /\ crossed'[r] = {p \in GarageRequests : InGarage(p)}
  /\ \A q \in GarageRequests \ {r} :
       crossed'[q] = IF InGarage(q) THEN crossed[q] \cup {r} ELSE crossed[q]
  /\ looked'[r].car = NoCar =>
       r \in CarErasers \/ (r \in Registrations /\ Presented(CarDriver[r]) = {})
  /\ r \in CarErasers => looked'[r] = NotLooked /\ riding[ErasedDriver[r]] = NoCar
  /\ r \in CarUploads => looked'[r].now = "PENDING"
  /\ looked'[r].car # NoCar =>
       /\ looked'[r].car \in InUse(CarDriver[looked'[r].car])
       /\ looked'[r].was = car[looked'[r].car].status
       /\ looked'[r].now \in VehicleStatus
       /\ looked'[r].now # "ACTIVE" /\ r \notin CarUploads =>
            riding[CarDriver[looked'[r].car]] # looked'[r].car
       /\ r \in Registrations => /\ CarDriver[looked'[r].car] = CarDriver[r]
                                 /\ looked'[r].now \in {"PENDING", "RETIRED"}
  /\ UNCHANGED <<retiring, car, riding>>

\* A request goes on, or fails, and writes nothing.
GoesOn(r) ==
  /\ \/ garage[r] \in {"new", "read", "flushed"} /\ garage'[r] = "refused"
     \/ garage[r] = "read" /\ r \in Registrations /\ garage'[r] = "collided"
     \/ /\ garage[r] = "read" /\ r \in Registrations /\ garage'[r] = "flushed"
        /\ ~Corrects(r) /\ WithPlate(r) = {} /\ PlateHolders(r) = {}
     \/ garage[r] = "read" /\ r \in CarErasers /\ garage'[r] = "flushed"
  /\ CarApart(r)
  /\ \A e \in CarErasers : \/ retiring'[e] = retiring[e]
                            \/ (garage[e] = "read" /\ retiring'[e] = CarsOf(ErasedDriver[e]))
  /\ UNCHANGED <<looked, car, riding, crossed>>

\* A request writes what it decided, and a new car with it.
StatusAfter(r, c) ==
  IF garage[r] = "flushed" /\ c = r THEN "PENDING"
  ELSE IF c = looked[r].car /\ looked[r].now # looked[r].was THEN looked[r].now ELSE car[c].status
Writes(r) ==
  /\ r \notin CarErasers
  /\ InGarage(r) /\ garage'[r] = "done" /\ CarApart(r)
  /\ \A c \in Registrations : car'[c].status = StatusAfter(r, c)
  /\ garage[r] = "flushed" =>
       r \in Registrations /\ (looked[r].car # NoCar => looked[r].now = "RETIRED")
  /\ garage[r] = "read" => looked[r].car # NoCar
  /\ UNCHANGED <<looked, retiring, riding, crossed>>

\* The closing of an account retires the cars it read.
Retires(e) ==
  /\ garage[e] = "flushed" /\ garage'[e] = "done" /\ CarApart(e)
  /\ \A c \in Registrations :
       car'[c].status = IF c \in retiring[e] THEN "RETIRED" ELSE car[c].status
  /\ UNCHANGED <<looked, retiring, riding, crossed>>

LEMMA EntersEffect ==
  ASSUME GarageTypeOK, NEW r \in GarageRequests, NEW what, Enters(r, what)
  PROVE  /\ garage'[r] = "read" /\ looked'[r] = what /\ CarApart(r)
         /\ crossed'[r] = {p \in GarageRequests : InGarage(p)}
         /\ \A q \in GarageRequests \ {r} :
              crossed'[q] = IF InGarage(q) THEN crossed[q] \cup {r} ELSE crossed[q]
BY DEF GarageTypeOK, Enters, Proceeds, CarApart

LEMMA RegisterReadBegins ==
  ASSUME GarageTypeOK, NEW r \in Registrations, RegisterRead(r) PROVE Begins(r)
<1> USE GarageKinds
<1>1. garage[r] = "new" /\ riding[CarDriver[r]] = NoCar /\ UNCHANGED <<retiring, car, riding>>
  BY DEF RegisterRead, MayRegister
<1>2. CASE Presented(CarDriver[r]) = {}
  <2>1. Enters(r, NotLooked) /\ NotLooked \in Looked /\ NotLooked.car = NoCar
    BY <1>2 DEF RegisterRead, NotLooked, Looked
  <2>2. QED BY <1>1, <1>2, <2>1, EntersEffect DEF Begins
<1>3. CASE Presented(CarDriver[r]) # {}
  <2>1. PICK c \in Presented(CarDriver[r]) :
          Enters(r, [car |-> c, was |-> car[c].status,
                     now |-> IF CarPlate[c] = CarPlate[r] THEN "PENDING" ELSE "RETIRED"])
    BY <1>3 DEF RegisterRead
  <2> DEFINE W == [car |-> c, was |-> car[c].status,
                   now |-> IF CarPlate[c] = CarPlate[r] THEN "PENDING" ELSE "RETIRED"]
  <2>2. /\ c \in Registrations /\ CarDriver[c] = CarDriver[r] /\ c \in InUse(CarDriver[r])
        /\ car[c].status \in VehicleStatus
    BY DEF Presented, CarsOf, Exists, InUse, GarageTypeOK, CarRow, VehicleStatus
  <2>3. /\ W \in Looked /\ W.car = c /\ W.was = car[c].status
        /\ W.now \in {"PENDING", "RETIRED"}
    BY <2>2 DEF Looked, VehicleStatus
  <2>4. Enters(r, W)
    BY <2>1
  <2> HIDE DEF W
  <2>5. QED BY <1>1, <2>2, <2>3, <2>4, EntersEffect DEF Begins, VehicleStatus
<1>4. QED BY <1>2, <1>3

LEMMA DecideCarBegins ==
  ASSUME GarageTypeOK, NEW x \in CarDecisions, DecideCar(x) PROVE Begins(x)
<1> USE GarageKinds
<1>1. PICK c \in Registrations, s \in {"ACTIVE", "SUSPENDED"} :
        /\ car[c].status \notin {"NONE", "RETIRED"}
        /\ s = "SUSPENDED" => riding[CarDriver[c]] # c
        /\ Enters(x, [car |-> c, was |-> car[c].status, now |-> s])
  BY DEF DecideCar
<1> DEFINE W == [car |-> c, was |-> car[c].status, now |-> s]
<1>2. W \in Looked /\ W.car = c /\ W.was = car[c].status /\ W.now = s
  BY DEF Looked, VehicleStatus, GarageTypeOK, CarRow
<1>3. Enters(x, W)
  BY <1>1
<1> HIDE DEF W
<1>4. c \in InUse(CarDriver[c])
  BY <1>1 DEF InUse, CarsOf, Exists
<1>5. QED BY <1>1, <1>2, <1>3, <1>4, EntersEffect DEF Begins, DecideCar, VehicleStatus

LEMMA UploadCarBegins ==
  ASSUME GarageTypeOK, NEW u \in CarUploads, UploadCar(u) PROVE Begins(u)
<1> USE GarageKinds
<1>1. PICK c \in Registrations :
        /\ car[c].status = "ACTIVE"
        /\ Enters(u, [car |-> c, was |-> "ACTIVE", now |-> "PENDING"])
  BY DEF UploadCar
<1> DEFINE W == [car |-> c, was |-> "ACTIVE", now |-> "PENDING"]
<1>2. W \in Looked /\ W.car = c /\ W.was = car[c].status /\ W.now = "PENDING"
  BY <1>1 DEF Looked, VehicleStatus
<1>3. Enters(u, W)
  BY <1>1
<1> HIDE DEF W
<1>4. c \in InUse(CarDriver[c])
  BY <1>1 DEF InUse, CarsOf, Exists
<1>5. QED BY <1>1, <1>2, <1>3, <1>4, EntersEffect DEF Begins, UploadCar, VehicleStatus

LEMMA EraseCarsBegins ==
  ASSUME GarageTypeOK, NEW e \in CarErasers, EraseCars(e) PROVE Begins(e)
<1> USE GarageKinds
<1>1. NotLooked \in Looked /\ NotLooked.car = NoCar
  BY DEF NotLooked, Looked
<1>2. Enters(e, NotLooked) /\ garage[e] = "new" /\ riding[ErasedDriver[e]] = NoCar
      /\ UNCHANGED <<retiring, car, riding>>
  BY DEF EraseCars
<1>3. QED BY <1>1, <1>2, EntersEffect DEF Begins

LEMMA GoesOnEffect ==
  ASSUME GarageTypeOK, NEW r \in GarageRequests,
         \/ r \in Registrations /\ (RegisterRefuse(r) \/ RegisterInsert(r))
         \/ r \in CarErasers /\ EraseCarsRead(r)
         \/ GarageFails(r)
  PROVE  GoesOn(r)
BY DEF GarageTypeOK, RegisterRefuse, RegisterInsert, EraseCarsRead, GarageFails, InGarage, Proceeds,
       GoesOn, CarApart

LEMMA RetiresEffect ==
  ASSUME GarageTypeOK, NEW e \in CarErasers, EraseCarsCommit(e)
  PROVE  Retires(e)
<1>1. /\ garage[e] = "flushed" /\ garage'[e] = "done" /\ CarApart(e)
      /\ UNCHANGED <<looked, retiring, riding, crossed>>
  BY GarageKinds DEF GarageTypeOK, EraseCarsCommit, Proceeds, CarApart
<1>2. \A c \in Registrations : car[c] \in CarRow
  BY DEF GarageTypeOK
<1>3. \A c \in Registrations :
        car'[c].status = IF c \in retiring[e] THEN "RETIRED" ELSE car[c].status
  BY <1>2 DEF EraseCarsCommit, CarRow
<1>4. QED BY <1>1, <1>3 DEF Retires

LEMMA WritesEffect ==
  ASSUME GarageTypeOK, LooksExplained, NEW r \in GarageRequests,
         \/ r \in Registrations /\ (RegisterCorrect(r) \/ RegisterCommit(r))
         \/ r \in CarChanges /\ ChangeCommit(r)
  PROVE  Writes(r)
<1> USE GarageKinds
<1>1. /\ InGarage(r) /\ garage'[r] = "done" /\ CarApart(r) /\ r \notin CarErasers
      /\ UNCHANGED <<looked, retiring, riding, crossed>>
  BY DEF GarageTypeOK, RegisterCorrect, RegisterCommit, ChangeCommit, InGarage, Proceeds, CarApart
<1>2. garage[r] = "flushed" =>
        r \in Registrations /\ (looked[r].car # NoCar => looked[r].now = "RETIRED")
  BY DEF RegisterCorrect, ChangeCommit, LooksExplained, Corrects
<1>3. garage[r] = "read" => looked[r].car # NoCar
  BY DEF RegisterCorrect, RegisterCommit, LooksExplained, Corrects
<1>4. \A c \in Registrations : Rewritten(r)[c].status =
        IF c = looked[r].car /\ looked[r].now # looked[r].was THEN looked[r].now ELSE car[c].status
  BY DEF Rewritten, GarageTypeOK, CarRow, Looked
<1>5. Rewritten(r) \in [Registrations -> CarRow]
  BY DEF Rewritten, GarageTypeOK, CarRow, Looked
<1>6. CASE garage[r] = "read"
  <2>1. car' = Rewritten(r)
    BY <1>6 DEF RegisterCorrect, RegisterCommit, ChangeCommit
  <2>2. QED BY <1>1, <1>2, <1>3, <1>4, <1>6, <2>1 DEF Writes, StatusAfter
<1>7. CASE garage[r] = "flushed"
  <2>1. /\ r \in Registrations
        /\ car' = [Rewritten(r) EXCEPT ![r] = [status |-> "PENDING",
                     born |-> 1 + Cardinality({c \in Registrations : Exists(c)})]]
    BY <1>7 DEF RegisterCorrect, RegisterCommit, ChangeCommit
  <2>2. \A c \in Registrations : car'[c].status = IF c = r THEN "PENDING" ELSE Rewritten(r)[c].status
    BY <1>5, <2>1
  <2>3. QED BY <1>1, <1>2, <1>3, <1>4, <1>7, <2>2 DEF Writes, StatusAfter
<1>8. QED BY <1>1, <1>6, <1>7 DEF InGarage

LEMMA GarageStep ==
  ASSUME GarageTypeOK, LooksExplained, GarageNext
  PROVE  \/ \E r \in GarageRequests : Begins(r) \/ GoesOn(r) \/ Writes(r)
         \/ \E e \in CarErasers : Retires(e)
         \/ \E d \in Drivers : RideStarts(d) \/ RideEnds(d)
<1>1. ASSUME NEW r \in Registrations, register_vehicle(r)
      PROVE  Begins(r) \/ GoesOn(r) \/ Writes(r)
  BY <1>1, GarageKinds, RegisterReadBegins, GoesOnEffect, WritesEffect DEF register_vehicle
<1>2. ASSUME NEW x \in CarDecisions, decide_vehicle(x) PROVE Begins(x) \/ Writes(x)
  BY <1>2, GarageKinds, DecideCarBegins, WritesEffect DEF decide_vehicle
<1>3. ASSUME NEW u \in CarUploads, upload_permit(u) PROVE Begins(u) \/ Writes(u)
  BY <1>3, GarageKinds, UploadCarBegins, WritesEffect DEF upload_permit
<1>4. ASSUME NEW e \in CarErasers, retire_cars(e) PROVE Begins(e) \/ GoesOn(e) \/ Retires(e)
  BY <1>4, GarageKinds, EraseCarsBegins, GoesOnEffect, RetiresEffect DEF retire_cars
<1>5. QED BY <1>1, <1>2, <1>3, <1>4, GarageKinds, GoesOnEffect DEF GarageNext

(* A row of the right kind is written, the insert's among them.            *)
LEMMA CarsTyped ==
  ASSUME GarageTypeOK, LooksExplained, GarageNext PROVE car' \in [Registrations -> CarRow]
<1> USE GarageKinds
<1>1. \A r \in GarageRequests : Rewritten(r) \in [Registrations -> CarRow]
  BY DEF Rewritten, GarageTypeOK, CarRow, Looked
<1>2. ASSUME NEW r \in Registrations, RegisterCommit(r) PROVE car' \in [Registrations -> CarRow]
  <2>1. ~Exists(r)
    BY <1>2 DEF RegisterCommit, LooksExplained
  <2>2. 1 + Cardinality({c \in Registrations : Exists(c)}) \in 0..Cardinality(Registrations)
    BY <2>1, CarsFinite
  <2>3. [status |-> "PENDING", born |-> 1 + Cardinality({c \in Registrations : Exists(c)})] \in CarRow
    BY <2>2 DEF CarRow, VehicleStatus
  <2>4. Rewritten(r) \in [Registrations -> CarRow]
    BY <1>1
  <2>5. QED BY <1>2, <2>3, <2>4 DEF RegisterCommit
<1>3. ASSUME NEW r \in GarageRequests, RegisterCorrect(r) \/ ChangeCommit(r)
      PROVE  car' \in [Registrations -> CarRow]
  BY <1>1, <1>3 DEF RegisterCorrect, ChangeCommit
<1>4. ASSUME NEW e \in CarErasers, EraseCarsCommit(e) PROVE car' \in [Registrations -> CarRow]
  <2>1. \A c \in Registrations : [car[c] EXCEPT !.status = "RETIRED"] \in CarRow /\ car[c] \in CarRow
    BY DEF GarageTypeOK, CarRow, VehicleStatus
  <2>2. QED BY <1>4, <2>1 DEF EraseCarsCommit
<1>5. ASSUME UNCHANGED car PROVE car' \in [Registrations -> CarRow]
  BY <1>5 DEF GarageTypeOK
<1>6. ASSUME NEW r \in Registrations, register_vehicle(r) PROVE car' \in [Registrations -> CarRow]
  BY <1>2, <1>3, <1>5, <1>6
  DEF register_vehicle, RegisterRead, RegisterRefuse, RegisterInsert
<1>7. ASSUME NEW x \in CarChanges, decide_vehicle(x) \/ upload_permit(x)
      PROVE  car' \in [Registrations -> CarRow]
  BY <1>3, <1>5, <1>7 DEF decide_vehicle, upload_permit, DecideCar, UploadCar
<1>8. ASSUME NEW e \in CarErasers, retire_cars(e) PROVE car' \in [Registrations -> CarRow]
  BY <1>4, <1>5, <1>8 DEF retire_cars, EraseCars, EraseCarsRead
<1>9. ASSUME NEW r \in GarageRequests, GarageFails(r) PROVE car' \in [Registrations -> CarRow]
  BY <1>5, <1>9 DEF GarageFails
<1>10. ASSUME NEW d \in Drivers, RideStarts(d) \/ RideEnds(d) PROVE car' \in [Registrations -> CarRow]
  BY <1>5, <1>10 DEF RideStarts, RideEnds
<1>11. QED BY <1>6, <1>7, <1>8, <1>9, <1>10 DEF GarageNext

(* A step keeps the tables functions, whatever it writes.                  *)
LEMMA GarageShapes ==
  ASSUME GarageTypeOK, GarageNext
  PROVE  /\ garage' \in [GarageRequests -> {"new", "read", "flushed", "done", "refused", "collided"}]
         /\ looked' = [q \in GarageRequests |-> looked'[q]]
         /\ retiring' \in [CarErasers -> SUBSET Registrations]
         /\ crossed' \in [GarageRequests -> SUBSET (GarageRequests \cup Drivers)]
         /\ riding' \in [Drivers -> Registrations \cup {NoCar}]
<1> USE GarageKinds DEF GarageTypeOK
<1> DEFINE Shapes ==
      /\ garage' \in [GarageRequests -> {"new", "read", "flushed", "done", "refused", "collided"}]
      /\ looked' = [q \in GarageRequests |-> looked'[q]]
      /\ retiring' \in [CarErasers -> SUBSET Registrations]
      /\ crossed' \in [GarageRequests -> SUBSET (GarageRequests \cup Drivers)]
      /\ riding' \in [Drivers -> Registrations \cup {NoCar}]
<1>1. ASSUME NEW r \in GarageRequests, NEW what, Enters(r, what), UNCHANGED <<retiring, riding>>
      PROVE  Shapes
  BY <1>1 DEF Enters, Proceeds
<1>2. ASSUME NEW r \in GarageRequests, NEW s \in {"flushed", "done", "refused", "collided"},
             Proceeds(r, s), UNCHANGED <<looked, retiring, riding, crossed>>
      PROVE  Shapes
  BY <1>2 DEF Proceeds
<1>3. ASSUME NEW r \in Registrations, register_vehicle(r) PROVE Shapes
  <2>1. CASE RegisterRead(r)
    BY <1>1, <2>1 DEF RegisterRead
  <2>2. CASE ~RegisterRead(r)
    <3> HIDE DEF Shapes
    <3>1. QED BY <1>2, <1>3, <2>2
              DEF register_vehicle, RegisterRefuse, RegisterCorrect, RegisterInsert, RegisterCommit
  <2>3. QED BY <2>1, <2>2
<1>4. ASSUME NEW x \in CarChanges, decide_vehicle(x) \/ upload_permit(x) PROVE Shapes
  <2> HIDE DEF Shapes
  <2>1. QED BY <1>1, <1>2, <1>4 DEF decide_vehicle, upload_permit, DecideCar, UploadCar, ChangeCommit
<1>5. ASSUME NEW e \in CarErasers, retire_cars(e) PROVE Shapes
  <2>1. CASE EraseCarsRead(e)
    BY <2>1 DEF EraseCarsRead, Proceeds, CarsOf
  <2>2. CASE ~EraseCarsRead(e)
    <3> HIDE DEF Shapes
    <3>1. QED BY <1>1, <1>2, <1>5, <2>2 DEF retire_cars, EraseCars, EraseCarsCommit
  <2>3. QED BY <2>1, <2>2
<1>6. ASSUME NEW r \in GarageRequests, GarageFails(r) PROVE Shapes
  <2> HIDE DEF Shapes
  <2>1. QED BY <1>2, <1>6 DEF GarageFails
<1>7. ASSUME NEW d \in Drivers, RideStarts(d) PROVE Shapes
  BY <1>7 DEF RideStarts, CarsOf
<1>8. ASSUME NEW d \in Drivers, RideEnds(d) PROVE Shapes
  BY <1>8 DEF RideEnds
<1> HIDE DEF Shapes
<1>9. Shapes
  BY <1>3, <1>4, <1>5, <1>6, <1>7, <1>8 DEF GarageNext
<1>10. QED BY <1>9 DEF Shapes

LEMMA NextGarageTypeOK ==
  ASSUME GarageTypeOK, LooksExplained, [GarageNext]_garageVars PROVE GarageTypeOK'
<1>1. CASE UNCHANGED garageVars
  BY <1>1 DEF garageVars, GarageTypeOK
<1>2. CASE GarageNext
  <2>1. \A q \in GarageRequests : looked[q] \in Looked
    BY DEF GarageTypeOK
  <2>2. \A q \in GarageRequests : looked'[q] \in Looked
    BY <1>2, <2>1, GarageStep
    DEF Begins, GoesOn, Writes, Retires, CarApart, RideStarts, RideEnds
  <2>3. QED BY <1>2, <2>2, CarsTyped, GarageShapes DEF GarageTypeOK
<1>3. QED BY <1>1, <1>2

LEMMA InitGarageInv == GarageInit => GarageInv
<1> SUFFICES ASSUME GarageInit PROVE GarageInv OBVIOUS
<1> USE GarageKinds
<1>1. /\ \A r \in GarageRequests : garage[r] = "new" /\ looked[r] = NotLooked /\ crossed[r] = {}
      /\ \A c \in Registrations : ~Exists(c)
      /\ \A d \in Drivers : riding[d] = NoCar
      /\ \A e \in CarErasers : retiring[e] = {}
      /\ NotLooked.car = NoCar
  BY DEF GarageInit, NotLooked, Exists
<1>2. GarageTypeOK
  <2>1. NotLooked \in Looked
    BY DEF NotLooked, Looked
  <2>2. [status |-> "NONE", born |-> 0] \in CarRow
    BY CarsFinite DEF CarRow
  <2>3. QED BY <2>1, <2>2 DEF GarageInit, GarageTypeOK
<1>3. LooksExplained
  BY <1>1 DEF LooksExplained
<1>4. PlatesExplained
  BY <1>1 DEF PlatesExplained
<1>5. CrossingsExplained
  BY <1>1 DEF CrossingsExplained, InGarage, InUse, CarsOf
<1>6. RidesExplained
  BY <1>1 DEF RidesExplained, InGarage
<1>7. QED BY <1>2, <1>3, <1>4, <1>5, <1>6 DEF GarageInv

(* A trip takes a car in service, beside the requests in flight.           *)
LEMMA RideStartsEffect ==
  ASSUME GarageTypeOK, NEW d \in Drivers, RideStarts(d)
  PROVE  /\ riding'[d] \in CarsOf(d) /\ car[riding'[d]].status = "ACTIVE"
         /\ \A e \in Drivers \ {d} : riding'[e] = riding[e]
         /\ \A q \in GarageRequests :
              crossed'[q] = IF InGarage(q) THEN crossed[q] \cup {d} ELSE crossed[q]
         /\ UNCHANGED <<garage, looked, retiring, car>>
BY DEF GarageTypeOK, RideStarts

(***************************************************************************)
(* What was read, and the plates.                                          *)
(***************************************************************************)

(* A car on record stays on record.                                        *)
LEMMA WritesKeepCars ==
  ASSUME GarageTypeOK, LooksExplained, NEW r \in GarageRequests, Writes(r)
  PROVE  \A c \in Registrations : Exists(c)' <=> Exists(c) \/ (garage[r] = "flushed" /\ c = r)
BY GarageKinds DEF GarageTypeOK, CarRow, LooksExplained, Writes, StatusAfter, Exists, VehicleStatus

LEMMA RetiresKeepCars ==
  ASSUME GarageTypeOK, LooksExplained, NEW e \in CarErasers, Retires(e)
  PROVE  \A c \in Registrations : Exists(c)' <=> Exists(c)
<1>1. \A c \in retiring[e] : Exists(c)
  BY DEF LooksExplained, CarsOf
<1>2. QED BY <1>1 DEF Retires, Exists

LEMMA NextLooksExplained ==
  ASSUME GarageInv, [GarageNext]_garageVars PROVE LooksExplained'
<1> USE GarageKinds DEF GarageInv
<1>0. ASSUME NEW e \in CarErasers, Retires(e) PROVE LooksExplained'
  <2>1. \A c \in Registrations : Exists(c)' <=> Exists(c)
    BY <1>0, RetiresKeepCars
  <2>2. \A q \in GarageRequests : looked[q].car \in Registrations \cup {NoCar}
    BY DEF GarageTypeOK, Looked
  <2>3. /\ CarApart(e) /\ garage'[e] = "done" /\ UNCHANGED <<looked, retiring, riding, crossed>>
        /\ \A f \in CarErasers : CarsOf(ErasedDriver[f])' = CarsOf(ErasedDriver[f])
        /\ \A d \in Drivers : riding[d] \in Registrations \cup {NoCar}
    BY <1>0, <2>1 DEF Retires, CarsOf, GarageTypeOK
  <2>4. QED BY <2>1, <2>2, <2>3 DEF LooksExplained, CarApart, Corrects
<1>1. ASSUME NEW r \in GarageRequests, Begins(r) PROVE LooksExplained'
  <2>1. \A c \in Registrations : Exists(c)' <=> Exists(c)
    BY <1>1 DEF Begins, Exists
  <2>2. \A q \in GarageRequests : looked[q].car \in Registrations \cup {NoCar}
    BY DEF GarageTypeOK, Looked
  <2>3. looked'[r].car # NoCar =>
          /\ looked'[r].car \in Registrations /\ Exists(looked'[r].car)
          /\ looked'[r].was # "RETIRED"
    BY <1>1 DEF Begins, InUse, CarsOf
  <2>4. \A q \in GarageRequests : garage'[q] = "new" => looked'[q] = NotLooked /\ crossed'[q] = {}
    <3>1. ASSUME NEW q \in GarageRequests, garage'[q] = "new" PROVE garage[q] = "new" /\ q # r
      BY <1>1, <3>1 DEF Begins, CarApart
    <3>2. \A q \in GarageRequests : garage[q] = "new" => ~InGarage(q)
      BY DEF InGarage
    <3>3. ASSUME NEW q \in GarageRequests, garage'[q] = "new"
          PROVE  looked'[q] = NotLooked /\ crossed'[q] = {}
      <4>1. q # r /\ garage[q] = "new" /\ ~InGarage(q)
        BY <3>1, <3>2, <3>3
      <4>2. looked'[q] = looked[q] /\ crossed'[q] = crossed[q]
        BY <1>1, <4>1 DEF Begins, CarApart
      <4>3. QED BY <4>1, <4>2 DEF LooksExplained
    <3>4. QED BY <3>3
  <2>5. \A q \in GarageRequests : looked'[q].car # NoCar =>
          Exists(looked[q].car)' /\ looked'[q].now \in VehicleStatus
    BY <1>1, <2>1, <2>2, <2>3 DEF LooksExplained, Begins, CarApart, Exists
  <2>6. \A q \in Registrations : looked'[q].car # NoCar =>
          /\ CarDriver[looked'[q].car] = CarDriver[q]
          /\ looked'[q].was # "RETIRED" /\ looked'[q].now \in {"PENDING", "RETIRED"}
    BY <1>1, <2>3 DEF LooksExplained, Begins, CarApart
  <2>7. /\ \A x \in CarChanges : garage'[x] \notin {"new", "refused"} => looked'[x].car # NoCar
        /\ \A x \in CarChanges : garage'[x] \in {"new", "read", "done", "refused"}
        /\ \A u \in CarUploads : looked'[u].car # NoCar => looked'[u].now = "PENDING"
        /\ \A e \in CarErasers : /\ looked'[e] = NotLooked /\ garage'[e] # "collided"
                                  /\ retiring'[e] \subseteq CarsOf(ErasedDriver[e])'
    BY <1>1, <2>1 DEF LooksExplained, Begins, CarApart, CarsOf
  <2>8. /\ \A q \in Registrations : Exists(q)' => garage'[q] = "done"
        /\ \A q \in Registrations : garage'[q] = "flushed" => ~Corrects(q)'
    BY <1>1, <2>1 DEF LooksExplained, Begins, CarApart, Corrects
  <2>9. \A d \in Drivers : riding'[d] # NoCar => Exists(riding[d])' /\ CarDriver[riding'[d]] = d
    BY <1>1 DEF LooksExplained, Begins, Exists
  <2>10. QED BY <2>4, <2>5, <2>6, <2>7, <2>8, <2>9 DEF LooksExplained
<1>2. ASSUME NEW r \in GarageRequests, GoesOn(r) PROVE LooksExplained'
  <2>1. \A e \in CarErasers : retiring'[e] \subseteq CarsOf(ErasedDriver[e])'
    BY <1>2 DEF LooksExplained, GoesOn, CarsOf, Exists
  <2>2. QED BY <1>2, <2>1 DEF LooksExplained, GoesOn, CarApart, Corrects, Exists
<1>3. ASSUME NEW r \in GarageRequests, Writes(r) PROVE LooksExplained'
  <2>1. \A c \in Registrations : Exists(c)' <=> Exists(c) \/ (garage[r] = "flushed" /\ c = r)
    BY <1>3, WritesKeepCars
  <2>2. \A q \in GarageRequests : looked[q].car \in Registrations \cup {NoCar}
    BY DEF GarageTypeOK, Looked
  <2>3. \A q \in GarageRequests : looked'[q].car # NoCar =>
          Exists(looked[q].car)' /\ looked'[q].now \in VehicleStatus
    BY <1>3, <2>1, <2>2 DEF LooksExplained, Writes, Exists
  <2>4. \A q \in GarageRequests : garage'[q] = "new" => looked'[q] = NotLooked /\ crossed'[q] = {}
    BY <1>3 DEF LooksExplained, Writes, CarApart
  <2>5. /\ \A q \in Registrations : looked'[q].car # NoCar =>
             /\ CarDriver[looked'[q].car] = CarDriver[q]
             /\ looked'[q].was # "RETIRED" /\ looked'[q].now \in {"PENDING", "RETIRED"}
        /\ \A x \in CarChanges : garage'[x] \notin {"new", "refused"} => looked'[x].car # NoCar
        /\ \A x \in CarChanges : garage'[x] \in {"new", "read", "done", "refused"}
        /\ \A u \in CarUploads : looked'[u].car # NoCar => looked'[u].now = "PENDING"
        /\ \A e \in CarErasers : /\ looked'[e] = NotLooked /\ garage'[e] # "collided"
                                  /\ retiring'[e] \subseteq CarsOf(ErasedDriver[e])'
        /\ \A q \in Registrations : Exists(q)' => garage'[q] = "done"
        /\ \A q \in Registrations : garage'[q] = "flushed" => ~Corrects(q)'
    BY <1>3, <2>1 DEF LooksExplained, Writes, CarApart, Corrects, InGarage, CarsOf
  <2>6. \A d \in Drivers : riding'[d] # NoCar => Exists(riding[d])' /\ CarDriver[riding'[d]] = d
    <3>1. \A d \in Drivers : riding[d] \in Registrations \cup {NoCar}
      BY DEF GarageTypeOK
    <3>2. QED BY <1>3, <2>1, <3>1 DEF LooksExplained, Writes, Exists
  <2>7. QED BY <2>3, <2>4, <2>5, <2>6 DEF LooksExplained
<1>4. ASSUME NEW d \in Drivers, RideStarts(d) PROVE LooksExplained'
  <2>1. /\ riding'[d] \in CarsOf(d) /\ \A e \in Drivers \ {d} : riding'[e] = riding[e]
        /\ \A q \in GarageRequests : ~InGarage(q) => crossed'[q] = crossed[q]
        /\ UNCHANGED <<garage, looked, retiring, car>>
    BY <1>4, RideStartsEffect
  <2>2. \A q \in GarageRequests : garage[q] = "new" => ~InGarage(q)
    BY DEF InGarage
  <2>3. \A e \in Drivers : riding'[e] # NoCar => Exists(riding[e])' /\ CarDriver[riding'[e]] = e
    BY <2>1 DEF LooksExplained, CarsOf, Exists
  <2>4. \A q \in GarageRequests : garage'[q] = "new" => looked'[q] = NotLooked /\ crossed'[q] = {}
    BY <2>1, <2>2 DEF LooksExplained
  <2>5. QED BY <2>1, <2>3, <2>4 DEF LooksExplained, Corrects, CarsOf, Exists
<1>5. ASSUME NEW d \in Drivers, RideEnds(d) PROVE LooksExplained'
  <2>1. /\ \A e \in Drivers : riding'[e] = riding[e] \/ riding'[e] = NoCar
        /\ UNCHANGED <<garage, looked, retiring, car, crossed>>
    BY <1>5 DEF GarageTypeOK, RideEnds
  <2>2. QED BY <2>1 DEF LooksExplained, Corrects, CarsOf, Exists
<1>6. CASE UNCHANGED garageVars
  BY <1>6 DEF garageVars, LooksExplained, Corrects, CarsOf, Exists
<1>7. QED BY <1>0, <1>1, <1>2, <1>3, <1>4, <1>5, <1>6, GarageStep

LEMMA NextPlatesExplained ==
  ASSUME GarageInv, [GarageNext]_garageVars PROVE PlatesExplained'
<1> USE GarageKinds DEF GarageInv
<1>1. ASSUME \A c \in Registrations : Exists(c)' <=> Exists(c),
             \A q \in Registrations : garage'[q] = "flushed" => garage[q] = "flushed"
      PROVE  PlatesExplained'
  BY <1>1 DEF PlatesExplained, WithPlate, PlateHolders
<1>0. ASSUME NEW e \in CarErasers, Retires(e) PROVE PlatesExplained'
  BY <1>0, <1>1, RetiresKeepCars DEF Retires, CarApart
<1>2. ASSUME NEW r \in GarageRequests, Begins(r) PROVE PlatesExplained'
  BY <1>1, <1>2 DEF Begins, CarApart, Exists
<1>3. ASSUME NEW r \in GarageRequests, GoesOn(r) PROVE PlatesExplained'
  <2>1. \A c \in Registrations : Exists(c)' <=> Exists(c)
    BY <1>3 DEF GoesOn, Exists
  <2>2. CASE garage'[r] # "flushed"
    BY <1>1, <1>3, <2>1, <2>2 DEF GoesOn, CarApart
  <2>5. CASE r \in CarErasers
    BY <1>1, <1>3, <2>1, <2>5 DEF GoesOn, CarApart
  <2>3. CASE garage'[r] = "flushed" /\ r \notin CarErasers
    <3>1. r \in Registrations /\ WithPlate(r) = {} /\ PlateHolders(r) = {} /\ CarApart(r)
      BY <1>3, <2>3 DEF GoesOn
    <3>2. \A q \in Registrations : garage'[q] = "flushed" => q = r \/ garage[q] = "flushed"
      BY <3>1 DEF CarApart
    <3>3. \A q \in Registrations : WithPlate(q)' = WithPlate(q)
      BY <2>1 DEF WithPlate
    <3>4. \A p, q \in Registrations :
            garage'[p] = "flushed" /\ garage'[q] = "flushed" /\ CarPlate[p] = CarPlate[q] => p = q
      BY <3>1, <3>2 DEF PlatesExplained, PlateHolders
    <3>5. QED BY <2>1, <3>1, <3>2, <3>3, <3>4 DEF PlatesExplained, PlateHolders
  <2>4. QED BY <2>2, <2>3, <2>5
<1>4. ASSUME NEW r \in GarageRequests, Writes(r) PROVE PlatesExplained'
  <2>1. \A c \in Registrations : Exists(c)' <=> Exists(c) \/ (garage[r] = "flushed" /\ c = r)
    BY <1>4, WritesKeepCars
  <2>2. \A q \in Registrations : garage'[q] = "flushed" => garage[q] = "flushed" /\ q # r
    BY <1>4 DEF Writes, CarApart
  <2>3. CASE garage[r] = "read"
    BY <1>1, <2>1, <2>2, <2>3
  <2>4. CASE garage[r] = "flushed"
    <3>1. r \in Registrations /\ WithPlate(r) = {}
      BY <1>4, <2>4 DEF Writes, PlatesExplained
    <3>2. \A c, k \in Registrations : Exists(c)' /\ Exists(k)' /\ CarPlate[c] = CarPlate[k] => c = k
      BY <2>1, <3>1 DEF PlatesExplained, WithPlate
    <3>3. \A q \in Registrations : garage'[q] = "flushed" => CarPlate[q] # CarPlate[r]
      BY <2>2, <2>4, <3>1 DEF PlatesExplained, PlateHolders
    <3>4. \A q \in Registrations : garage'[q] = "flushed" => WithPlate(q)' = {}
      BY <2>1, <2>2, <3>3 DEF PlatesExplained, WithPlate
    <3>5. QED BY <2>2, <3>2, <3>4 DEF PlatesExplained, PlateHolders
  <2>5. QED BY <1>4, <2>3, <2>4 DEF Writes, InGarage
<1>5. ASSUME NEW d \in Drivers, RideStarts(d) \/ RideEnds(d) PROVE PlatesExplained'
  BY <1>1, <1>5 DEF RideStarts, RideEnds, Exists
<1>6. CASE UNCHANGED garageVars
  BY <1>1, <1>6 DEF garageVars, Exists
<1>7. QED BY <1>0, <1>2, <1>3, <1>4, <1>5, <1>6, GarageStep

(***************************************************************************)
(* The crossings.                                                          *)
(***************************************************************************)

(* What crossed stays crossed, and what was written stays written.         *)
StaysDone(q) ==
  garage[q] = "done" =>
    /\ garage'[q] = "done" /\ looked'[q] = looked[q]
    /\ q \in CarErasers => retiring'[q] = retiring[q]

LEMMA CrossingsGrow ==
  ASSUME \A q \in GarageRequests : crossed[q] \subseteq crossed'[q],
         \A q \in GarageRequests : StaysDone(q)
  PROVE  /\ \A q, r \in GarageRequests : RanBeside(q, r) => RanBeside(q, r)'
         /\ \A q \in GarageRequests : \A c : Wrote(q, c) => Wrote(q, c)'
         /\ \A q \in GarageRequests : \A d : WroteOf(q, d) => WroteOf(q, d)'
         /\ \A d : Crossing(d) => Crossing(d)'
<1>1. \A q, r \in GarageRequests : RanBeside(q, r) => RanBeside(q, r)'
  BY DEF RanBeside
<1>2. \A q \in GarageRequests : \A c : Wrote(q, c) => Wrote(q, c)'
  BY DEF Wrote, StaysDone
<1>3. \A q \in GarageRequests : \A d : WroteOf(q, d) => WroteOf(q, d)'
  BY <1>2 DEF WroteOf
<1>4. \A d : Crossing(d) => Crossing(d)'
  BY <1>1, <1>3 DEF Crossing
<1>5. QED BY <1>1, <1>2, <1>3, <1>4

(* Every step is such a step.                                              *)
LEMMA GarageGrows ==
  ASSUME GarageInv, [GarageNext]_garageVars
  PROVE  /\ \A q \in GarageRequests : crossed[q] \subseteq crossed'[q]
         /\ \A q \in GarageRequests : StaysDone(q)
         /\ \A q \in GarageRequests : InGarage(q) => looked'[q] = looked[q]
<1> USE DEF GarageInv
<1>1. ASSUME NEW r \in GarageRequests, Begins(r)
      PROVE  /\ \A q \in GarageRequests : crossed[q] \subseteq crossed'[q]
             /\ \A q \in GarageRequests : StaysDone(q)
             /\ \A q \in GarageRequests : InGarage(q) => looked'[q] = looked[q]
  <2>1. \A q \in GarageRequests : crossed[q] \subseteq crossed'[q]
    <3>1. crossed[r] = {}
      BY <1>1 DEF Begins, LooksExplained
    <3>2. QED BY <1>1, <3>1 DEF Begins
  <2>2. ~InGarage(r) /\ garage[r] # "done"
    BY <1>1 DEF Begins, InGarage
  <2>3. QED BY <1>1, <2>1, <2>2 DEF Begins, CarApart, StaysDone
<1>2. ASSUME NEW r \in GarageRequests, GoesOn(r) \/ Writes(r) \/ (r \in CarErasers /\ Retires(r))
      PROVE  /\ \A q \in GarageRequests : crossed[q] \subseteq crossed'[q]
             /\ \A q \in GarageRequests : StaysDone(q)
             /\ \A q \in GarageRequests : InGarage(q) => looked'[q] = looked[q]
  BY <1>2 DEF GoesOn, Writes, Retires, CarApart, InGarage, StaysDone
<1>3. ASSUME NEW d \in Drivers, RideStarts(d)
      PROVE  /\ \A q \in GarageRequests : crossed[q] \subseteq crossed'[q]
             /\ UNCHANGED <<garage, looked, retiring>>
  BY <1>3, RideStartsEffect
<1>4. ASSUME NEW d \in Drivers, RideEnds(d) PROVE UNCHANGED <<garage, looked, retiring, crossed>>
  BY <1>4 DEF RideEnds
<1>5. CASE UNCHANGED garageVars
  BY <1>5 DEF garageVars, StaysDone
<1>6. QED BY <1>1, <1>2, <1>3, <1>4, <1>5, GarageKinds, GarageStep DEF StaysDone

(* Requests in flight are beside each other.                               *)
LEMMA NextBeside ==
  ASSUME GarageInv, [GarageNext]_garageVars
  PROVE  \A q, r \in GarageRequests : InGarage(q)' /\ InGarage(r)' /\ q # r => RanBeside(q, r)'
<1> USE DEF GarageInv
<1>1. \A q, r \in GarageRequests : RanBeside(q, r) => RanBeside(q, r)'
  BY GarageGrows, CrossingsGrow
<1>2. ASSUME NEW p \in GarageRequests, Begins(p),
             NEW q \in GarageRequests, NEW r \in GarageRequests, InGarage(q)', InGarage(r)', q # r
      PROVE  RanBeside(q, r)'
  <2>1. \A s \in GarageRequests \ {p} : InGarage(s)' <=> InGarage(s)
    BY <1>2 DEF Begins, CarApart, InGarage
  <2>2. CASE q # p /\ r # p
    BY <1>1, <1>2, <2>1, <2>2 DEF CrossingsExplained
  <2>3. CASE q = p \/ r = p
    BY <1>2, <2>1, <2>3 DEF Begins, RanBeside
  <2>4. QED BY <2>2, <2>3
<1>3. ASSUME NEW p \in GarageRequests, GoesOn(p) \/ Writes(p) \/ Retires(p)
      PROVE  \A q \in GarageRequests : InGarage(q)' => InGarage(q)
  BY <1>3 DEF GoesOn, Writes, Retires, CarApart, InGarage
<1>4. ASSUME NEW d \in Drivers, RideStarts(d) \/ RideEnds(d) PROVE UNCHANGED garage
  BY <1>4 DEF RideStarts, RideEnds
<1>5. CASE UNCHANGED garageVars
  BY <1>1, <1>5 DEF garageVars, CrossingsExplained, InGarage
<1>6. ASSUME \A q \in GarageRequests : InGarage(q)' => InGarage(q)
      PROVE  \A q, r \in GarageRequests : InGarage(q)' /\ InGarage(r)' /\ q # r => RanBeside(q, r)'
  BY <1>1, <1>6 DEF CrossingsExplained
<1>7. QED BY <1>2, <1>3, <1>4, <1>5, <1>6, GarageKinds, GarageStep DEF InGarage

(* What a driver has in use, and what was read of it, unless it crossed.   *)
OnePresented(d) ==
  /\ \A c, k \in InUse(d) : c = k
  /\ \A r \in Registrations \cup CarChanges :
       InGarage(r) /\ About(r) = d => Undercut(r) \/ StillAsRead(r)

(* A request about a driver's cars is undercut for good.                   *)
LEMMA UndercutStays ==
  ASSUME GarageInv, [GarageNext]_garageVars
  PROVE  \A r \in GarageRequests : InGarage(r) =>
           About(r)' = About(r) /\ (Undercut(r) => Undercut(r)')
<1>1. \A r \in GarageRequests : InGarage(r) => looked'[r] = looked[r]
  BY GarageGrows
<1>2. /\ \A q, r \in GarageRequests : RanBeside(q, r) => RanBeside(q, r)'
      /\ \A q \in GarageRequests : \A d : WroteOf(q, d) => WroteOf(q, d)'
  BY GarageGrows, CrossingsGrow
<1>3. \A r \in GarageRequests : InGarage(r) => About(r)' = About(r)
  BY <1>1 DEF About
<1>4. ASSUME NEW r \in GarageRequests, InGarage(r), Undercut(r) PROVE Undercut(r)'
  <2>1. PICK q \in GarageRequests : q # r /\ RanBeside(q, r) /\ WroteOf(q, About(r))
    BY <1>4 DEF Undercut
  <2>2. RanBeside(q, r)' /\ WroteOf(q, About(r))'
    <3>1. \A d : d = About(r) => WroteOf(q, d)'
      BY <1>2, <2>1
    <3>2. About(r)' = About(r)
      BY <1>3, <1>4
    <3>3. QED BY <1>2, <2>1, <3>1, <3>2 DEF WroteOf
  <2>3. QED BY <2>1, <2>2 DEF Undercut
<1>5. QED BY <1>3, <1>4

LEMMA BeginsOnePresented ==
  ASSUME GarageInv, GarageNext, NEW r \in GarageRequests, Begins(r), NEW d \in Drivers, OnePresented(d)
  PROVE  OnePresented(d)'
<1> USE GarageKinds DEF GarageInv
<1>1. InUse(d)' = InUse(d) /\ UNCHANGED car
  BY DEF Begins, InUse, CarsOf, Exists
<1>2. ASSUME NEW q \in Registrations \cup CarChanges, q # r, InGarage(q)', About(q)' = d
      PROVE  Undercut(q)' \/ StillAsRead(q)'
  <2>1. InGarage(q) /\ looked'[q] = looked[q]
    BY <1>2 DEF Begins, CarApart, InGarage
  <2>2. About(q)' = About(q) /\ (Undercut(q) => Undercut(q)')
    BY <2>1, UndercutStays
  <2>3. StillAsRead(q) => StillAsRead(q)'
    BY <1>1, <1>2, <2>1, <2>2 DEF StillAsRead
  <2>4. QED BY <1>2, <2>1, <2>2, <2>3 DEF OnePresented
<1>3. ASSUME r \in Registrations \cup CarChanges, About(r)' = d PROVE StillAsRead(r)'
  <2>1. CASE looked'[r].car = NoCar
    <3>1. r \in Registrations /\ Presented(d) = {}
      BY <1>3, <2>1 DEF Begins, About
    <3>2. InUse(d) = {}
      <4>1. \A c \in InUse(d) : c \in Presented(d)
        <5>1. ASSUME NEW c \in InUse(d) PROVE c \in Presented(d)
          <6>1. /\ c \in CarsOf(d) /\ car[c].status # "RETIRED" /\ c \in Registrations
                /\ \A k \in CarsOf(d) : car[k].status # "RETIRED" => k = c
            BY <5>1 DEF OnePresented, InUse, CarsOf
          <6>2. car[c].born <= car[c].born
            BY <6>1, CarsFinite DEF GarageTypeOK, CarRow
          <6>3. QED BY <6>1, <6>2 DEF Presented
        <5>2. QED BY <5>1
      <4>2. QED BY <3>1, <4>1
    <3>3. QED BY <1>1, <1>3, <2>1, <3>2 DEF StillAsRead
  <2>2. CASE looked'[r].car # NoCar
    <3>1. CarDriver[looked'[r].car] = d /\ looked'[r].car \in InUse(d)
      BY <1>3, <2>2 DEF Begins, About
    <3>2. looked'[r].was = car[looked'[r].car].status
      BY <2>2 DEF Begins
    <3>3. InUse(d) \subseteq {looked'[r].car}
      BY <3>1 DEF OnePresented
    <3>4. QED BY <1>1, <1>3, <3>2, <3>3 DEF StillAsRead
  <2>3. QED BY <2>1, <2>2
<1>4. QED BY <1>1, <1>2, <1>3 DEF OnePresented

LEMMA WritesOnePresented ==
  ASSUME GarageInv, GarageNext, NEW r \in GarageRequests, Writes(r), NEW d \in Drivers, OnePresented(d)
  PROVE  Crossing(d)' \/ OnePresented(d)'
<1> USE GarageKinds DEF GarageInv
<1>0. /\ InGarage(r) /\ garage'[r] = "done" /\ CarApart(r) /\ UNCHANGED <<looked, crossed>>
      /\ r \in Registrations \cup CarChanges
      /\ \A c \in Registrations : car'[c].status = StatusAfter(r, c)
      /\ \A q \in GarageRequests : looked[q].car \in Registrations \cup {NoCar}
  BY DEF Writes, GarageTypeOK, Looked
<1>1. \A q \in GarageRequests : InGarage(q)' => InGarage(q) /\ q # r
  BY <1>0 DEF CarApart, InGarage
<1>2. \A c \in Registrations : Exists(c)' <=> Exists(c) \/ (garage[r] = "flushed" /\ c = r)
  BY WritesKeepCars
<1>3. \A q \in GarageRequests : InGarage(q) /\ looked[q].car # NoCar => CarDriver[looked[q].car] = About(q)
  BY DEF About, LooksExplained, NotLooked
<1>4. garage[r] = "flushed" => r \in Registrations /\ CarDriver[r] = About(r)
  BY DEF Writes, About
<1>5. CASE About(r) # d
  <2>1. \A c \in Registrations : CarDriver[c] = d => car'[c].status = car[c].status
    BY <1>0, <1>3, <1>4, <1>5 DEF StatusAfter
  <2>2. InUse(d)' = InUse(d)
    BY <1>2, <1>4, <1>5, <2>1 DEF InUse, CarsOf
  <2>3. ASSUME NEW q \in Registrations \cup CarChanges, InGarage(q)', About(q)' = d
        PROVE  Undercut(q)' \/ StillAsRead(q)'
    <3>1. InGarage(q) /\ About(q)' = About(q) /\ (Undercut(q) => Undercut(q)')
      BY <1>1, <2>3, UndercutStays
    <3>2. looked[q].car # NoCar => car'[looked[q].car].status = car[looked[q].car].status
      BY <1>0, <1>3, <2>1, <2>3, <3>1
    <3>3. StillAsRead(q) => StillAsRead(q)'
      BY <1>0, <2>2, <2>3, <3>1, <3>2 DEF StillAsRead
    <3>4. QED BY <2>3, <3>1, <3>3 DEF OnePresented
  <2>4. QED BY <2>2, <2>3 DEF OnePresented
<1>6. CASE About(r) = d
  <2>1. WroteOf(r, d)'
    <3>1. CASE garage[r] = "flushed"
      BY <1>0, <1>4, <1>6, <3>1 DEF WroteOf, Wrote
    <3>2. CASE garage[r] = "read"
      <4>1. looked[r].car \in Registrations /\ CarDriver[looked[r].car] = d
        BY <1>0, <1>3, <1>6, <3>2 DEF Writes
      <4>2. QED BY <1>0, <4>1 DEF WroteOf, Wrote
    <3>3. QED BY <1>0, <3>1, <3>2 DEF InGarage
  <2>2. ASSUME Undercut(r) PROVE Crossing(d)'
    <3>1. PICK q \in GarageRequests : q # r /\ RanBeside(q, r) /\ WroteOf(q, d)
      BY <1>6, <2>2 DEF Undercut
    <3>2. RanBeside(q, r)' /\ WroteOf(q, d)'
      BY <3>1, GarageGrows, CrossingsGrow
    <3>3. QED BY <2>1, <3>1, <3>2 DEF Crossing
  <2>3. ASSUME StillAsRead(r) PROVE OnePresented(d)'
    <3>1. InUse(d) \subseteq {looked[r].car}
      BY <1>6, <2>3 DEF StillAsRead
    <3>2. \A c, k \in InUse(d)' : c = k
      <4>1. CASE garage[r] = "read"
        <5>1. InUse(d)' \subseteq {looked[r].car}
          BY <1>0, <1>2, <3>1, <4>1 DEF InUse, CarsOf, StatusAfter
        <5>2. QED BY <5>1
      <4>2. CASE garage[r] = "flushed"
        <5>1. ASSUME NEW c \in InUse(d)', c # r PROVE FALSE
          <6>1. c \in Registrations /\ CarDriver[c] = d /\ Exists(c) /\ car'[c].status # "RETIRED"
            BY <1>2, <5>1 DEF InUse, CarsOf
          <6>2. c = looked[r].car
            BY <1>0, <3>1, <5>1, <6>1 DEF InUse, CarsOf, StatusAfter
          <6>3. looked[r].now = "RETIRED" /\ looked[r].was # "RETIRED"
            BY <1>4, <4>2, <6>1, <6>2 DEF Writes, LooksExplained
          <6>4. QED BY <1>0, <5>1, <6>1, <6>2, <6>3 DEF StatusAfter
        <5>2. QED BY <5>1
      <4>3. QED BY <1>0, <4>1, <4>2 DEF InGarage
    <3>3. ASSUME NEW q \in Registrations \cup CarChanges, InGarage(q)', About(q)' = d PROVE Undercut(q)'
      <4>1. InGarage(q) /\ q # r /\ About(q)' = About(q)
        BY <1>1, <3>3, UndercutStays
      <4>2. RanBeside(r, q)'
        BY <1>0, <4>1, GarageGrows, CrossingsGrow DEF CrossingsExplained
      <4>3. QED BY <2>1, <3>3, <4>1, <4>2 DEF Undercut
    <3>4. QED BY <3>2, <3>3 DEF OnePresented
  <2>4. QED BY <1>0, <1>6, <2>2, <2>3 DEF OnePresented
<1>7. QED BY <1>5, <1>6

(* The closing of an account leaves fewer cars in use, and undercuts       *)
(* whoever has read one of those it retires.                               *)
LEMMA RetiresOnePresented ==
  ASSUME GarageInv, GarageNext, NEW e \in CarErasers, Retires(e), NEW d \in Drivers, OnePresented(d)
  PROVE  OnePresented(d)'
<1> USE GarageKinds DEF GarageInv
<1>1. /\ garage[e] = "flushed" /\ garage'[e] = "done" /\ CarApart(e)
      /\ UNCHANGED <<looked, retiring, crossed>>
      /\ \A c \in Registrations :
           car'[c].status = IF c \in retiring[e] THEN "RETIRED" ELSE car[c].status
  BY DEF Retires
<1>2. InUse(d)' = InUse(d) \ retiring[e]
  BY <1>1, RetiresKeepCars DEF InUse, CarsOf
<1>3. ASSUME NEW q \in Registrations \cup CarChanges, InGarage(q)', About(q)' = d
      PROVE  Undercut(q)' \/ StillAsRead(q)'
  <2>1. InGarage(q) /\ q # e /\ About(q) = d /\ (Undercut(q) => Undercut(q)')
    BY <1>1, <1>3, UndercutStays DEF CarApart, InGarage
  <2>2. looked[q].car \in Registrations \cup {NoCar}
    BY DEF GarageTypeOK, Looked
  <2>3. CASE looked[q].car \in retiring[e]
    <3>1. looked[q].car # NoCar /\ CarDriver[looked[q].car] = d
      BY <2>1, <2>2, <2>3 DEF LooksExplained, CarsOf, About
    <3>2. WroteOf(e, d)'
      BY <1>1, <2>2, <2>3, <3>1 DEF WroteOf, Wrote
    <3>3. RanBeside(e, q)'
      BY <1>1, <2>1, GarageGrows, CrossingsGrow DEF CrossingsExplained, InGarage
    <3>4. QED BY <1>3, <2>1, <3>2, <3>3 DEF Undercut
  <2>4. CASE looked[q].car \notin retiring[e]
    <3>1. StillAsRead(q) => StillAsRead(q)'
      BY <1>1, <1>2, <1>3, <2>1, <2>2, <2>4 DEF StillAsRead
    <3>2. QED BY <2>1, <3>1 DEF OnePresented
  <2>5. QED BY <2>3, <2>4
<1>4. QED BY <1>2, <1>3 DEF OnePresented

LEMMA NextCrossingsExplained ==
  ASSUME GarageInv, [GarageNext]_garageVars PROVE CrossingsExplained'
<1> USE GarageKinds DEF GarageInv
<1>1. \A d \in Drivers : Crossing(d) \/ OnePresented(d)
  BY DEF CrossingsExplained, OnePresented
<1>2. \A d : Crossing(d) => Crossing(d)'
  BY GarageGrows, CrossingsGrow
<1>3. ASSUME UNCHANGED <<car, looked>>, \A q \in GarageRequests : InGarage(q)' => InGarage(q),
             NEW d \in Drivers, OnePresented(d)
      PROVE  OnePresented(d)'
  <2>1. InUse(d)' = InUse(d)
    BY <1>3 DEF InUse, CarsOf, Exists
  <2>2. ASSUME NEW q \in Registrations \cup CarChanges, InGarage(q)', About(q)' = d
        PROVE  Undercut(q)' \/ StillAsRead(q)'
    <3>1. InGarage(q) /\ About(q)' = About(q) /\ (Undercut(q) => Undercut(q)')
      BY <1>3, <2>2, UndercutStays
    <3>2. StillAsRead(q) => StillAsRead(q)'
      BY <1>3, <2>1, <2>2, <3>1 DEF StillAsRead
    <3>3. QED BY <1>3, <2>2, <3>1, <3>2 DEF OnePresented
  <2>3. QED BY <1>3, <2>1, <2>2 DEF OnePresented
<1>4. ASSUME NEW d \in Drivers PROVE Crossing(d)' \/ OnePresented(d)'
  <2>1. ASSUME NEW r \in GarageRequests, Begins(r), GarageNext PROVE Crossing(d)' \/ OnePresented(d)'
    BY <1>1, <1>2, <2>1, BeginsOnePresented
  <2>2. ASSUME NEW r \in GarageRequests, Writes(r), GarageNext PROVE Crossing(d)' \/ OnePresented(d)'
    BY <1>1, <1>2, <2>2, WritesOnePresented
  <2>3. ASSUME NEW r \in GarageRequests, GoesOn(r) PROVE Crossing(d)' \/ OnePresented(d)'
    <3>1. UNCHANGED <<car, looked>> /\ \A q \in GarageRequests : InGarage(q)' => InGarage(q)
      BY <2>3 DEF GoesOn, CarApart, InGarage
    <3>2. QED BY <1>1, <1>2, <1>3, <3>1
  <2>7. ASSUME NEW e \in CarErasers, Retires(e), GarageNext PROVE Crossing(d)' \/ OnePresented(d)'
    BY <1>1, <1>2, <2>7, RetiresOnePresented
  <2>4. ASSUME NEW e \in Drivers, RideStarts(e) \/ RideEnds(e) PROVE Crossing(d)' \/ OnePresented(d)'
    BY <1>1, <1>2, <1>3, <2>4 DEF RideStarts, RideEnds, InGarage
  <2>5. CASE UNCHANGED garageVars
    BY <1>1, <1>2, <1>3, <2>5 DEF garageVars, InGarage
  <2>6. QED BY <2>1, <2>2, <2>3, <2>4, <2>5, <2>7, GarageStep
<1>5. QED BY <1>4, NextBeside DEF CrossingsExplained, OnePresented

(***************************************************************************)
(* The cars under a trip.                                                  *)
(***************************************************************************)

(* What the two parts of RidesExplained say of one request, or one driver. *)
BeganBefore(q) ==
  /\ q \notin CarUploads /\ InGarage(q) /\ looked[q].car # NoCar /\ looked[q].now # "ACTIVE" =>
       LET d == CarDriver[looked[q].car] IN riding[d] = looked[q].car => d \in crossed[q]
  /\ q \in CarErasers /\ InGarage(q) /\ riding[ErasedDriver[q]] # NoCar =>
       ErasedDriver[q] \in crossed[q]
TakenBy(q, d) ==
  /\ Wrote(q, riding[d])
  /\ d \in crossed[q] \/ (q \in CarUploads /\ car[riding[d]].status = "PENDING")
Explained(d) ==
  riding[d] # NoCar /\ car[riding[d]].status # "ACTIVE" => \E q \in GarageRequests : TakenBy(q, d)

LEMMA RidesExplainedParts ==
  RidesExplained <=> /\ \A q \in GarageRequests : BeganBefore(q)
                     /\ \A d \in Drivers : Explained(d)
BY GarageKinds DEF RidesExplained, BeganBefore, Explained, TakenBy

(* A step that leaves the trips alone disturbs no explanation but that of  *)
(* a car whose status it writes.                                           *)
LEMMA StillExplained ==
  ASSUME GarageInv, GarageNext, UNCHANGED riding, NEW d \in Drivers, Explained(d),
         riding[d] # NoCar => car'[riding[d]].status = car[riding[d]].status
  PROVE  Explained(d)'
<1> USE DEF GarageInv
<1>1. /\ \A q \in GarageRequests : crossed[q] \subseteq crossed'[q]
      /\ \A q \in GarageRequests : \A c : Wrote(q, c) => Wrote(q, c)'
  BY GarageGrows, CrossingsGrow
<1>2. SUFFICES ASSUME riding'[d] # NoCar, car'[riding'[d]].status # "ACTIVE"
               PROVE  \E q \in GarageRequests : TakenBy(q, d)'
  BY DEF Explained
<1>3. PICK q \in GarageRequests : TakenBy(q, d)
  BY <1>2 DEF Explained
<1>4. Wrote(q, riding[d])'
  <2>1. \A c : c = riding[d] => Wrote(q, c)'
    BY <1>1, <1>3 DEF TakenBy
  <2>2. QED BY <2>1 DEF Wrote
<1>5. TakenBy(q, d)'
  BY <1>1, <1>2, <1>3, <1>4 DEF TakenBy
<1>6. QED BY <1>5

LEMMA NextRidesExplained ==
  ASSUME GarageInv, [GarageNext]_garageVars PROVE RidesExplained'
<1> USE GarageKinds DEF GarageInv
<1>0. /\ \A d \in Drivers : riding[d] \in Registrations \cup {NoCar}
      /\ \A r \in GarageRequests : looked[r].car \in Registrations \cup {NoCar}
      /\ \A q \in GarageRequests : BeganBefore(q)
      /\ \A d \in Drivers : Explained(d)
  BY RidesExplainedParts DEF GarageTypeOK, Looked
<1>1. ASSUME GarageNext, UNCHANGED <<car, riding>> PROVE \A d \in Drivers : Explained(d)'
  BY <1>0, <1>1, StillExplained
<1>2. ASSUME \A q \in GarageRequests : InGarage(q)' => InGarage(q), UNCHANGED <<looked, riding, crossed>>
      PROVE  \A q \in GarageRequests : BeganBefore(q)'
  BY <1>0, <1>2 DEF BeganBefore
<1>3. ASSUME NEW r \in GarageRequests, Begins(r), GarageNext PROVE RidesExplained'
  <2>0. \A q \in GarageRequests : crossed[q] \subseteq crossed'[q]
    BY <1>3, GarageGrows
  <2>1. /\ \A q \in GarageRequests \ {r} :
             /\ (InGarage(q)' => InGarage(q)) /\ looked'[q] = looked[q]
             /\ crossed[q] \subseteq crossed'[q]
        /\ UNCHANGED <<car, riding>>
    BY <1>3, <2>0 DEF Begins, CarApart, InGarage
  <2>2. \A q \in GarageRequests \ {r} : BeganBefore(q)'
    BY <1>0, <2>1 DEF BeganBefore
  <2>3. BeganBefore(r)'
    BY <1>3, <2>1 DEF Begins, BeganBefore, NotLooked
  <2>4. \A q \in GarageRequests : BeganBefore(q)'
    BY <2>2, <2>3
  <2>5. \A d \in Drivers : Explained(d)'
    BY <1>1, <1>3, <2>1
  <2>6. QED BY <2>4, <2>5, RidesExplainedParts
           DEF RidesExplained, BeganBefore, Explained, TakenBy
<1>4. ASSUME NEW r \in GarageRequests, GoesOn(r), GarageNext PROVE RidesExplained'
  <2>1. /\ \A q \in GarageRequests : InGarage(q)' => InGarage(q)
        /\ UNCHANGED <<looked, car, riding, crossed>>
    BY <1>4 DEF GoesOn, CarApart, InGarage
  <2>2. /\ \A q \in GarageRequests : BeganBefore(q)'
        /\ \A d \in Drivers : Explained(d)'
    BY <1>1, <1>2, <1>4, <2>1
  <2>3. QED BY <2>2 DEF RidesExplained, BeganBefore, Explained, TakenBy
<1>5. ASSUME NEW r \in GarageRequests, Writes(r), GarageNext PROVE RidesExplained'
  <2>0. /\ InGarage(r) /\ garage'[r] = "done" /\ CarApart(r) /\ UNCHANGED <<looked, riding, crossed>>
        /\ r \notin CarErasers
        /\ \A c \in Registrations : car'[c].status = StatusAfter(r, c)
    BY <1>5 DEF Writes
  <2>1. \A q \in GarageRequests : BeganBefore(q)'
    BY <1>2, <2>0 DEF CarApart, InGarage
  <2>2. ASSUME NEW d \in Drivers PROVE Explained(d)'
    <3>1. riding[d] # NoCar =>
            /\ riding[d] \in Registrations /\ Exists(riding[d]) /\ CarDriver[riding[d]] = d
            /\ garage[riding[d]] = "done"
      BY <1>0 DEF LooksExplained
    <3>2. riding[d] # NoCar =>
            \/ car'[riding[d]].status = car[riding[d]].status
            \/ riding[d] = looked[r].car /\ car'[riding[d]].status = looked[r].now
      BY <2>0, <3>1 DEF StatusAfter, InGarage
    <3>3. CASE riding[d] # NoCar => car'[riding[d]].status = car[riding[d]].status
      BY <1>0, <1>5, <2>0, <3>3, StillExplained
    <3>4. CASE /\ riding[d] # NoCar /\ riding[d] = looked[r].car
               /\ car'[riding[d]].status = looked[r].now
      <4>1. SUFFICES ASSUME looked[r].now # "ACTIVE" PROVE TakenBy(r, d)'
        BY <2>0, <3>4 DEF Explained
      <4>2. Wrote(r, riding[d])'
        BY <2>0, <3>4 DEF Wrote
      <4>3. d \in crossed'[r] \/ (r \in CarUploads /\ looked[r].now = "PENDING")
        BY <1>0, <2>0, <3>1, <3>4, <4>1 DEF BeganBefore, LooksExplained
      <4>4. QED BY <2>0, <3>4, <4>2, <4>3 DEF TakenBy
    <3>5. QED BY <3>2, <3>3, <3>4
  <2>3. QED BY <2>1, <2>2 DEF RidesExplained, BeganBefore, Explained, TakenBy
<1>6. ASSUME NEW e \in CarErasers, Retires(e), GarageNext PROVE RidesExplained'
  <2>0. /\ InGarage(e) /\ garage'[e] = "done" /\ CarApart(e)
        /\ UNCHANGED <<looked, retiring, riding, crossed>>
        /\ \A c \in Registrations :
             car'[c].status = IF c \in retiring[e] THEN "RETIRED" ELSE car[c].status
    BY <1>6 DEF Retires, InGarage
  <2>1. \A q \in GarageRequests : BeganBefore(q)'
    BY <1>2, <2>0 DEF CarApart, InGarage
  <2>2. ASSUME NEW d \in Drivers PROVE Explained(d)'
    <3>1. CASE riding[d] # NoCar => riding[d] \notin retiring[e]
      BY <1>0, <1>6, <2>0, <3>1, StillExplained
    <3>2. CASE riding[d] # NoCar /\ riding[d] \in retiring[e]
      <4>1. CarDriver[riding[d]] = d /\ ErasedDriver[e] = d
        BY <3>2 DEF LooksExplained, CarsOf
      <4>2. d \in crossed[e]
        BY <1>0, <2>0, <3>2, <4>1 DEF BeganBefore
      <4>3. TakenBy(e, d)'
        BY <2>0, <3>2, <4>2 DEF TakenBy, Wrote
      <4>4. QED BY <4>3 DEF Explained
    <3>3. QED BY <3>1, <3>2
  <2>3. QED BY <2>1, <2>2 DEF RidesExplained, BeganBefore, Explained, TakenBy
<1>7. ASSUME NEW d \in Drivers, RideStarts(d), GarageNext PROVE RidesExplained'
  <2>1. /\ riding'[d] \in CarsOf(d) /\ car[riding'[d]].status = "ACTIVE"
        /\ \A e \in Drivers \ {d} : riding'[e] = riding[e]
        /\ \A q \in GarageRequests :
             crossed'[q] = IF InGarage(q) THEN crossed[q] \cup {d} ELSE crossed[q]
        /\ UNCHANGED <<garage, looked, retiring, car>>
    BY <1>7, RideStartsEffect
  <2>2. \A q \in GarageRequests : InGarage(q)' <=> InGarage(q)
    BY <2>1 DEF InGarage
  <2>3. ASSUME NEW q \in GarageRequests PROVE BeganBefore(q)'
    BY <1>0, <2>1, <2>2 DEF BeganBefore
  <2>4. ASSUME NEW e \in Drivers PROVE Explained(e)'
    <3>1. CASE e = d
      BY <2>1, <3>1 DEF Explained
    <3>2. CASE e # d
      <4>1. riding'[e] = riding[e] /\ \A q \in GarageRequests : crossed[q] \subseteq crossed'[q]
        BY <2>1, <3>2
      <4>2. \A q \in GarageRequests : TakenBy(q, e) => TakenBy(q, e)'
        BY <2>1, <4>1 DEF TakenBy, Wrote
      <4>3. QED BY <1>0, <2>1, <4>1, <4>2 DEF Explained
    <3>3. QED BY <3>1, <3>2
  <2>5. QED BY <2>3, <2>4 DEF RidesExplained, BeganBefore, Explained, TakenBy
<1>8. ASSUME NEW d \in Drivers, RideEnds(d), GarageNext PROVE RidesExplained'
  <2>1. /\ \A e \in Drivers : riding'[e] = riding[e] \/ riding'[e] = NoCar
        /\ UNCHANGED <<garage, looked, retiring, car, crossed>>
    BY <1>8 DEF GarageTypeOK, RideEnds
  <2>2. \A q \in GarageRequests : BeganBefore(q)'
    BY <1>0, <2>1 DEF BeganBefore, InGarage
  <2>3. \A e \in Drivers : Explained(e)'
    BY <1>0, <2>1 DEF Explained, TakenBy, Wrote
  <2>4. QED BY <2>2, <2>3 DEF RidesExplained, BeganBefore, Explained, TakenBy
<1>9. CASE UNCHANGED garageVars
  BY <1>9 DEF garageVars, RidesExplained, InGarage, Wrote
<1>10. QED BY <1>3, <1>4, <1>5, <1>6, <1>7, <1>8, <1>9, GarageStep

LEMMA GarageInvHolds == GarageSpec => []GarageInv
<1>1. GarageInv /\ [GarageNext]_garageVars => GarageInv'
  <2> SUFFICES ASSUME GarageInv, [GarageNext]_garageVars PROVE GarageInv'
    OBVIOUS
  <2>1. GarageTypeOK /\ LooksExplained
    BY DEF GarageInv
  <2>2. QED BY <2>1, NextGarageTypeOK, NextLooksExplained, NextPlatesExplained,
               NextCrossingsExplained, NextRidesExplained DEF GarageInv
<1>2. QED BY <1>1, InitGarageInv, PTL DEF GarageSpec

(* Type correctness of the cars and of the requests about them.            *)
THEOREM GarageTypes == GarageSpec => []GarageTypeOK
<1>1. GarageInv => GarageTypeOK
  BY DEF GarageInv
<1>2. QED BY <1>1, GarageInvHolds, PTL

(* vehicles.py: one plate is one car, a driver presents one car, and the   *)
(* car under a trip is in service, but for requests that crossed: two that *)
(* ran beside each other and both wrote a car of the driver, or one that   *)
(* began before the trip it took the car from, or sent an active car whose *)
(* paper was replaced back to pending.                                     *)
THEOREM CarsInTheirPlace == GarageSpec => []OnlyACrossingMisplacesCars
<1>1. GarageInv => OnlyACrossingMisplacesCars
  <2> SUFFICES ASSUME GarageInv PROVE OnlyACrossingMisplacesCars
    OBVIOUS
  <2>1. ASSUME NEW c \in Registrations, NEW k \in Registrations, Exists(c), Exists(k),
               CarDriver[c] = CarDriver[k], c # k,
               car[c].status # "RETIRED", car[k].status # "RETIRED"
        PROVE  Crossing(CarDriver[c])
    <3>1. c \in InUse(CarDriver[c]) /\ k \in InUse(CarDriver[c])
      BY <2>1 DEF InUse, CarsOf
    <3>2. QED BY <2>1, <3>1, GarageKinds DEF GarageInv, CrossingsExplained
  <2>2. QED BY <2>1 DEF GarageInv, PlatesExplained, RidesExplained, OnlyACrossingMisplacesCars
<1>2. QED BY <1>1, GarageInvHolds, PTL
=============================================================================
