------------------------------- MODULE Papers -------------------------------
(***************************************************************************)
(* A driver's documents and their car's, the files behind them, and what   *)
(* approval rests on (use cases driver_documents and vehicle_documents,    *)
(* domain/documents.py, services/storage.py, session_scope.on_rollback,    *)
(* approve and suspend of routers/admin.py, DecideVehicle, erasure).       *)
(*                                                                         *)
(* Nothing here takes a lock.  A file is on disk before its row is          *)
(* committed and is discarded if the transaction is rolled back; a deleted *)
(* account's files are unlinked after its commit.  A process that dies in   *)
(* between does neither.                                                   *)
(***************************************************************************)
EXTENDS Naturals, FiniteSets

CONSTANTS Holders,    \* whose papers they are: the driver and the car
          Types,      \* required_documents
          Uploads,    \* requests that upload a document, and the document
          UploadHolder, UploadType,
          Reviews,    \* requests that review a document
          Verdicts,   \* requests that approve or suspend a holder
          Erasers,    \* requests that delete the account
          NoPaper, NoHolder

PaperRequests == Uploads \cup Reviews \cup Verdicts \cup Erasers

ASSUME PapersAssumption ==
  /\ UploadHolder \in [Uploads -> Holders] /\ UploadType \in [Uploads -> Types]
  /\ NoPaper \notin Uploads /\ NoHolder \notin Holders
ASSUME UploadsAssumption == IsFiniteSet(Uploads)
ASSUME PaperKindsAssumption ==
  /\ Uploads \cap Reviews = {} /\ Uploads \cap Verdicts = {} /\ Uploads \cap Erasers = {}
  /\ Reviews \cap Verdicts = {} /\ Reviews \cap Erasers = {} /\ Verdicts \cap Erasers = {}

VARIABLES
  paperStep,  \* how far each request is
  paperNote,  \* what each request has read and decided
  paper,      \* driver_documents and vehicle_documents
  file,       \* the uploads whose file is on disk
  standing,   \* drivers.approval_status, vehicles.status
  closed,     \* the account was deleted
  beside      \* for each verdict and deletion, the uploads that ran while it
              \* did (history)

paperVars == <<paperStep, paperNote, paper, file, standing, closed, beside>>

PaperSteps == {"new", "going", "committed", "done", "refused", "dead"}
Standings  == {"pending", "active", "off"}
PaperRow   == [status : {"none", "PENDING", "VERIFIED", "REJECTED"},
               order : 0..Cardinality(Uploads),       \* created_at
               expired : BOOLEAN, erased : BOOLEAN]
PaperNote  == [paper : Uploads \cup {NoPaper}, holder : Holders \cup {NoHolder},
               was : Standings \cup {"none", "PENDING", "VERIFIED", "REJECTED"},
               now : Standings \cup {"none", "VERIFIED", "REJECTED"},
               order : 0..Cardinality(Uploads), sweep : SUBSET Uploads]
Unread     == [paper |-> NoPaper, holder |-> NoHolder, was |-> "none", now |-> "none",
               order |-> 0, sweep |-> {}]

PapersTypeOK ==
  /\ paperStep \in [PaperRequests -> PaperSteps]
  /\ paperNote \in [PaperRequests -> PaperNote]
  /\ paper \in [Uploads -> PaperRow]
  /\ file \subseteq Uploads
  /\ standing \in [Holders -> Standings]
  /\ closed \in BOOLEAN
  /\ beside \in [Verdicts \cup Erasers -> SUBSET Uploads]

PapersInit ==
  /\ paperStep = [r \in PaperRequests |-> "new"]
  /\ paperNote = [r \in PaperRequests |-> Unread]
  /\ paper = [u \in Uploads |-> [status |-> "none", order |-> 0,
                                 expired |-> FALSE, erased |-> FALSE]]
  /\ file = {}
  /\ standing = [h \in Holders |-> "pending"]
  /\ closed = FALSE
  /\ beside = [r \in Verdicts \cup Erasers |-> {}]

Going(r) == paperStep[r] \in {"going", "committed"}
Moves(r, s) == paperStep' = [paperStep EXCEPT ![r] = s]

\* What a finished request had read is forgotten.
Ends(r, s) == Moves(r, s) /\ paperNote' = [paperNote EXCEPT ![r] = Unread]

\* A request starts, beside those that are running.
Starts(r, note) ==
  /\ paperStep[r] = "new"
  /\ Moves(r, "going")
  /\ paperNote' = [paperNote EXCEPT ![r] = note]
  /\ beside' = [q \in Verdicts \cup Erasers |->
       IF q = r THEN {u \in Uploads : Going(u)}
       ELSE IF Going(q) THEN beside[q] \cup ({r} \cap Uploads) ELSE beside[q]]

Live(u) == paper[u].status # "none" /\ ~paper[u].erased

-----------------------------------------------------------------------------
(* domain/documents.py.                                                    *)

\* The newest upload of the type, committed and not taken away.
Current(h, t) == {u \in Uploads : /\ UploadHolder[u] = h /\ UploadType[u] = t /\ Live(u)
                                  /\ \A v \in Uploads :
                                       /\ UploadHolder[v] = h /\ UploadType[v] = t /\ Live(v)
                                       => paper[v].order <= paper[u].order}
Valid(u)    == paper[u].status = "VERIFIED" /\ ~paper[u].expired
AnyVerified(h) ==                                               \* a fault
  {t \in Types : ~\E u \in Uploads : /\ UploadHolder[u] = h /\ UploadType[u] = t
                                     /\ Live(u) /\ Valid(u)}
Outstanding(h) == {t \in Types : ~\E u \in Current(h, t) : Valid(u)}

PaperExpires(u) ==
  /\ Live(u) /\ ~paper[u].expired
  /\ paper' = [paper EXCEPT ![u].expired = TRUE]
  /\ UNCHANGED <<paperStep, paperNote, file, standing, closed, beside>>

-----------------------------------------------------------------------------
(* UploadDriverDocument and UploadVehicleDocument.                         *)

Put(u) == file \cup {u}

\* The account is active, the holder is read, the file written, the row
\* flushed with its time.
UploadPut(u) ==
  /\ ~closed
  /\ Starts(u, [Unread EXCEPT !.holder = UploadHolder[u], !.was = standing[UploadHolder[u]],
                  !.order = 1 + Cardinality({v \in Uploads : paperStep[v] # "new"})])
  /\ file' = Put(u)
  /\ UNCHANGED <<paper, standing, closed>>

\* What was approved goes back to pending, if it was read as approved.
BackToPending(u) ==
  IF paperNote[u].was = "active" THEN [standing EXCEPT ![UploadHolder[u]] = "pending"]
                                 ELSE standing

UploadCommit(u) ==
  /\ paperStep[u] = "going"
  /\ paper' = [paper EXCEPT ![u] = [status |-> "PENDING", order |-> paperNote[u].order,
                                    expired |-> FALSE, erased |-> FALSE]]
  /\ standing' = BackToPending(u)
  /\ Ends(u, "done")
  /\ UNCHANGED <<file, closed, beside>>

\* The audit entry, the flush or the commit fails: the undo hook runs.
Discarded(u)  == file \ {u}
UploadRollback(u) ==
  /\ paperStep[u] = "going"
  /\ file' = Discarded(u)
  /\ Ends(u, "refused")
  /\ UNCHANGED <<paper, standing, closed, beside>>

-----------------------------------------------------------------------------
(* Reviewing a document, approving or suspending who holds it.             *)

ReviewRead(v) ==
  /\ \E u \in Uploads, verdict \in {"VERIFIED", "REJECTED"} :
       /\ Live(u)
       /\ Starts(v, [Unread EXCEPT !.paper = u, !.was = paper[u].status, !.now = verdict])
  /\ UNCHANGED <<paper, file, standing, closed>>

ReviewCommit(v) ==
  LET n == paperNote[v] IN
  /\ paperStep[v] = "going"
  /\ paper' = IF n.now = n.was THEN paper ELSE [paper EXCEPT ![n.paper].status = n.now]
  /\ Ends(v, "done")
  /\ UNCHANGED <<file, standing, closed, beside>>

\* Approving needs every required document verified and in date.
VerdictRead(a) ==
  /\ \E h \in Holders, s \in {"active", "off"} :
       /\ s = "active" => Outstanding(h) = {}
       /\ Starts(a, [Unread EXCEPT !.holder = h, !.was = standing[h], !.now = s])
  /\ UNCHANGED <<paper, file, standing, closed>>

VerdictCommit(a) ==
  LET n == paperNote[a] IN
  /\ paperStep[a] = "going"
  /\ standing' = IF n.now = n.was THEN standing ELSE [standing EXCEPT ![n.holder] = n.now]
  /\ Moves(a, "done")
  /\ UNCHANGED <<paperNote, paper, file, closed, beside>>

-----------------------------------------------------------------------------
(* DeleteAccount, as far as the papers go.                                 *)

EraseLook(e) ==
  /\ ~closed
  /\ Starts(e, [Unread EXCEPT !.sweep = {u \in Uploads : Live(u)}])
  /\ UNCHANGED <<paper, file, standing, closed>>

EraseCommit(e) ==
  /\ paperStep[e] = "going"
  /\ paper' = [u \in Uploads |-> IF u \in paperNote[e].sweep
                                   THEN [paper[u] EXCEPT !.erased = TRUE] ELSE paper[u]]
  /\ standing' = [h \in Holders |-> "off"]
  /\ closed' = TRUE
  /\ Moves(e, "committed")
  /\ UNCHANGED <<paperNote, file, beside>>

\* The files go after the commit.  (One that cannot be unlinked is logged and
\* left behind, as if the process had died.)
NoneUnlinked(S) == file                                         \* a fault
Unlinked(S)     == file \ S
EraseFiles(e) ==
  /\ paperStep[e] = "committed"
  /\ file' = Unlinked(paperNote[e].sweep)
  /\ Moves(e, "done")
  /\ UNCHANGED <<paperNote, paper, standing, closed, beside>>

PaperFails(r) ==
  /\ r \notin Uploads /\ paperStep[r] = "going"
  /\ Ends(r, "refused")
  /\ UNCHANGED <<paper, file, standing, closed, beside>>

\* The process dies: the database rolls back what was not committed, and
\* neither the undo hook nor the unlinking runs.
Dies(r) ==
  /\ r \in Uploads \cup Erasers /\ Going(r)
  /\ Moves(r, "dead")
  /\ UNCHANGED <<paperNote, paper, file, standing, closed, beside>>

\* The requests, as the routers serve them.
upload_document(u) == UploadPut(u) \/ UploadCommit(u) \/ UploadRollback(u)
review_document(v) == ReviewRead(v) \/ ReviewCommit(v)
approve_driver(a)  == VerdictRead(a) \/ VerdictCommit(a)
delete_me(e)       == EraseLook(e) \/ EraseCommit(e) \/ EraseFiles(e)

PapersNext ==
  \/ \E u \in Uploads : upload_document(u) \/ PaperExpires(u)
  \/ \E v \in Reviews : review_document(v)
  \/ \E a \in Verdicts : approve_driver(a)
  \/ \E e \in Erasers : delete_me(e)
  \/ \E r \in PaperRequests : PaperFails(r) \/ Dies(r)

PapersSpec == PapersInit /\ [][PapersNext]_paperVars

-----------------------------------------------------------------------------
\* storage.py, DiscardOnRollbackStorage, and erasure.py: a document on record
\* has its file, a file with no record belongs to a request that is running or
\* whose process died, and of a closed account no paper is left but one whose
\* upload ran beside the deletion.
FilesAccountedFor ==
  \A u \in Uploads :
    /\ Live(u) => u \in file
    /\ u \in file /\ ~Live(u) =>
         \/ paperStep[u] \in {"going", "dead"}
         \/ \E e \in Erasers : u \in paperNote[e].sweep /\ paperStep[e] \in {"committed", "dead"}
    /\ closed /\ Live(u) => \E e \in Erasers : u \in beside[e]

\* driver_documents.py:96, "the approval was for the documents that were
\* reviewed": who is approved holds no current document that nobody has
\* looked at, unless it was uploaded beside the approval.
ActiveOnReviewedPapers ==
  ~closed => \A h \in Holders, t \in Types : standing[h] = "active" =>
    \A u \in Current(h, t) : paper[u].status = "PENDING" =>
      \E a \in Verdicts : /\ paperNote[a].holder = h /\ paperNote[a].now = "active"
                          /\ u \in beside[a]
-----------------------------------------------------------------------------
(* Why it is so: what the proofs in Supply_proofs carry from step to step. *)

\* The rows agree with what the uploads have reached.
UploadsExplained ==
  \A u \in Uploads :
    /\ paperStep[u] \in {"new", "going", "done", "refused", "dead"}
    /\ paper[u].status # "none" <=> paperStep[u] = "done"
    /\ paperStep[u] = "going" => u \in file

\* What the other requests are about is on record, and what a deletion has
\* committed is erased.
NotesExplained ==
  /\ \A v \in Reviews : paperStep[v] = "going" =>
       /\ paperNote[v].paper \in Uploads /\ paper[paperNote[v].paper].status # "none"
       /\ paperNote[v].now \in {"VERIFIED", "REJECTED"}
  /\ \A a \in Verdicts : paperStep[a] \in {"going", "done"} =>
       paperNote[a].holder \in Holders /\ paperNote[a].now \in {"active", "off"}
  /\ \A e \in Erasers : \A u \in paperNote[e].sweep :
       /\ paper[u].status # "none"
       /\ paperStep[e] = "committed" => paper[u].erased

\* Two requests that run at once are beside each other, and a deletion misses
\* the papers only that were uploaded beside it.
BesideExplained ==
  /\ \A q \in Verdicts \cup Erasers :
       /\ paperStep[q] = "new" => beside[q] = {}
       /\ \A u \in Uploads : Going(q) /\ Going(u) => u \in beside[q]
  /\ \A e \in Erasers, u \in Uploads :
       paperStep[e] = "going" /\ Live(u) => u \in paperNote[e].sweep \cup beside[e]
  /\ closed => \A u \in Uploads : Going(u) => \E e \in Erasers : u \in beside[e]

\* No two uploads have the same time.
Begun == {u \in Uploads : paperStep[u] # "new"}
TimeOf(u) == IF paperStep[u] = "going" THEN paperNote[u].order ELSE paper[u].order
Timed(u)  == paperStep[u] \in {"going", "done"}
TimesExplained ==
  /\ \A u \in Uploads : Timed(u) => TimeOf(u) \in 1..Cardinality(Begun)
  /\ \A u, v \in Uploads : Timed(u) /\ Timed(v) /\ TimeOf(u) = TimeOf(v) => u = v

\* An approval that goes ahead is for papers that were looked at, but for
\* those uploaded beside it; and an upload that leaves an approval standing
\* ran beside it.
ApprovedBeside(u, h) ==
  \E a \in Verdicts : /\ paperStep[a] = "done" /\ paperNote[a].holder = h
                      /\ paperNote[a].now = "active" /\ u \in beside[a]
ApprovalsExplained ==
  ~closed =>
    /\ \A u \in Uploads :
         /\ paperStep[u] = "going" /\ paperNote[u].was # "active"
         /\ standing[UploadHolder[u]] = "active"
         => ApprovedBeside(u, UploadHolder[u])
    /\ \A h \in Holders, t \in Types : standing[h] = "active" =>
         \A u \in Current(h, t) : paper[u].status = "PENDING" => ApprovedBeside(u, h)
    /\ \A a \in Verdicts : paperStep[a] = "going" /\ paperNote[a].now = "active" =>
         \A t \in Types : \A u \in Current(paperNote[a].holder, t) :
           paper[u].status = "PENDING" => u \in beside[a]

\* The inductive invariant.
PapersInv == /\ PapersTypeOK /\ UploadsExplained /\ NotesExplained
             /\ BesideExplained /\ TimesExplained /\ ApprovalsExplained
             /\ FilesAccountedFor
=============================================================================
