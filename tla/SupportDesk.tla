---------------------------- MODULE SupportDesk ----------------------------
(***************************************************************************)
(* Support tickets and the numbers they are filed under (use case support, *)
(* domain/support.py, services/numbers.py, routers/support.py).            *)
(*                                                                         *)
(* A reference is the next value of a row locked for its year; the lock is *)
(* kept to the end, so a request that fails gives its number back.  Replies *)
(* and decisions read the ticket unlocked and write it at their commit.    *)
(***************************************************************************)
EXTENDS Naturals, FiniteSets, Lifecycles

CONSTANTS Raisers,    \* requests that raise a ticket, and the ticket raised
          Hands,      \* requests that reply to a ticket or decide it
          Years,
          YearOf,     \* the year in which each ticket is raised
          NoTicket

ASSUME DeskAssumption ==
  /\ IsFiniteSet(Raisers) /\ Raisers \cap Hands = {}
  /\ YearOf \in [Raisers -> Years] /\ NoTicket \notin Raisers

VARIABLES
  desk,      \* how far each request is
  noted,     \* what each request has read and decided
  sequence,  \* number_sequences.next_value by year; 0 while there is no row
  ticket,    \* support_tickets
  thread     \* ticket_messages: what was said on each ticket, and by whom

deskVars == <<desk, noted, sequence, ticket, thread>>

TicketStatus == {"OPEN", "IN_PROGRESS", "RESOLVED", "CLOSED"}
Voices    == {"reporter", "staff", "internal"}
TicketRow == [status : {"NONE"} \cup TicketStatus, ref : 0..Cardinality(Raisers)]
Note      == [ticket : Raisers \cup {NoTicket}, number : 0..Cardinality(Raisers),
              seen : {"NONE"} \cup TicketStatus, decided : {"NONE"} \cup TicketStatus,
              voice : Voices \cup {"none"}]
NoNote    == [ticket |-> NoTicket, number |-> 0, seen |-> "NONE", decided |-> "NONE",
              voice |-> "none"]

DeskTypeOK ==
  /\ desk \in [Raisers \cup Hands ->
                {"new", "first", "numbered", "read", "done", "failed"}]
  /\ noted \in [Raisers \cup Hands -> Note]
  /\ sequence \in [Years -> 0..(Cardinality(Raisers) + 1)]
  /\ ticket \in [Raisers -> TicketRow]
  /\ thread \in [Raisers -> SUBSET (Voices \X (Raisers \cup Hands))]

DeskInit ==
  /\ desk = [r \in Raisers \cup Hands |-> "new"]
  /\ noted = [r \in Raisers \cup Hands |-> NoNote]
  /\ sequence = [y \in Years |-> 0]
  /\ ticket = [t \in Raisers |-> [status |-> "NONE", ref |-> 0]]
  /\ thread = [t \in Raisers |-> {}]

Step(r, s) == desk' = [desk EXCEPT ![r] = s]

DeskFails(r) == Step(r, "failed") /\ UNCHANGED <<noted, sequence, ticket, thread>>

-----------------------------------------------------------------------------
(* RaiseTicket, and SqlNumberAllocator.allocate in it.                     *)

SequenceNotLocked(y) == {}                                      \* a fault
\* FOR UPDATE of the year's row; its first insert is waited for as well.
SequenceHolders(y) == {r \in Raisers : YearOf[r] = y /\ desk[r] = "numbered"}

\* There is no row yet for the year: the request goes on to insert it,
NumberFirst(r) ==
  /\ desk[r] = "new" /\ sequence[YearOf[r]] = 0
  /\ Step(r, "first")
  /\ UNCHANGED <<noted, sequence, ticket, thread>>

\* which the unique constraint lets one request of the year do.
NumberInsert(r) ==
  /\ desk[r] = "first" /\ SequenceHolders(YearOf[r]) = {}
  /\ sequence[YearOf[r]] = 0
  /\ noted' = [noted EXCEPT ![r].number = 1]
  /\ Step(r, "numbered")
  /\ UNCHANGED <<sequence, ticket, thread>>

NumberTaken(r) ==
  /\ desk[r] = "first" /\ SequenceHolders(YearOf[r]) = {}
  /\ sequence[YearOf[r]] # 0
  /\ DeskFails(r)

NumberNext(r) ==
  /\ desk[r] = "new" /\ sequence[YearOf[r]] # 0
  /\ SequenceHolders(YearOf[r]) = {}
  /\ noted' = [noted EXCEPT ![r].number = sequence[YearOf[r]]]
  /\ Step(r, "numbered")
  /\ UNCHANGED <<sequence, ticket, thread>>

RaiseTicket(r) ==
  /\ desk[r] = "numbered"
  /\ sequence' = [sequence EXCEPT ![YearOf[r]] = noted[r].number + 1]
  /\ ticket' = [ticket EXCEPT ![r] = [status |-> "OPEN", ref |-> noted[r].number]]
  /\ thread' = [thread EXCEPT ![r] = {<<"reporter", r>>}]
  /\ Step(r, "done")
  /\ UNCHANGED noted

RaiseFails(r) == desk[r] \in {"first", "numbered"} /\ DeskFails(r)

-----------------------------------------------------------------------------
(* ReplyToTicket and DecideTicket.                                         *)

\* SupportTicket.add_message: a reporter reopens what was resolved, and an
\* answer from staff means that somebody has looked.
AfterReply(status, voice) ==
  CASE status = "RESOLVED" /\ voice = "reporter" -> "IN_PROGRESS"
    [] status = "OPEN" /\ voice = "staff"        -> "IN_PROGRESS"
    [] OTHER                                     -> status

ReplyRead(h) ==
  /\ desk[h] = "new"
  /\ \E t \in Raisers, voice \in Voices :
       /\ ticket[t].status \notin {"NONE", "CLOSED"}
       /\ noted' = [noted EXCEPT ![h] =
            [ticket |-> t, number |-> 0, seen |-> ticket[t].status, voice |-> voice,
             decided |-> AfterReply(ticket[t].status, voice)]]
  /\ Step(h, "read")
  /\ UNCHANGED <<sequence, ticket, thread>>

DecideRead(h) ==
  /\ desk[h] = "new"
  /\ \E t \in Raisers, target \in TicketStatus \ {"OPEN"} :
       /\ ticket[t].status # "NONE"
       /\ Can(TICKET_LIFECYCLE, ticket[t].status, target)
       /\ noted' = [noted EXCEPT ![h] =
            [ticket |-> t, number |-> 0, seen |-> ticket[t].status, voice |-> "none",
             decided |-> target]]
  /\ Step(h, "read")
  /\ UNCHANGED <<sequence, ticket, thread>>

\* The status is written where the request changed it, over whatever the row
\* says by then; the message is added.
HandCommit(h) ==
  LET n == noted[h] IN
  /\ desk[h] = "read"
  /\ ticket' = IF n.decided = n.seen THEN ticket
                                     ELSE [ticket EXCEPT ![n.ticket].status = n.decided]
  /\ thread' = IF n.voice = "none" THEN thread
                                   ELSE [thread EXCEPT ![n.ticket] = @ \cup {<<n.voice, h>>}]
  /\ Step(h, "done")
  /\ UNCHANGED <<noted, sequence>>

HandFails(h) == desk[h] = "read" /\ DeskFails(h)

\* The requests, as routers/support.py serves them.
raise_ticket(r) == \/ NumberFirst(r) \/ NumberInsert(r) \/ NumberTaken(r)
                   \/ NumberNext(r) \/ RaiseTicket(r) \/ RaiseFails(r)
reply(h)        == ReplyRead(h) \/ (noted[h].voice # "none" /\ (HandCommit(h) \/ HandFails(h)))
decide(h)       == DecideRead(h) \/ (noted[h].voice = "none" /\ (HandCommit(h) \/ HandFails(h)))

DeskNext == \/ \E r \in Raisers : raise_ticket(r)
            \/ \E h \in Hands : reply(h) \/ decide(h)

DeskSpec == DeskInit /\ [][DeskNext]_deskVars

-----------------------------------------------------------------------------
TicketsOf(y) == {t \in Raisers : YearOf[t] = y /\ ticket[t].status # "NONE"}

\* numbers.py, "Gap-free within a year": the references on file are 1 to n,
\* each used once, whichever requests fail with a number in their hands.
ReferencesGapFree ==
  \A y \in Years :
    /\ {ticket[t].ref : t \in TicketsOf(y)} = 1..Cardinality(TicketsOf(y))
    /\ sequence[y] = IF TicketsOf(y) = {} THEN 0 ELSE Cardinality(TicketsOf(y)) + 1

\* domain/support.py, add_message: no ticket is shown as not read yet once
\* staff have answered it, whichever decisions and replies cross.
AnsweredIsNotUnread ==
  \A t \in Raisers : ticket[t].status = "OPEN" => \A m \in thread[t] : m[1] # "staff"

\* Both, whatever the database and the clients do meanwhile.
DeskHolds == ReferencesGapFree /\ AnsweredIsNotUnread

(* Why it is so: what the proofs in Office_proofs carry from step to step. *)

\* A number in a request's hands is the year's next, and only its holder has
\* it; a ticket is on file when its request is done.
NumbersExplained ==
  /\ \A r \in Raisers : ticket[r].status # "NONE" <=> desk[r] = "done"
  /\ \A r \in Raisers : desk[r] = "numbered" =>
       /\ SequenceHolders(YearOf[r]) = {r}
       /\ noted[r].number = Cardinality(TicketsOf(YearOf[r])) + 1

\* A ticket that somebody found past OPEN is past it for good, and what staff
\* answer or anybody decides does not leave it there.
HandsExplained ==
  \A h \in Hands : LET n == noted[h] IN desk[h] = "read" =>
    /\ n.ticket \in Raisers /\ ticket[n.ticket].status # "NONE"
    /\ n.seen # "OPEN" => ticket[n.ticket].status # "OPEN"
    /\ n.decided # n.seen => n.decided \notin {"OPEN", "NONE"}
    /\ n.voice = "staff" => n.decided # "OPEN"

\* The inductive invariant.
DeskInv == DeskTypeOK /\ NumbersExplained /\ HandsExplained /\ DeskHolds
=============================================================================
