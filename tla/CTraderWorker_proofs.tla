------------------------ MODULE CTraderWorker_proofs ------------------------
(***************************************************************************)
(* Proofs about CTraderWorker, for any number of instances, legs and       *)
(* troubles: types and, while the leases of running instances are renewed, *)
(* that one instance at a time runs a job, that no leg is sent while it is *)
(* live, that EXPIRED is written of a job with nothing at the broker and   *)
(* that the leases implement JobCustody.                                   *)
(***************************************************************************)
EXTENDS CTraderWorker, SequenceTheorems, TLAPS

\* The place of a start that goes on with a socket.
Connected == {"armed", "checking", "sending", "waiting", "recording"}
Places    == Starting \cup {"idle", "armed", "orphaned"}

\* What the proof needs of the types: the row and where the instances are.
Control ==
  /\ row \in Row
  /\ at \in [Worker -> Places]
  /\ up \in [Worker -> BOOLEAN]
  /\ doing \in [Worker -> SUBSET Handler]

\* A Runtime exists exactly from the end of the preparation on.
SocketOK(w) == /\ up[w] => at[w] \notin {"starting", "preparing"}
               /\ at[w] \in Connected => up[w]
Sockets     == \A w \in Worker : SocketOK(w)

\* Whoever runs a job that has not ended has its lease, and the lease is live.
LeaseOK(w) ==
  Holds(w) => /\ row.status # "SCHEDULED"
              /\ row.status \in Terminal \/ (row.owner = w /\ row.lease = "live")
Leased == \A w \in Worker : LeaseOK(w)

\* Who is about to give the lease up has let go of the job and taken it up no more.
ReleaseOK(w) ==
  "release" \in doing[w] => /\ row.status # "SCHEDULED" /\ ~Holds(w)
                            /\ row.status \in Terminal \/ row.lease = "live"
Released == \A w \in Worker : ReleaseOK(w)

CustodyInv == Control /\ Sockets /\ Leased /\ Released /\ Exclusive

-----------------------------------------------------------------------------
\* All steps but three leave the custody of the job alone: nobody starts to run
\* it, only who ran it begins to give it up, and while the job has not ended its
\* lease stays as it is.
RowKept ==
  /\ row.status # "SCHEDULED" => row'.status # "SCHEDULED"
  /\ row.status \in Terminal => row'.status \in Terminal
  /\ row'.status \in Terminal \/ (row'.owner = row.owner /\ row'.lease = row.lease)

NobodyTakes(w) ==
  /\ Holds(w)' => Holds(w)
  /\ "release" \in doing'[w] => "release" \in doing[w] \/ (Holds(w) /\ ~Holds(w)')

Tame == RowKept /\ \A w \in Worker : NobodyTakes(w)

LEMMA TameKeeps ==
  ASSUME CustodyInv, Tame, Control', Sockets'
  PROVE  CustodyInv'
<1>1. ASSUME NEW w \in Worker PROVE LeaseOK(w)'
  BY <1>1 DEF CustodyInv, Leased, LeaseOK, Tame, RowKept, NobodyTakes, Holds, Terminal
<1>2. ASSUME NEW w \in Worker PROVE ReleaseOK(w)'
  <2>1. CASE "release" \in doing[w]
    BY <2>1, <1>2 DEF CustodyInv, Released, ReleaseOK, Tame, RowKept, NobodyTakes, Holds
  <2>2. CASE Holds(w) /\ ~Holds(w)'
    BY <2>2, <1>2 DEF CustodyInv, Leased, LeaseOK, ReleaseOK, Tame, RowKept, Holds
  <2>3. QED
    BY <1>2, <2>1, <2>2 DEF Tame, NobodyTakes, ReleaseOK
<1>3. Exclusive'
  BY DEF CustodyInv, Exclusive, Tame, NobodyTakes, Holds
<1>4. QED
  BY <1>1, <1>2, <1>3 DEF CustodyInv, Leased, Released

-----------------------------------------------------------------------------
(* The helpers.                                                            *)

\* A conditional write that does not reopen a job.
LEMMA MovedKept ==
  ASSUME Control, NEW from, NEW to \in Status \ {"SCHEDULED"},
         row' = Moved(from, to), to \in Terminal \/ from \cap Terminal = {}
  PROVE  row' \in Row /\ RowKept
  BY DEF Control, Row, Moved, RowKept

LEMMA SameRow ==
  ASSUME Control, row' = row PROVE row' \in Row /\ RowKept
  BY DEF Control, RowKept

\* A handler that begins or ends, and does not begin to give the lease up.
LEMMA HandlerKept ==
  ASSUME Control, NEW w \in Worker, NEW h \in Handler,
         (h # "release" /\ Enter(w, h)) \/ Leave(w, h) \/ doing' = doing
  PROVE  /\ doing' \in [Worker -> SUBSET Handler]
         /\ \A v \in Worker : "release" \in doing'[v] => "release" \in doing[v]
  BY DEF Control, Enter, Leave

\* Moving on inside a start.
LEMMA PlaceKept ==
  ASSUME Control, Sockets, NEW w \in Worker, NEW place \in Places,
         Goes(w, place), up' = up,
         place \in {"starting", "preparing"} => at[w] \in {"starting", "preparing"},
         place \in Connected => up[w]
  PROVE  /\ at' \in [Worker -> Places] /\ up' \in [Worker -> BOOLEAN]
         /\ Sockets' /\ \A v \in Worker : Holds(v)' => Holds(v)
  BY DEF Control, Sockets, SocketOK, Goes, Holds, Connected

\* The Runtime is dropped; the start in flight falls back.
LEMMA UnwoundPlace ==
  ASSUME Control, NEW w \in Worker
  PROVE  /\ Unwound(w) \in Places \ Connected
         /\ Unwound(w) \in {"starting", "preparing"} => Unwound(w) = at[w]
  BY DEF Control, Unwound, Places, Starting, Connected

LEMMA DropKept ==
  ASSUME Control, Sockets, NEW w \in Worker, NEW place \in Places \ Connected,
         place \in {"starting", "preparing"} => place = at[w],
         up' = [up EXCEPT ![w] = FALSE], at' = [at EXCEPT ![w] = place]
  PROVE  /\ at' \in [Worker -> Places] /\ up' \in [Worker -> BOOLEAN]
         /\ Sockets' /\ \A v \in Worker : Holds(v)' => Holds(v)
  BY DEF Control, Sockets, SocketOK, Holds, Connected

LEMMA SamePlace ==
  ASSUME Control, Sockets, at' = at, up' = up
  PROVE  /\ at' \in [Worker -> Places] /\ up' \in [Worker -> BOOLEAN]
         /\ Sockets' /\ \A v \in Worker : Holds(v)' => Holds(v)
  BY DEF Control, Sockets, SocketOK, Holds

LEMMA FinishKept ==
  ASSUME Control, Sockets, NEW w \in Worker, finish(w)
  PROVE  /\ at' \in [Worker -> Places] /\ up' \in [Worker -> BOOLEAN]
         /\ Sockets' /\ \A v \in Worker : Holds(v)' => Holds(v)
<1>1. CASE up[w]
  BY <1>1, UnwoundPlace, DropKept DEF finish, Unplug
<1>2. CASE ~up[w]
  BY <1>2, SamePlace DEF finish
<1>3. QED
  BY <1>1, <1>2

\* Put together: the row, the places and the handlers.
LEMMA TameParts ==
  ASSUME Control,
         row' \in Row, RowKept,
         at' \in [Worker -> Places], up' \in [Worker -> BOOLEAN],
         \A v \in Worker : Holds(v)' => Holds(v),
         doing' \in [Worker -> SUBSET Handler],
         \A v \in Worker : "release" \in doing'[v] => "release" \in doing[v]
  PROVE  Control' /\ Tame
  BY DEF Control, Tame, NobodyTakes

\* The pieces of a step that another lemma gives.
Pieces ==
  /\ row' \in Row /\ RowKept
  /\ at' \in [Worker -> Places] /\ up' \in [Worker -> BOOLEAN] /\ Sockets'
  /\ \A v \in Worker : Holds(v)' => Holds(v)
  /\ doing' \in [Worker -> SUBSET Handler]
  /\ \A v \in Worker : "release" \in doing'[v] => "release" \in doing[v]

LEMMA PiecesTame ==
  ASSUME Control, Pieces PROVE Control' /\ Sockets' /\ Tame
  BY TameParts DEF Pieces

\* A start that fails goes idle and cancels what it knows.
LEMMA FailsKept ==
  ASSUME Control, Sockets, NEW w \in Worker, Fails(w), row' = row, up' = up
  PROVE  Pieces
<1>1. Enter(w, "reject") /\ Goes(w, "idle")
  BY DEF Fails, Cancelling
<1>2. "reject" \in Handler /\ "reject" # "release"
  BY DEF Handler
<1>3. "idle" \in Places /\ "idle" \notin Connected \cup {"starting", "preparing"}
  BY DEF Places, Connected
<1>4. QED
  BY <1>1, <1>2, <1>3, SameRow, PlaceKept, HandlerKept DEF Pieces

\* A step inside a start that only moves on.
LEMMA MovesOn ==
  ASSUME Control, Sockets, NEW w \in Worker, NEW place \in Places,
         Goes(w, place), up' = up, row' = row, doing' = doing,
         place \in {"starting", "preparing"} => at[w] \in {"starting", "preparing"},
         place \in Connected => up[w]
  PROVE  Pieces
  BY SameRow, PlaceKept, HandlerKept DEF Pieces, Handler

\* A step that leaves the row, the starts and the handlers of all instances alone.
LEMMA Aside ==
  ASSUME Control, Sockets, row' = row, at' = at, up' = up, doing' = doing
  PROVE  Pieces
<1>1. row' \in Row /\ RowKept
  BY SameRow
<1>2. QED
  BY <1>1, SamePlace DEF Pieces, Control

-----------------------------------------------------------------------------
(* start and place.                                                        *)

LEMMA StartTame ==
  ASSUME Control, Sockets, NEW w \in Worker, Start(w)
  PROVE  Pieces
<1>1. CASE StartRefused(w) \/ PreflightRefused(w)
  BY <1>1, FailsKept DEF StartRefused, PreflightRefused
<1>2. CASE Recover(w)
  <2>1. /\ at[w] = "starting" /\ row' = row /\ doing' = doing
        /\ at' = [at EXCEPT ![w] = "idle"] /\ up' = [up EXCEPT ![w] = TRUE]
    BY <1>2 DEF Recover, Goes
  <2>2. /\ at' \in [Worker -> Places] /\ up' \in [Worker -> BOOLEAN]
        /\ Sockets' /\ \A v \in Worker : Holds(v)' => Holds(v)
    BY <2>1 DEF Control, Sockets, SocketOK, Holds, Places, Connected
  <2>3. QED
    BY <2>1, <2>2, SameRow DEF Pieces, Control
<1>3. CASE CloseStale(w)
  <2>1. row' = Moved(Filled, "CLOSED") /\ Goes(w, "idle") /\ up' = up /\ doing' = doing
    BY <1>3 DEF CloseStale
  <2>2. row' \in Row /\ RowKept
    BY <2>1, MovedKept DEF Status, Terminal, Filled
  <2>3. "idle" \in Places /\ "idle" \notin Connected
    BY DEF Places, Connected
  <2>4. QED
    BY <2>1, <2>2, <2>3, PlaceKept DEF Pieces, Control
<1>4. CASE StartLost(w)
  BY <1>4, FailsKept DEF StartLost
<1>5. CASE Prepare(w)
  <2>1. at[w] = "starting" /\ "preparing" \in Places /\ "preparing" \notin Connected
    BY <1>5 DEF Prepare, Nothing, Places, Starting, Connected
  <2>2. QED
    BY <1>5, <2>1, MovesOn DEF Prepare
<1>6. CASE Ready(w)
  <2>1. PICK place \in {"armed", "checking"} :
          /\ at[w] = "preparing" /\ row' = row /\ doing' = doing
          /\ at' = [at EXCEPT ![w] = place] /\ up' = [up EXCEPT ![w] = TRUE]
    BY <1>6 DEF Ready, Goes
  <2>2. /\ at' \in [Worker -> Places] /\ up' \in [Worker -> BOOLEAN]
        /\ Sockets' /\ \A v \in Worker : Holds(v)' => Holds(v)
    BY <2>1 DEF Control, Sockets, SocketOK, Holds, Places, Starting, Connected
  <2>3. QED
    BY <2>1, <2>2, SameRow DEF Pieces, Control
<1>7. CASE Execute(w)
  <2>1. at[w] = "armed" /\ up[w] /\ "checking" \in Places
    BY <1>7 DEF Execute, Sockets, SocketOK, Connected, Places, Starting
  <2>2. QED
    BY <1>7, <2>1, MovesOn DEF Execute
<1>8. CASE Check(w)
  <2>1. at[w] = "checking" /\ up[w] /\ "sending" \in Places /\ row' = row /\ up' = up
    BY <1>8 DEF Check, Sockets, SocketOK, Connected, Places, Starting
  <2>2. CASE halted
    BY <1>8, <2>1, <2>2, FailsKept DEF Check
  <2>3. CASE ~halted
    BY <1>8, <2>1, <2>3, MovesOn DEF Check
  <2>4. QED
    BY <2>2, <2>3
<1>9. CASE Send(w)
  <2>1. at[w] = "sending" /\ up[w] /\ "waiting" \in Places /\ row' = row /\ up' = up
    BY <1>9 DEF Send, Sockets, SocketOK, Connected, Places, Starting
  <2>2. QED
    BY <1>9, <2>1, MovesOn DEF Send
<1>10. CASE Reply(w)
  <2>1. at[w] = "waiting" /\ up[w] /\ "recording" \in Places
    BY <1>10 DEF Reply, Sockets, SocketOK, Connected, Places, Starting
  <2>2. QED
    BY <1>10, <2>1, MovesOn DEF Reply
<1>11. CASE Record(w)
  <2>1. PICK place \in {"checking", "idle"} : Goes(w, place)
    BY <1>11 DEF Record
  <2>2. /\ at[w] = "recording" /\ up[w] /\ up' = up /\ doing' = doing
        /\ row' = Moved({"ARMED", "SUBMITTED"}, "SUBMITTED")
    BY <1>11 DEF Record, Sockets, SocketOK, Connected
  <2>3. row' \in Row /\ RowKept
    BY <2>2, MovedKept DEF Status, Terminal
  <2>4. place \in Places /\ place \notin {"starting", "preparing"}
    BY DEF Places, Starting
  <2>5. QED
    BY <2>1, <2>2, <2>3, <2>4, PlaceKept DEF Pieces, Control
<1>12. CASE Orphaned(w)
  <2>1. /\ Goes(w, "idle") /\ Enter(w, "reject") /\ row' = row /\ up' = up
    BY <1>12 DEF Orphaned
  <2>2. "idle" \in Places /\ "idle" \notin Connected /\ "reject" \in Handler
    BY DEF Places, Connected, Handler
  <2>3. QED
    BY <2>1, <2>2, SameRow, PlaceKept, HandlerKept DEF Pieces
<1>13. CASE SendRefused(w)
  BY <1>13, FailsKept DEF SendRefused
<1>14. QED
  BY <1>1, <1>2, <1>3, <1>4, <1>5, <1>6, <1>7, <1>8, <1>9, <1>10, <1>11, <1>12, <1>13 DEF Start

-----------------------------------------------------------------------------
(* Handlers: a message, an answer, a timer, the kill switch, a request.    *)

\* A handler begins, the row and the starts stay.
LEMMA BeginsKept ==
  ASSUME Control, Sockets, NEW w \in Worker, NEW h \in Handler \ {"release"},
         Enter(w, h), row' = row, at' = at, up' = up
  PROVE  Pieces
  BY SameRow, SamePlace, HandlerKept DEF Pieces

\* A handler ends with a write that ends the job, or leaves the row, and drops
\* the Runtime, or leaves it.
LEMMA EndsKept ==
  ASSUME Control, Sockets, NEW w \in Worker, NEW h \in Handler,
         Leave(w, h), row' \in Row, RowKept,
         finish(w) \/ UNCHANGED <<at, up>>
  PROVE  Pieces
<1>1. /\ at' \in [Worker -> Places] /\ up' \in [Worker -> BOOLEAN]
      /\ Sockets' /\ \A v \in Worker : Holds(v)' => Holds(v)
  BY FinishKept, SamePlace
<1>2. QED
  BY <1>1, HandlerKept DEF Pieces

LEMMA MessageTame ==
  ASSUME Control, Sockets, NEW w \in Worker,
         FillSeen(w) \/ FillDone(w) \/ CloseSeen(w) \/ CloseDone(w) \/ Answered(w)
  PROVE  Pieces
<1>1. CASE FillSeen(w) \/ CloseSeen(w) \/ Answered(w)
  BY <1>1, Aside DEF FillSeen, CloseSeen, Answered
<1>2. CASE FillDone(w)
  <2>1. /\ row' = Moved({"ARMED", "SUBMITTED", "PARTIALLY_FILLED"}, "FILLED")
        /\ at' = at /\ up' = up /\ doing' = doing
    BY <1>2 DEF FillDone
  <2>2. row' \in Row /\ RowKept
    BY <2>1, MovedKept DEF Status, Terminal
  <2>3. QED
    BY <2>1, <2>2, SamePlace DEF Pieces, Control
<1>3. CASE CloseDone(w)
  <2>1. /\ doing' = doing
        /\ \/ row' = Moved(Filled \cup {"CLOSED"}, "CLOSED") /\ finish(w)
           \/ row' = row /\ at' = at /\ up' = up
    BY <1>3 DEF CloseDone
  <2>2. CASE row' = Moved(Filled \cup {"CLOSED"}, "CLOSED") /\ finish(w)
    <3>1. row' \in Row /\ RowKept
      BY <2>2, MovedKept DEF Status, Terminal
    <3>2. QED
      BY <2>1, <2>2, <3>1, FinishKept DEF Pieces, Control
  <2>3. CASE row' = row /\ at' = at /\ up' = up
    BY <2>1, <2>3, Aside
  <2>4. QED
    BY <2>1, <2>2, <2>3
<1>4. QED
  BY <1>1, <1>2, <1>3

LEMMA HandlerTame ==
  ASSUME Control, Sockets, NEW w \in Worker,
         \/ ExpireBegin(w) \/ ExpireEnd(w) \/ KillBegin(w) \/ KillEnd(w)
         \/ UserBegin(w, "close") \/ UserBegin(w, "cancel")
         \/ UserCloseEnd(w) \/ UserCancelEnd(w) \/ RejectEnd(w)
  PROVE  Pieces
<1>1. CASE ExpireBegin(w) \/ UserBegin(w, "close") \/ UserBegin(w, "cancel")
  <2>1. PICK h \in {"expire", "close", "cancel"} :
          Enter(w, h) /\ row' = row /\ at' = at /\ up' = up
    BY <1>1 DEF ExpireBegin, UserBegin, Cancelling
  <2>2. h \in Handler \ {"release"}
    BY DEF Handler
  <2>3. QED
    BY <2>1, <2>2, BeginsKept
<1>2. CASE ExpireEnd(w)
  <2>1. /\ Leave(w, "expire") /\ "expire" \in Handler
        /\ finish(w) \/ UNCHANGED <<at, up>>
        /\ row' \in {Moved({"ARMED", "SUBMITTED"}, "EXPIRED"), Moved(Filled, "CLOSED"), row}
    BY <1>2 DEF ExpireEnd, Handler
  <2>2. row' \in Row /\ RowKept
    BY <2>1, MovedKept, SameRow DEF Status, Terminal
  <2>3. QED
    BY <2>1, <2>2, EndsKept
<1>3. CASE KillBegin(w)
  <2>1. PICK place \in {"idle", at[w]} : Goes(w, place)
    BY <1>3 DEF KillBegin
  <2>2. up[w] /\ Enter(w, "halt") /\ row' = row /\ up' = up
    BY <1>3 DEF KillBegin, Cancelling
  <2>3. "halt" \in Handler \ {"release"} /\ place \in Places /\ (place = "idle" \/ place = at[w])
    BY <2>1 DEF Handler, Places, Control
  <2>4. /\ at' \in [Worker -> Places] /\ up' \in [Worker -> BOOLEAN]
        /\ Sockets' /\ \A v \in Worker : Holds(v)' => Holds(v)
    BY <2>1, <2>2, <2>3, PlaceKept
  <2>5. QED
    BY <2>2, <2>3, <2>4, SameRow, HandlerKept DEF Pieces
<1>4. CASE KillEnd(w)
  <2>1. /\ Leave(w, "halt") /\ "halt" \in Handler
        /\ finish(w) \/ UNCHANGED <<at, up>>
        /\ \/ row' = row
           \/ row.status \in {"ARMED", "SUBMITTED"}
                /\ row' = Unleased(Moved({"ARMED", "SUBMITTED"}, "CANCELLED"))
    BY <1>4 DEF KillEnd, Handler
  <2>2. row' \in Row /\ RowKept
    <3>1. CASE row' = row
      BY <3>1, SameRow
    <3>2. CASE row.status \in {"ARMED", "SUBMITTED"}
                /\ row' = Unleased(Moved({"ARMED", "SUBMITTED"}, "CANCELLED"))
      BY <3>2 DEF Unleased, Moved, Row, RowKept, Control, Status, Terminal
    <3>3. QED
      BY <2>1, <3>1, <3>2
  <2>3. QED
    BY <2>1, <2>2, EndsKept
<1>5. CASE UserCloseEnd(w)
  <2>1. /\ Leave(w, "close") /\ "close" \in Handler /\ finish(w)
        /\ row' = [Unleased(row) EXCEPT !.status = "CLOSED", !.cancelAsked = FALSE,
                                        !.closeAsked = FALSE]
    BY <1>5 DEF UserCloseEnd, Handler
  <2>2. row' \in Row /\ RowKept
    BY <2>1 DEF Unleased, Row, RowKept, Control, Status, Terminal
  <2>3. QED
    BY <2>1, <2>2, EndsKept
<1>6. CASE UserCancelEnd(w)
  <2>1. /\ Leave(w, "cancel") /\ "cancel" \in Handler
        /\ finish(w) \/ UNCHANGED <<at, up>>
        /\ \/ row' = [Unleased(row) EXCEPT !.status = "CANCELLED", !.cancelAsked = FALSE]
           \/ row' = [row EXCEPT !.cancelAsked = FALSE]
    BY <1>6 DEF UserCancelEnd, Handler
  <2>2. row' \in Row /\ RowKept
    BY <2>1 DEF Unleased, Row, RowKept, Control, Status, Terminal
  <2>3. QED
    BY <2>1, <2>2, EndsKept
<1>7. CASE RejectEnd(w)
  <2>1. /\ Leave(w, "reject") /\ "reject" \in Handler /\ finish(w)
        /\ row' = Moved({"ARMED", "SUBMITTED"}, "REJECTED")
    BY <1>7 DEF RejectEnd, Handler
  <2>2. row' \in Row /\ RowKept
    BY <2>1, MovedKept DEF Status, Terminal
  <2>3. QED
    BY <2>1, <2>2, EndsKept
<1>8. QED
  BY <1>1, <1>2, <1>3, <1>4, <1>5, <1>6, <1>7

-----------------------------------------------------------------------------
(* Trouble.  A lost socket and a timeout begin to give the lease up.       *)

LEMMA LosesTame ==
  ASSUME Control, Sockets, NEW w \in Worker, Disconnect(w) \/ TimedOut(w)
  PROVE  Control' /\ Sockets' /\ Tame
<1>1. PICK place \in Places \ Connected :
        /\ at' = [at EXCEPT ![w] = place]
        /\ place \in {"starting", "preparing"} => place = at[w]
        /\ TimedOut(w) => place = "idle"
  <2>1. "idle" \in Places \ Connected
    BY DEF Places, Connected
  <2>2. QED
    BY <2>1, UnwoundPlace DEF Disconnect, TimedOut, Goes
<1>2. up' = [up EXCEPT ![w] = FALSE]
  BY DEF Disconnect, TimedOut, Unplug, Control
<1>3. Holds(w) /\ ~Holds(w)'
  <2>1. CASE Disconnect(w)
    <3>1. up[w] /\ at[w] \notin {"starting", "preparing"}
      BY <2>1 DEF Disconnect, Sockets, SocketOK
    <3>2. up'[w] = FALSE /\ at'[w] \notin {"starting", "preparing"}
      BY <1>1, <1>2, <3>1 DEF Control
    <3>3. QED
      BY <3>1, <3>2 DEF Holds
  <2>2. CASE TimedOut(w)
    <3>1. at[w] \in {"starting", "preparing"} \/ up[w]
      BY <2>2 DEF TimedOut, Sockets, SocketOK, Connected
    <3>2. up'[w] = FALSE /\ at'[w] = "idle"
      BY <1>1, <1>2, <2>2 DEF Control
    <3>3. QED
      BY <3>1, <3>2 DEF Holds
  <2>3. QED
    BY <2>1, <2>2
<1>4. /\ at' \in [Worker -> Places] /\ up' \in [Worker -> BOOLEAN]
      /\ Sockets' /\ \A v \in Worker : Holds(v)' => Holds(v)
  BY <1>1, <1>2, DropKept
<1>5. row' = row /\ doing' = [doing EXCEPT ![w] = @ \cup {"release"}]
  BY DEF Disconnect, TimedOut, Enter
<1>6. doing' \in [Worker -> SUBSET Handler]
  BY <1>5 DEF Control, Handler
<1>7. ASSUME NEW v \in Worker PROVE NobodyTakes(v)
  BY <1>3, <1>4, <1>5, <1>7 DEF NobodyTakes, Control
<1>8. QED
  BY <1>4, <1>5, <1>6, <1>7, SameRow DEF Control, Tame

LEMMA CrashTame ==
  ASSUME Control, Sockets, NEW w \in Worker, Crash(w)
  PROVE  Pieces
<1>1. /\ at' = [at EXCEPT ![w] = "idle"] /\ up' = [up EXCEPT ![w] = FALSE]
      /\ row' = row /\ doing' = [doing EXCEPT ![w] = {}]
  BY DEF Crash, Goes
<1>2. "idle" \in Places \ Connected
  BY DEF Places, Connected
<1>3. QED
  BY <1>1, <1>2, SameRow, DropKept DEF Pieces, Control

\* What the broker does on its own.
Brokered(l) == Accepts(l) \/ Refuses(l) \/ Fill(l) \/ Stopped(l) \/ BrokerExpires(l)

LEMMA OutsideTame ==
  ASSUME Control, Sockets,
         Tick \/ SetHalt \/ Ask \/ (\E l \in Leg : Brokered(l))
  PROVE  Pieces
<1>1. CASE Ask
  <2>1. at' = at /\ up' = up /\ doing' = doing
    BY <1>1 DEF Ask, Quiet
  <2>2. row' \in Row /\ RowKept
    BY <1>1 DEF Ask, Row, RowKept, Control, Status, Terminal, Active
  <2>3. QED
    BY <2>1, <2>2, SamePlace DEF Pieces, Control
<1>2. CASE Tick \/ SetHalt \/ (\E l \in Leg : Brokered(l))
  BY <1>2, Aside DEF Tick, SetHalt, Brokered, Accepts, Refuses, Fill, Stopped, BrokerExpires, Quiet
<1>3. QED
  BY <1>1, <1>2

-----------------------------------------------------------------------------
(* The three steps that change the custody of a job.                       *)

\* The claim finds a scheduled job, or one without a live lease: nobody runs it.
LEMMA ClaimFindsNobody ==
  ASSUME CustodyInv, NEW w \in Worker, tick(w)
  PROVE  row.status \notin Terminal /\ \A v \in Worker : ~Holds(v)
<1>1. /\ row.status \notin Terminal
      /\ row.status = "SCHEDULED" \/ row.lease # "live"
  BY DEF tick, Free, Running, Terminal
<1>2. QED
  BY <1>1 DEF CustodyInv, Leased, LeaseOK

LEMMA ClaimKeeps ==
  ASSUME CustodyInv, NEW w \in Worker, tick(w)
  PROVE  CustodyInv'
<1>1. row.status \notin Terminal /\ \A v \in Worker : ~Holds(v)
  BY ClaimFindsNobody
<1>2. /\ at' = [at EXCEPT ![w] = "starting"] /\ up' = up /\ doing' = doing /\ ~up[w]
      /\ row' = [row EXCEPT !.status = IF @ = "SCHEDULED" THEN "ARMED" ELSE @,
                            !.owner = w, !.lease = "live"]
  BY DEF tick, Goes
<1>3. /\ row.status \in Status /\ row' \in Row
      /\ row'.owner = w /\ row'.lease = "live"
      /\ row'.status = IF row.status = "SCHEDULED" THEN "ARMED" ELSE row.status
  BY <1>2 DEF CustodyInv, Control, Row, Status
<1>4. \A v \in Worker : Holds(v)' => v = w
  BY <1>1, <1>2 DEF Holds, CustodyInv, Control
<1>5. Control' /\ Sockets'
  BY <1>2, <1>3 DEF CustodyInv, Control, Sockets, SocketOK, Places, Starting, Connected
<1>6. Leased' /\ Exclusive'
  BY <1>3, <1>4 DEF Leased, LeaseOK, Exclusive
<1>7. \A v \in Worker : "release" \notin doing[v]
  BY <1>1 DEF tick, Free, Running, CustodyInv, Released, ReleaseOK
<1>8. Released'
  BY <1>2, <1>7 DEF Released, ReleaseOK
<1>9. QED
  BY <1>5, <1>6, <1>8 DEF CustodyInv

\* Only its owner gives a lease up, and has let go of the job before.
LEMMA ReleaseKeeps ==
  ASSUME CustodyInv, NEW w \in Worker, Release(w)
  PROVE  CustodyInv' /\ row'.status = row.status /\ \A v \in Worker : Holds(v)' <=> Holds(v)
<1>1. /\ "release" \in doing[w] /\ at' = at /\ up' = up
      /\ Leave(w, "release") /\ "release" \in Handler
  BY DEF Release, Leave, Handler
<1>2. ~Holds(w)
  BY <1>1 DEF CustodyInv, Released, ReleaseOK
<1>3. \/ row' = row
      \/ row.owner = w /\ row.status \in Running
           /\ row' = [row EXCEPT !.owner = None, !.lease = "live"]
  BY DEF Release, Owned
<1>4. /\ doing' \in [Worker -> SUBSET Handler]
      /\ \A v \in Worker : "release" \in doing'[v] => "release" \in doing[v]
  BY <1>1, HandlerKept DEF CustodyInv
<1>5. /\ row' \in Row /\ row'.status = row.status
      /\ row'.lease = row.lease \/ row'.lease = "live"
      /\ row' = row \/ (row.owner = w /\ row.status \notin Terminal)
  BY <1>3 DEF CustodyInv, Control, Row, Running, Terminal
<1>6. \A v \in Worker : Holds(v)' <=> Holds(v)
  BY <1>1 DEF Holds
<1>7. Control' /\ Sockets' /\ Exclusive'
  BY <1>1, <1>4, <1>5, <1>6 DEF CustodyInv, Control, Sockets, SocketOK, Exclusive
<1>8. ASSUME NEW v \in Worker PROVE LeaseOK(v)'
  BY <1>2, <1>5, <1>6, <1>8 DEF CustodyInv, Leased, LeaseOK
<1>9. ASSUME NEW v \in Worker PROVE ReleaseOK(v)'
  BY <1>4, <1>5, <1>6, <1>9 DEF CustodyInv, Released, ReleaseOK
<1>10. QED
  BY <1>5, <1>6, <1>7, <1>8, <1>9 DEF CustodyInv, Leased, Released

\* A lease is renewed while its owner runs the job; a database call is shorter.
RenewedInTime == ~LeasesLapse

LEMMA LapseKeeps ==
  ASSUME RenewedInTime, CustodyInv, LeaseLapses
  PROVE  CustodyInv' /\ row'.status = row.status /\ \A v \in Worker : Holds(v)' <=> Holds(v)
<1>1. /\ at' = at /\ up' = up /\ doing' = doing
      /\ row' = [row EXCEPT !.lease = "lapsed"]
  BY DEF LeaseLapses
<1>2. \A w \in Worker : (row.owner = w => ~Renews(w)) /\ doing[w] = {}
  BY DEF LeaseLapses, RenewedInTime
<1>3. row' \in Row /\ row'.status = row.status
  BY <1>1 DEF CustodyInv, Control, Row
<1>4. \A w \in Worker : Holds(w)' <=> Holds(w)
  BY <1>1 DEF Holds
<1>5. \A w \in Worker : Holds(w) => row.owner # w
  BY <1>2 DEF Holds, Renews
<1>6. Control' /\ Sockets' /\ Exclusive'
  BY <1>1, <1>3, <1>4 DEF CustodyInv, Control, Sockets, SocketOK, Exclusive
<1>7. Leased' /\ Released'
  BY <1>1, <1>2, <1>3, <1>4, <1>5 DEF CustodyInv, Leased, LeaseOK, Released, ReleaseOK
<1>8. QED
  BY <1>3, <1>4, <1>6, <1>7 DEF CustodyInv

-----------------------------------------------------------------------------
\* Every other step is tame.
Changes == \/ \E w \in Worker : tick(w) \/ Release(w)
           \/ LeaseLapses

LEMMA OthersTame ==
  ASSUME Control, Sockets, [Next]_vars, ~Changes
  PROVE  Control' /\ Sockets' /\ Tame
<1>1. CASE UNCHANGED vars
  BY <1>1, Aside, PiecesTame DEF vars
<1>2. ASSUME NEW w \in Worker,
             tick(w) \/ Start(w) \/ Handle(w) \/ Disconnect(w) \/ TimedOut(w) \/ Crash(w)
      PROVE  Control' /\ Sockets' /\ Tame
  <2>1. CASE Start(w)
    BY <2>1, StartTame, PiecesTame
  <2>2. CASE Handle(w)
    <3>1. \/ FillSeen(w) \/ FillDone(w) \/ CloseSeen(w) \/ CloseDone(w) \/ Answered(w)
          \/ ExpireBegin(w) \/ ExpireEnd(w) \/ KillBegin(w) \/ KillEnd(w)
          \/ UserBegin(w, "close") \/ UserBegin(w, "cancel")
          \/ UserCloseEnd(w) \/ UserCancelEnd(w) \/ RejectEnd(w)
      BY <2>2 DEF Handle, Changes
    <3>2. QED
      BY <3>1, MessageTame, HandlerTame, PiecesTame
  <2>3. CASE Disconnect(w) \/ TimedOut(w)
    BY <2>3, LosesTame
  <2>4. CASE Crash(w)
    BY <2>4, CrashTame, PiecesTame
  <2>5. QED
    BY <1>2, <2>1, <2>2, <2>3, <2>4 DEF Changes
<1>3. CASE Tick \/ SetHalt \/ Ask \/ (\E l \in Leg : Brokered(l))
  BY <1>3, OutsideTame, PiecesTame
<1>4. QED
  BY <1>1, <1>2, <1>3 DEF Next, Changes, Brokered

LEMMA CustodyStarts == Init => CustodyInv
  BY DEF Init, CustodyInv, Control, Row, Status, Places, Starting, Handler, Sockets, SocketOK,
         Connected, Leased, LeaseOK, Released, ReleaseOK, Exclusive, Holds

LEMMA CustodyKept ==
  ASSUME RenewedInTime, CustodyInv, [Next]_vars
  PROVE  CustodyInv'
<1>1. CASE Changes
  BY <1>1, ClaimKeeps, ReleaseKeeps, LapseKeeps DEF Changes
<1>2. CASE ~Changes
  BY <1>2, OthersTame, TameKeeps DEF CustodyInv
<1>3. QED
  BY <1>1, <1>2

\* While leases are renewed in time, two instances never run one job, however
\* many there are and whatever crashes, disconnects or is asked for.
THEOREM OneInstanceRuns ==
  ASSUME RenewedInTime PROVE Spec => []Exclusive
<1>1. CustodyInv /\ [Next]_vars => CustodyInv'
  BY CustodyKept
<1>2. CustodyInv => Exclusive
  BY DEF CustodyInv
<1>3. QED
  BY <1>1, <1>2, CustodyStarts, PTL DEF Spec

-----------------------------------------------------------------------------
(* The refinement.                                                         *)

LEMMA HolderIs ==
  ASSUME Exclusive, WorkerAssumption
  PROVE  /\ \A w \in Worker : Holds(w) => Holder = w
         /\ (\A w \in Worker : ~Holds(w)) => Holder = None
         /\ Holder # None => Holder \in Worker /\ Holds(Holder)
  BY DEF Exclusive, Holder, WorkerAssumption

LEMMA HolderIsNext ==
  ASSUME Exclusive', WorkerAssumption
  PROVE  /\ \A w \in Worker : Holds(w)' => Holder' = w
         /\ (\A w \in Worker : ~Holds(w)') => Holder' = None
         /\ Holder' # None => \E w \in Worker : Holds(w)' /\ Holder' = w
  BY DEF Exclusive, Holder, WorkerAssumption

\* Nobody takes the job and it is not reopened: it stays, is let go or ends.
LEMMA LettingGoRefines ==
  ASSUME WorkerAssumption, Exclusive, Exclusive',
         \A w \in Worker : Holds(w)' => Holds(w),
         row.status \in Terminal => row'.status \in Terminal
  PROVE  [Custody!Next]_(Custody!vars)
<1>1. Holder' = Holder \/ (Holder # None /\ Holder' = None)
  BY HolderIs, HolderIsNext
<1>2. Ended \in BOOLEAN /\ Ended' \in BOOLEAN /\ (Ended => Ended')
  BY DEF Ended
<1>3. CASE Holder' = Holder /\ Ended' = Ended
  BY <1>3 DEF Custody!vars
<1>4. CASE Holder' = Holder /\ Ended' # Ended
  <2>1. Ended' = TRUE
    BY <1>2, <1>4
  <2>2. Custody!End
    BY <1>4, <2>1 DEF Custody!End
  <2>3. QED
    BY <2>2 DEF Custody!Next
<1>5. CASE Holder # None /\ Holder' = None
  <2>1. Ended' \in {Ended, TRUE}
    BY <1>2
  <2>2. Custody!Drop
    BY <1>5, <2>1 DEF Custody!Drop
  <2>3. QED
    BY <2>2 DEF Custody!Next
<1>6. QED
  BY <1>1, <1>3, <1>4, <1>5

\* A claim takes a job nobody runs and that has not ended.
LEMMA ClaimRefines ==
  ASSUME WorkerAssumption, CustodyInv, CustodyInv', NEW w \in Worker, tick(w)
  PROVE  Custody!Next
<1>1. Holder = None /\ ~Ended
  BY ClaimFindsNobody, HolderIs DEF CustodyInv, Ended
<1>2. at'[w] = "starting"
  BY DEF tick, Goes, CustodyInv, Control
<1>3. Holder' = w
  BY <1>2, HolderIsNext DEF CustodyInv, Holds
<1>4. row'.status = IF row.status = "SCHEDULED" THEN "ARMED" ELSE row.status
  BY DEF tick, CustodyInv, Control, Row
<1>5. Ended' = Ended
  BY <1>1, <1>4 DEF Ended, Terminal
<1>6. Custody!Take(w)
  BY <1>1, <1>3, <1>5 DEF Custody!Take
<1>7. QED
  BY <1>6 DEF Custody!Next

LEMMA StepRefines ==
  ASSUME WorkerAssumption, RenewedInTime, CustodyInv, CustodyInv', [Next]_vars
  PROVE  [Custody!Next]_(Custody!vars)
<1>1. ASSUME NEW w \in Worker, tick(w) PROVE Custody!Next
  BY <1>1, ClaimRefines
<1>2. CASE (\E w \in Worker : Release(w)) \/ LeaseLapses
  <2>1. row'.status = row.status /\ \A v \in Worker : Holds(v)' <=> Holds(v)
    BY <1>2, ReleaseKeeps, LapseKeeps
  <2>2. QED
    BY <2>1, LettingGoRefines DEF CustodyInv
<1>3. CASE ~Changes
  <2>1. Tame
    BY <1>3, OthersTame DEF CustodyInv
  <2>2. QED
    BY <2>1, LettingGoRefines DEF CustodyInv, Tame, RowKept, NobodyTakes
<1>4. QED
  BY <1>1, <1>2, <1>3 DEF Changes

LEMMA InitRefines ==
  ASSUME WorkerAssumption, Init PROVE Custody!Init
<1>1. \A w \in Worker : ~Holds(w)
  BY DEF Init, Holds
<1>2. Holder = None
  BY <1>1 DEF Holder
<1>3. Ended = FALSE
  BY DEF Init, Ended, Terminal
<1>4. QED
  BY <1>2, <1>3 DEF Custody!Init

\* The leases and the conditional updates implement JobCustody: nobody or one
\* instance runs the job, and none once it has ended.
THEOREM LeasesKeepCustody ==
  ASSUME RenewedInTime PROVE Spec => RefinesCustody
<1>1. CustodyInv /\ [Next]_vars => CustodyInv'
  BY CustodyKept
<1>2. CustodyInv /\ CustodyInv' /\ [Next]_vars => [Custody!Next]_(Custody!vars)
  BY StepRefines, WorkerAssumption
<1>3. Init => Custody!Init
  BY InitRefines, WorkerAssumption
<1>4. QED
  BY <1>1, <1>2, <1>3, CustodyStarts, PTL DEF Spec, RefinesCustody, Custody!Spec

-----------------------------------------------------------------------------
(* Types.  Seven steps move a start on; every other step sends nothing and *)
(* brings no start nearer to a send.                                       *)

\* What TypeOK says beyond Control.
Surroundings ==
  /\ clock \in 0 .. 2 /\ halted \in BOOLEAN /\ mode \in Modes
  /\ order \in [AllLegs -> {"none", "sent", "pending", "open", "done"}]
  /\ doubled \in BOOLEAN
  /\ trouble \in 0 .. MaxTrouble

Recalls == mem \in [Worker -> Memory]

\* A start that does not move on, and keeps its leg if it does not end.
Steady(v) == \/ at'[v] \in {"idle", "orphaned", "starting"}
             \/ at'[v] = at[v] /\ mem'[v].leg = mem[v].leg

\* Nothing new is at the broker.
Withdraws == /\ mode' = mode /\ doubled' = doubled
             /\ \A l \in AllLegs : Live(l)' => Live(l)

\* A step that sends nothing and does not bring a start nearer to a send.
SendsNothing == /\ Surroundings' /\ Recalls' /\ Withdraws
                /\ \A v \in Worker : Steady(v)

-----------------------------------------------------------------------------
(* What an instance remembers.                                             *)

LEMMA Remembered ==
  ASSUME Recalls, NEW w \in Worker
  PROVE  /\ mem[w] \in Memory
         /\ mem[w].leg \in AllLegs /\ mem[w].known \in SUBSET AllLegs
         /\ mem[w].open \in SUBSET AllLegs /\ mem[w].closing \in SUBSET AllLegs
         /\ mem[w].adding \in SUBSET (AllLegs \X {"first", "more", "late"})
         /\ mem[w].inbox \in Seq(Message)
  BY DEF Recalls, Memory

\* mem changes in one instance, whose leg stays.
LEMMA MemoryKept ==
  ASSUME Recalls, NEW w \in Worker, NEW m \in Memory, m.leg = mem[w].leg,
         mem' = [mem EXCEPT ![w] = m]
  PROVE  Recalls' /\ \A v \in Worker : mem'[v].leg = mem[v].leg
  BY DEF Recalls

LEMMA MessageTaken ==
  ASSUME Recalls, NEW w \in Worker, mem[w].inbox # <<>>
  PROVE  /\ Head(mem[w].inbox) \in Message /\ Tail(mem[w].inbox) \in Seq(Message)
         /\ Head(mem[w].inbox)[1] # "reply" => Head(mem[w].inbox)[2] \in AllLegs
<1>1. Head(mem[w].inbox) \in Message /\ Tail(mem[w].inbox) \in Seq(Message)
  BY Remembered, HeadTailProperties
<1>2. QED
  BY <1>1 DEF Message

LEMMA CancellingRecalls ==
  ASSUME Recalls, NEW w \in Worker, NEW h \in Handler, Cancelling(w, h)
  PROVE  Recalls' /\ \A v \in Worker : mem'[v].leg = mem[v].leg
<1>1. mem[w] \in Memory /\ <<"reply", h>> \in Message
  BY Remembered DEF Message
<1>2. Append(mem[w].inbox, <<"reply", h>>) \in Seq(Message)
  BY <1>1 DEF Memory
<1>3. QED
  BY <1>1, <1>2 DEF Cancelling, Memory, Recalls

LEMMA UnplugRecalls ==
  ASSUME Recalls, NEW w \in Worker, Unplug(w)
  PROVE  Recalls' /\ \A v \in Worker : mem'[v].leg = mem[v].leg
<1>1. mem[w] \in Memory
  BY Remembered
<1>2. {<<a[1], "late">> : a \in mem[w].adding} \subseteq AllLegs \X {"first", "more", "late"}
  BY Remembered
<1>3. <<>> \in Seq(Message)
  BY EmptySeq
<1>4. QED
  BY <1>1, <1>2, <1>3 DEF Unplug, Memory, Recalls

LEMMA FinishSteady ==
  ASSUME Control, Recalls, NEW w \in Worker, finish(w)
  PROVE  Recalls' /\ \A v \in Worker : Steady(v)
<1>1. CASE up[w]
  <2>1. Recalls' /\ \A v \in Worker : mem'[v].leg = mem[v].leg
    BY <1>1, UnplugRecalls DEF finish
  <2>2. at' = [at EXCEPT ![w] = Unwound(w)]
    BY <1>1 DEF finish
  <2>3. Unwound(w) \in {"idle", "orphaned", "starting", at[w]}
    BY DEF Unwound
  <2>4. QED
    BY <2>1, <2>2, <2>3 DEF Steady, Control
<1>2. CASE ~up[w]
  BY <1>2 DEF finish, Steady, Recalls
<1>3. QED
  BY <1>1, <1>2

LEMMA CancelWithdraws ==
  ASSUME Surroundings, NEW legs, CancelOrders(legs), mode' = mode
  PROVE  /\ order' \in [AllLegs -> {"none", "sent", "pending", "open", "done"}]
         /\ doubled' \in BOOLEAN /\ Withdraws
  BY DEF Surroundings, CancelOrders, Withdraws, Live

LEMMA FailsSteady ==
  ASSUME Control, Surroundings, Recalls, NEW w \in Worker, Fails(w), Calm \/ (Trouble /\ Still)
  PROVE  SendsNothing
<1>1. Recalls'
  BY CancellingRecalls DEF Fails, Handler
<1>2. \A v \in Worker : Steady(v)
  BY CancellingRecalls DEF Fails, Goes, Handler, Steady, Control
<1>3. /\ order' \in [AllLegs -> {"none", "sent", "pending", "open", "done"}]
      /\ doubled' \in BOOLEAN /\ Withdraws
  BY CancelWithdraws DEF Fails, Cancelling, Calm, Still
<1>4. QED
  BY <1>1, <1>2, <1>3, WorkerAssumption DEF SendsNothing, Surroundings, Calm, Still, Trouble

\* A handler that cancels orders, the start left alone.
LEMMA CancelsSteady ==
  ASSUME Control, Surroundings, Recalls, NEW w \in Worker, NEW h \in Handler,
         Cancelling(w, h), Calm, at' = at
  PROVE  SendsNothing
<1>1. Recalls' /\ \A v \in Worker : Steady(v)
  BY CancellingRecalls DEF Steady
<1>3. /\ order' \in [AllLegs -> {"none", "sent", "pending", "open", "done"}]
      /\ doubled' \in BOOLEAN /\ Withdraws
  BY CancelWithdraws DEF Cancelling, Calm, Still
<1>4. QED
  BY <1>1, <1>3 DEF SendsNothing, Surroundings, Calm, Still

\* The account stays, and so does the rest but for the memory and the starts.
LEMMA CalmKept ==
  ASSUME Surroundings, Calm \/ (Trouble /\ Still), account' = account
  PROVE  Surroundings' /\ Withdraws
  BY WorkerAssumption DEF Surroundings, Calm, Still, Trouble, account, Withdraws, Live

\* The surroundings stay, and with them the broker's side.
LEMMA Assembled ==
  ASSUME Surroundings, Calm \/ (Trouble /\ Still), account' = account, Recalls',
         \A v \in Worker : Steady(v)
  PROVE  SendsNothing
  BY CalmKept DEF SendsNothing

\* A start that ends, or is where it was; the memory of its instance is replaced.
LEMMA Replaced ==
  ASSUME Control, Recalls, NEW w \in Worker, NEW m \in Memory,
         mem' = [mem EXCEPT ![w] = m],
         \/ at' = at /\ m.leg = mem[w].leg
         \/ \E place \in {"idle", "orphaned", "starting"} : Goes(w, place)
  PROVE  Recalls' /\ \A v \in Worker : Steady(v)
  BY DEF Recalls, Steady, Goes, Control

LEMMA StartSendsNothing ==
  ASSUME Control, Surroundings, Recalls, NEW w \in Worker,
         \/ tick(w) \/ StartRefused(w) \/ PreflightRefused(w) \/ SendRefused(w)
         \/ Recover(w) \/ CloseStale(w) \/ StartLost(w) \/ Orphaned(w)
  PROVE  SendsNothing
<1>m. mem[w] \in Memory
  BY Remembered
<1>1. CASE tick(w)
  <2>1. [mem[w] EXCEPT !.snap = row.status] \in Memory
    BY <1>m DEF Memory, Control, Row
  <2>2. mem' = [mem EXCEPT ![w] = [mem[w] EXCEPT !.snap = row.status]]
    BY <1>1 DEF tick
  <2>3. Recalls' /\ \A v \in Worker : Steady(v)
    BY <1>1, <2>1, <2>2, Replaced DEF tick
  <2>4. QED
    BY <1>1, <2>3, Assembled DEF tick
<1>2. CASE StartRefused(w)
  <2>1. Fails(w) /\ Still /\ (trouble' = trouble \/ Trouble)
    BY <1>2 DEF StartRefused
  <2>2. QED
    BY <2>1, FailsSteady DEF Calm
<1>3. CASE PreflightRefused(w) \/ SendRefused(w)
  BY <1>3, FailsSteady DEF PreflightRefused, SendRefused
<1>4. CASE Recover(w)
  <2> DEFINE m == [mem[w] EXCEPT !.timer = TRUE, !.haltDone = FALSE,
                     !.known = {l \in Found : order[l] = "pending"},
                     !.open = {l \in Found : order[l] = "open"},
                     !.filled = \E l \in Found : order[l] = "open"]
  <2>1. Found \subseteq AllLegs
    BY WorkerAssumption DEF Found, Leg, AllLegs
  <2>2. m \in Memory
    BY <1>m, <2>1 DEF Memory
  <2>3. mem' = [mem EXCEPT ![w] = m] /\ Goes(w, "idle")
    BY <1>4 DEF Recover
  <2>4. Recalls' /\ \A v \in Worker : Steady(v)
    BY <2>2, <2>3, Replaced
  <2>5. QED
    BY <1>4, <2>4, Assembled DEF Recover
<1>5. CASE CloseStale(w)
  <2>1. Goes(w, "idle") /\ mem' = [mem EXCEPT ![w] = mem[w]]
    BY <1>5 DEF CloseStale, Recalls
  <2>2. Recalls' /\ \A v \in Worker : Steady(v)
    BY <1>m, <2>1, Replaced
  <2>3. QED
    BY <1>5, <2>2, Assembled DEF CloseStale
<1>6. CASE StartLost(w)
  BY <1>6, FailsSteady DEF StartLost
<1>7. CASE Orphaned(w)
  <2>1. Goes(w, "idle") /\ mem' = [mem EXCEPT ![w] = mem[w]]
    BY <1>7 DEF Orphaned, Recalls
  <2>2. Recalls' /\ \A v \in Worker : Steady(v)
    BY <1>m, <2>1, Replaced
  <2>3. QED
    BY <1>7, <2>2, Assembled DEF Orphaned
<1>8. QED
  BY <1>1, <1>2, <1>3, <1>4, <1>5, <1>6, <1>7

LEMMA MessageSendsNothing ==
  ASSUME Control, Surroundings, Recalls, NEW w \in Worker,
         FillSeen(w) \/ FillDone(w) \/ CloseSeen(w) \/ CloseDone(w) \/ Answered(w)
  PROVE  SendsNothing
<1>m. mem[w] \in Memory
  BY Remembered
<1>0. /\ mem[w].known \in SUBSET AllLegs
      /\ mem[w].open \in SUBSET AllLegs /\ mem[w].closing \in SUBSET AllLegs
      /\ mem[w].adding \in SUBSET (AllLegs \X {"first", "more", "late"})
      /\ mem[w].inbox \in Seq(Message)
  BY Remembered
<1>1. CASE FillSeen(w)
  <2> DEFINE a == <<Head(mem[w].inbox)[2], IF mem[w].filled THEN "more" ELSE "first">>
             m == [mem[w] EXCEPT !.inbox = Tail(@), !.filled = TRUE, !.adding = @ \cup {a}]
  <2>1. mem[w].inbox # <<>> /\ Head(mem[w].inbox)[1] = "fill"
    BY <1>1 DEF FillSeen, Takes
  <2>2. Tail(mem[w].inbox) \in Seq(Message) /\ a \in AllLegs \X {"first", "more", "late"}
    BY <2>1, MessageTaken
  <2>3. m \in Memory /\ m.leg = mem[w].leg
    BY <1>m, <1>0, <2>2 DEF Memory
  <2>4. mem' = [mem EXCEPT ![w] = m] /\ at' = at
    BY <1>1 DEF FillSeen
  <2>5. Recalls' /\ \A v \in Worker : Steady(v)
    BY <2>3, <2>4, Replaced
  <2>6. QED
    BY <1>1, <2>5, Assembled DEF FillSeen
<1>2. CASE FillDone(w)
  <2>1. PICK a \in mem[w].adding :
          \/ /\ mem' = [mem EXCEPT ![w].adding = @ \ {a}]
             /\ UNCHANGED account
          \/ /\ mem' = [mem EXCEPT ![w].adding = @ \ {a}, ![w].open = @ \cup {a[1]}]
             /\ CancelOrders(IF a[2] = "first" THEN Sibling(w, a[1]) ELSE {})
    BY <1>2 DEF FillDone
  <2>2. PICK m \in Memory : m.leg = mem[w].leg /\ mem' = [mem EXCEPT ![w] = m]
    <3>1. CASE mem' = [mem EXCEPT ![w].adding = @ \ {a}]
      <4>1. [mem[w] EXCEPT !.adding = @ \ {a}] \in Memory
        BY <1>m, <1>0 DEF Memory
      <4>2. QED
        BY <3>1, <4>1 DEF Recalls, Memory
    <3>2. CASE mem' = [mem EXCEPT ![w].adding = @ \ {a}, ![w].open = @ \cup {a[1]}]
      <4>1. a[1] \in AllLegs
        BY <1>0
      <4>2. [mem[w] EXCEPT !.adding = @ \ {a}, !.open = @ \cup {a[1]}] \in Memory
        BY <1>m, <1>0, <4>1 DEF Memory
      <4>3. QED
        BY <3>2, <4>2 DEF Recalls, Memory
    <3>3. QED
      BY <2>1, <3>1, <3>2
  <2>3. at' = at /\ Calm
    BY <1>2 DEF FillDone
  <2>4. Recalls' /\ \A v \in Worker : Steady(v)
    BY <2>2, <2>3, Replaced
  <2>5. Surroundings' /\ Withdraws
    <3>1. CASE UNCHANGED account
      BY <3>1, <2>3, CalmKept
    <3>2. CASE CancelOrders(IF a[2] = "first" THEN Sibling(w, a[1]) ELSE {})
      BY <3>2, <2>3, CancelWithdraws DEF Surroundings, Calm, Still
    <3>3. QED
      BY <2>1, <3>1, <3>2
  <2>6. QED
    BY <2>4, <2>5 DEF SendsNothing
<1>3. CASE CloseSeen(w)
  <2> DEFINE l == Head(mem[w].inbox)[2]
             m == [mem[w] EXCEPT !.inbox = Tail(@), !.open = @ \ {l}, !.closing = @ \cup {l}]
  <2>1. mem[w].inbox # <<>> /\ Head(mem[w].inbox)[1] = "close"
    BY <1>3 DEF CloseSeen, Takes
  <2>2. Tail(mem[w].inbox) \in Seq(Message) /\ l \in AllLegs
    BY <2>1, MessageTaken
  <2>3. m \in Memory /\ m.leg = mem[w].leg
    BY <1>m, <1>0, <2>2 DEF Memory
  <2>4. mem' = [mem EXCEPT ![w] = m] /\ at' = at
    BY <1>3 DEF CloseSeen
  <2>5. Recalls' /\ \A v \in Worker : Steady(v)
    BY <2>3, <2>4, Replaced
  <2>6. QED
    BY <1>3, <2>5, Assembled DEF CloseSeen
<1>4. CASE CloseDone(w)
  <2>1. PICK l \in mem[w].closing :
          finish(w) \/ (mem' = [mem EXCEPT ![w].closing = @ \ {l}] /\ at' = at)
    BY <1>4 DEF CloseDone
  <2>2. Recalls' /\ \A v \in Worker : Steady(v)
    <3>1. CASE finish(w)
      BY <3>1, FinishSteady
    <3>2. CASE mem' = [mem EXCEPT ![w].closing = @ \ {l}] /\ at' = at
      <4>1. [mem[w] EXCEPT !.closing = @ \ {l}] \in Memory
        BY <1>m, <1>0 DEF Memory
      <4>2. mem' = [mem EXCEPT ![w] = [mem[w] EXCEPT !.closing = @ \ {l}]]
        BY <3>2
      <4>3. [mem[w] EXCEPT !.closing = @ \ {l}].leg = mem[w].leg
        BY <1>m DEF Memory
      <4>4. QED
        BY <3>2, <4>1, <4>2, <4>3, Replaced
    <3>3. QED
      BY <2>1, <3>1, <3>2
  <2>3. QED
    BY <1>4, <2>2, Assembled DEF CloseDone
<1>5. CASE Answered(w)
  <2>1. mem' = [mem EXCEPT ![w] = [mem[w] EXCEPT !.inbox = Tail(@)]] /\ at' = at
    BY <1>5 DEF Answered
  <2>2. Tail(mem[w].inbox) \in Seq(Message)
    BY <1>5, MessageTaken DEF Answered
  <2>3. /\ [mem[w] EXCEPT !.inbox = Tail(@)] \in Memory
        /\ [mem[w] EXCEPT !.inbox = Tail(@)].leg = mem[w].leg
    BY <1>m, <2>2 DEF Memory
  <2>4. Recalls' /\ \A v \in Worker : Steady(v)
    BY <2>1, <2>3, Replaced
  <2>5. QED
    BY <1>5, <2>4, Assembled DEF Answered
<1>6. QED
  BY <1>1, <1>2, <1>3, <1>4, <1>5

\* A handler ends: it gives the Runtime back, or leaves it, or forgets its orders.
LEMMA EndsSteady ==
  ASSUME Control, Recalls, NEW w \in Worker,
         \/ finish(w)
         \/ UNCHANGED <<at, mem>>
         \/ mem' = [mem EXCEPT ![w].known = {}] /\ at' = at
  PROVE  Recalls' /\ \A v \in Worker : Steady(v)
<1>1. CASE finish(w)
  BY <1>1, FinishSteady
<1>2. CASE UNCHANGED <<at, mem>>
  BY <1>2 DEF Recalls, Steady
<1>3. CASE mem' = [mem EXCEPT ![w].known = {}] /\ at' = at
  <2>1. mem[w] \in Memory
    BY Remembered
  <2>2. /\ [mem[w] EXCEPT !.known = {}] \in Memory
        /\ [mem[w] EXCEPT !.known = {}].leg = mem[w].leg
    BY <2>1 DEF Memory
  <2>3. mem' = [mem EXCEPT ![w] = [mem[w] EXCEPT !.known = {}]]
    BY <1>3
  <2>4. QED
    BY <1>3, <2>2, <2>3, Replaced
<1>4. QED
  BY <1>1, <1>2, <1>3

LEMMA HandlerSendsNothing ==
  ASSUME Control, Surroundings, Recalls, NEW w \in Worker,
         \/ ExpireBegin(w) \/ ExpireEnd(w) \/ KillBegin(w) \/ KillEnd(w)
         \/ UserBegin(w, "close") \/ UserBegin(w, "cancel")
         \/ UserCloseEnd(w) \/ UserCancelEnd(w) \/ RejectEnd(w) \/ Release(w)
  PROVE  SendsNothing
<1>1. CASE ExpireBegin(w) \/ UserBegin(w, "close") \/ UserBegin(w, "cancel")
  <2>1. PICK h \in {"expire", "close", "cancel"} : Cancelling(w, h) /\ Calm /\ at' = at
    BY <1>1 DEF ExpireBegin, UserBegin
  <2>2. h \in Handler
    BY DEF Handler
  <2>3. QED
    BY <2>1, <2>2, CancelsSteady
<1>2. CASE ExpireEnd(w)
  BY <1>2, EndsSteady, Assembled DEF ExpireEnd
<1>3. CASE KillBegin(w)
  <2>1. /\ Cancelling(w, "halt") /\ "halt" \in Handler /\ Calm
        /\ \/ Goes(w, "idle")
           \/ Goes(w, at[w])
    BY <1>3 DEF KillBegin, Handler
  <2>2. Recalls' /\ \A v \in Worker : mem'[v].leg = mem[v].leg
    BY <2>1, CancellingRecalls
  <2>3. \A v \in Worker : Steady(v)
    BY <2>1, <2>2 DEF Steady, Goes, Control
  <2>4. /\ order' \in [AllLegs -> {"none", "sent", "pending", "open", "done"}]
        /\ doubled' \in BOOLEAN /\ Withdraws
    BY <2>1, CancelWithdraws DEF Cancelling, Calm, Still
  <2>5. QED
    BY <2>1, <2>2, <2>3, <2>4 DEF SendsNothing, Surroundings, Calm, Still
<1>4. CASE KillEnd(w)
  BY <1>4, EndsSteady, Assembled DEF KillEnd
<1>5. CASE UserCloseEnd(w)
  <2>1. Recalls' /\ \A v \in Worker : Steady(v)
    BY <1>5, EndsSteady DEF UserCloseEnd
  <2>2. /\ \E S \in SUBSET AllLegs : order' = [l \in AllLegs |-> IF l \in S THEN "done" ELSE order[l]]
        /\ doubled' = doubled /\ Calm
    BY <1>5 DEF UserCloseEnd
  <2>3. order' \in [AllLegs -> {"none", "sent", "pending", "open", "done"}]
    BY <2>2 DEF Surroundings
  <2>4. Withdraws
    BY <2>2 DEF Withdraws, Live, Calm, Still
  <2>5. QED
    BY <2>1, <2>2, <2>3, <2>4 DEF SendsNothing, Surroundings, Calm, Still
<1>6. CASE UserCancelEnd(w)
  BY <1>6, EndsSteady, Assembled DEF UserCancelEnd
<1>7. CASE RejectEnd(w)
  BY <1>7, EndsSteady, Assembled DEF RejectEnd
<1>8. CASE Release(w)
  BY <1>8, EndsSteady, Assembled DEF Release
<1>9. QED
  BY <1>1, <1>2, <1>3, <1>4, <1>5, <1>6, <1>7, <1>8

LEMMA BlankRemembers == Blank \in Memory
<1>1. <<>> \in Seq(Message)
  BY EmptySeq
<1>2. 1 \in AllLegs /\ "SCHEDULED" \in Status
  BY WorkerAssumption DEF AllLegs, Status
<1>3. QED
  BY <1>1, <1>2 DEF Blank, Memory

LEMMA LosesSendNothing ==
  ASSUME Control, Sockets, Surroundings, Recalls, NEW w \in Worker,
         Disconnect(w) \/ TimedOut(w) \/ Crash(w)
  PROVE  SendsNothing
<1>1. CASE Disconnect(w)
  <2>1. Recalls' /\ \A v \in Worker : mem'[v].leg = mem[v].leg
    BY <1>1, UnplugRecalls DEF Disconnect
  <2>2. PICK place \in {"idle", "orphaned", "starting"} : Goes(w, place)
    <3>1. up[w] /\ at[w] \notin {"starting", "preparing"}
      BY <1>1 DEF Disconnect, Sockets, SocketOK
    <3>2. QED
      BY <1>1, <3>1 DEF Disconnect, Unwound
  <2>3. \A v \in Worker : Steady(v)
    BY <2>1, <2>2 DEF Steady, Goes, Control
  <2>4. QED
    BY <1>1, <2>1, <2>3, Assembled DEF Disconnect
<1>2. CASE TimedOut(w)
  <2>1. Recalls' /\ \A v \in Worker : mem'[v].leg = mem[v].leg
    BY <1>2, UnplugRecalls DEF TimedOut, Recalls
  <2>2. \A v \in Worker : Steady(v)
    BY <1>2, <2>1 DEF TimedOut, Steady, Goes, Control
  <2>3. QED
    BY <1>2, <2>1, <2>2, Assembled DEF TimedOut
<1>3. CASE Crash(w)
  <2>1. Recalls' /\ \A v \in Worker : Steady(v)
    BY <1>3, BlankRemembers, Replaced DEF Crash
  <2>2. QED
    BY <1>3, <2>1, Assembled DEF Crash
<1>4. QED
  BY <1>1, <1>2, <1>3

LEMMA ToldRecalls ==
  ASSUME Recalls, NEW kind \in {"fill", "close"}, NEW l \in AllLegs, Told(kind, l)
  PROVE  Recalls' /\ \A v \in Worker : mem'[v].leg = mem[v].leg
<1>1. ASSUME NEW v \in Worker PROVE mem'[v] \in Memory /\ mem'[v].leg = mem[v].leg
  <2>1. mem[v] \in Memory /\ mem[v].inbox \in Seq(Message)
    BY Remembered
  <2>2. <<kind, l>> \in Message
    BY DEF Message
  <2>3. Append(mem[v].inbox, <<kind, l>>) \in Seq(Message)
    BY <2>1, <2>2
  <2>4. mem'[v] = IF up[v] THEN [mem[v] EXCEPT !.inbox = Append(@, <<kind, l>>)] ELSE mem[v]
    BY DEF Told
  <2>5. QED
    BY <2>1, <2>3, <2>4 DEF Memory
<1>2. mem' = [v \in Worker |-> mem'[v]]
  BY DEF Told
<1>3. QED
  BY <1>1, <1>2 DEF Recalls

LEMMA OutsideSendsNothing ==
  ASSUME Surroundings, Recalls, 
         \/ Tick \/ SetHalt \/ Ask \/ LeaseLapses \/ UNCHANGED vars
         \/ \E l \in Leg : Brokered(l)
  PROVE  SendsNothing
<1>1. CASE Ask \/ LeaseLapses
  BY <1>1, Assembled DEF Ask, LeaseLapses, Quiet, Steady, Recalls
<1>2. CASE Tick \/ SetHalt \/ UNCHANGED vars
  <2>1. /\ mode' = mode /\ account' = account /\ at' = at /\ mem' = mem
        /\ clock' \in 0 .. 2 /\ halted' \in BOOLEAN /\ trouble' \in 0 .. MaxTrouble
    <3>1. CASE Tick
      BY <3>1 DEF Tick, Quiet, Surroundings
    <3>2. CASE SetHalt
      <4>1. /\ mode' = mode /\ account' = account /\ at' = at /\ mem' = mem
            /\ clock' = clock /\ halted' \in BOOLEAN
        BY <3>2 DEF SetHalt, Quiet
      <4>2. trouble' \in 0 .. MaxTrouble
        BY <3>2, WorkerAssumption DEF SetHalt, Trouble, Surroundings
      <4>3. QED
        BY <4>1, <4>2 DEF Surroundings
    <3>3. CASE UNCHANGED vars
      BY <3>3 DEF vars, env, Surroundings
    <3>4. QED
      BY <1>2, <3>1, <3>2, <3>3
  <2>2. Surroundings' /\ Withdraws
    BY <2>1 DEF Surroundings, Withdraws, account, Live
  <2>3. QED
    BY <2>1, <2>2 DEF SendsNothing, Recalls, Steady
<1>3. ASSUME NEW l \in Leg, Brokered(l) PROVE SendsNothing
  <2>1. l \in AllLegs
    BY WorkerAssumption DEF Leg, AllLegs
  <2>2. Recalls' /\ \A v \in Worker : mem'[v].leg = mem[v].leg
    BY <1>3, <2>1, ToldRecalls DEF Brokered, Accepts, Refuses, Fill, Stopped, BrokerExpires, Recalls
  <2>3. Still /\ Quiet /\ doubled' = doubled /\ (trouble' = trouble \/ Trouble)
    BY <1>3 DEF Brokered, Accepts, Refuses, Fill, Stopped, BrokerExpires, Calm
  <2>4. /\ order' \in [AllLegs -> {"none", "sent", "pending", "open", "done"}]
        /\ \A k \in AllLegs : Live(k)' => Live(k)
    BY <1>3, <2>1 DEF Brokered, Accepts, Refuses, Fill, Stopped, BrokerExpires, Surroundings, Live
  <2>5. trouble' \in 0 .. MaxTrouble
    BY <2>3, WorkerAssumption DEF Surroundings, Trouble
  <2>6. QED
    BY <2>2, <2>3, <2>4, <2>5 DEF SendsNothing, Surroundings, Still, Quiet, Steady, Withdraws
<1>4. QED
  BY <1>1, <1>2, <1>3

-----------------------------------------------------------------------------
(* A start that moves on.                                                  *)

Moves(w) == \/ Prepare(w) \/ Ready(w) \/ Execute(w) \/ (Check(w) /\ ~halted)
            \/ Send(w) \/ Reply(w) \/ Record(w)

LEMMA LegChosen ==
  ASSUME NEW l \in AllLegs PROVE Leg \subseteq AllLegs /\ Onward(l) \in AllLegs
  BY WorkerAssumption DEF Leg, AllLegs, Onward

LEMMA MovesTyped ==
  ASSUME Surroundings, Recalls, NEW w \in Worker, Moves(w)
  PROVE  Surroundings' /\ Recalls' /\ mode' = mode
<1>m. /\ mem[w] \in Memory /\ mem[w].leg \in AllLegs
      /\ mem[w].known \in SUBSET AllLegs
  BY Remembered
<1>1. CASE Prepare(w) \/ Execute(w) \/ (Check(w) /\ ~halted) \/ Reply(w)
  <2>1. Calm /\ account' = account /\ mem' = mem
    BY <1>1 DEF Prepare, Execute, Check, Reply
  <2>2. QED
    BY <2>1, CalmKept DEF Recalls, Calm, Still
<1>2. CASE Ready(w)
  <2> DEFINE m == [mem[w] EXCEPT !.leg = 1, !.known = {}, !.open = {}, !.filled = FALSE,
                                 !.haltDone = FALSE]
  <2>1. m \in Memory
    <3>1. 1 \in AllLegs
      BY WorkerAssumption DEF AllLegs
    <3>2. QED
      BY <1>m, <3>1 DEF Memory
  <2>2. mem' = [mem EXCEPT ![w] = m] /\ Calm /\ account' = account
    BY <1>2 DEF Ready
  <2>3. QED
    BY <2>1, <2>2, CalmKept DEF Recalls, Calm, Still
<1>3. CASE Send(w)
  <2>1. /\ order' \in [AllLegs -> {"none", "sent", "pending", "open", "done"}] /\ doubled' \in BOOLEAN
    BY <1>3, <1>m DEF Send, Surroundings
  <2>2. QED
    BY <1>3, <2>1 DEF Send, Surroundings, Recalls, Calm, Still
<1>4. CASE Record(w)
  <2> DEFINE l == mem[w].leg
  <2>1. PICK b \in BOOLEAN :
          mem' = mem \/ mem' = [mem EXCEPT ![w].known = @ \cup {l}, ![w].timer = b,
                                           ![w].leg = Onward(l)]
    BY <1>4 DEF Record
  <2>2. [mem[w] EXCEPT !.known = @ \cup {l}, !.timer = b, !.leg = Onward(l)] \in Memory
    <3>1. Onward(l) \in AllLegs /\ mem[w].known \cup {l} \in SUBSET AllLegs
      BY <1>m, LegChosen
    <3>2. QED
      BY <1>m, <3>1 DEF Memory
  <2>3. Recalls'
    <3>1. CASE mem' = mem
      BY <3>1 DEF Recalls
    <3>2. CASE mem' = [mem EXCEPT ![w] = [mem[w] EXCEPT !.known = @ \cup {l}, !.timer = b,
                                                        !.leg = Onward(l)]]
      BY <3>2, <2>2 DEF Recalls
    <3>3. QED
      BY <2>1, <3>1, <3>2
  <2>4. QED
    BY <1>4, <2>3, CalmKept DEF Record, Calm, Still
<1>5. QED
  BY <1>1, <1>2, <1>3, <1>4 DEF Moves

\* A step moves one start on or sends nothing.
LEMMA SendsOrNot ==
  ASSUME Control, Sockets, Surroundings, Recalls, [Next]_vars
  PROVE  SendsNothing \/ \E w \in Worker : Moves(w)
<1>1. ASSUME NEW w \in Worker, Start(w) PROVE SendsNothing \/ Moves(w)
  <2>1. CASE Check(w) /\ halted
    BY <2>1, FailsSteady DEF Check
  <2>2. QED
    BY <1>1, <2>1, StartSendsNothing DEF Start, Moves
<1>2. ASSUME NEW w \in Worker, Handle(w) PROVE SendsNothing
  BY <1>2, MessageSendsNothing, HandlerSendsNothing DEF Handle
<1>3. ASSUME NEW w \in Worker,
             tick(w) \/ Disconnect(w) \/ TimedOut(w) \/ Crash(w)
      PROVE  SendsNothing
  BY <1>3, StartSendsNothing, LosesSendNothing
<1>4. CASE \/ Tick \/ SetHalt \/ Ask \/ LeaseLapses \/ UNCHANGED vars
           \/ \E l \in Leg : Brokered(l)
  BY <1>4, OutsideSendsNothing
<1>5. QED
  BY <1>1, <1>2, <1>3, <1>4 DEF Next, Brokered

-----------------------------------------------------------------------------
(* Type correctness.                                                       *)

TypeInv == Control /\ Sockets /\ Surroundings /\ Recalls

LEMMA TypesStart == Init => TypeInv
<1>1. Init => Control /\ Sockets
  BY CustodyStarts DEF CustodyInv
<1>2. Init => Surroundings
  <2>1. Init => order \in [AllLegs -> {"none", "sent", "pending", "open", "done"}]
    BY DEF Init
  <2>2. Init => clock \in 0 .. 2 /\ trouble \in 0 .. MaxTrouble
    BY WorkerAssumption DEF Init
  <2>3. Init => halted \in BOOLEAN /\ mode \in Modes /\ doubled \in BOOLEAN
    BY DEF Init
  <2>4. QED
    BY <2>1, <2>2, <2>3 DEF Surroundings
<1>2a. Init => Recalls
  BY BlankRemembers DEF Init, Recalls
<1>3. QED
  BY <1>1, <1>2, <1>2a DEF TypeInv

LEMMA TypesKept ==
  ASSUME TypeInv, [Next]_vars PROVE TypeInv'
<1>1. Control' /\ Sockets'
  <2>1. CASE ~Changes
    BY <2>1, OthersTame DEF TypeInv
  <2>2. ASSUME NEW w \in Worker, tick(w) PROVE Control' /\ Sockets'
    BY <2>2 DEF TypeInv, tick, Goes, Control, Row, Status, Places, Starting, Sockets, SocketOK,
                Connected
  <2>3. ASSUME NEW w \in Worker, Release(w) PROVE Control' /\ Sockets'
    <3>1. "release" \in Handler /\ at' = at /\ up' = up
      BY <2>3 DEF Release, Handler
    <3>2. doing' \in [Worker -> SUBSET Handler]
      BY <2>3, <3>1, HandlerKept DEF TypeInv, Release
    <3>3. row' \in Row
      BY <2>3 DEF TypeInv, Control, Release, Row
    <3>4. QED
      BY <3>1, <3>2, <3>3 DEF TypeInv, Control, Sockets, SocketOK
  <2>4. CASE LeaseLapses
    BY <2>4 DEF TypeInv, LeaseLapses, Control, Row, Sockets, SocketOK
  <2>5. QED
    BY <2>1, <2>2, <2>3, <2>4 DEF Changes
<1>2. Surroundings' /\ Recalls'
  BY SendsOrNot, MovesTyped DEF TypeInv, SendsNothing
<1>3. QED
  BY <1>1, <1>2 DEF TypeInv

\* Every variable keeps its type, with or without a lapse of leases.
THEOREM TypeCorrect == Spec => []TypeOK
<1>1. TypeInv /\ [Next]_vars => TypeInv'
  BY TypesKept
<1>2. TypeInv => TypeOK
  BY DEF TypeInv, TypeOK, Control, Surroundings, Recalls, Places
<1>3. QED
  BY <1>1, <1>2, TypesStart, PTL DEF Spec

-----------------------------------------------------------------------------
(* No leg is sent while a request, an order or a position of it is live.   *)

\* A start sends the legs in their order and has found none of them at the
\* broker: the ones it has still to send are not there.
AheadIsFree(w) ==
  /\ at[w] = "preparing" => \A l \in Leg : ~Live(l)
  /\ at[w] \in {"armed", "checking", "sending"} =>
       \A l \in Leg : l >= mem[w].leg => ~Live(l)
  /\ at[w] \in {"waiting", "recording"} => \A l \in Leg : l > mem[w].leg => ~Live(l)
  /\ at[w] \in Connected => mem[w].leg \in Leg

SendInv == TypeInv /\ CustodyInv /\ NeverDoubled /\ \A w \in Worker : AheadIsFree(w)

LEMMA AheadStaysFree ==
  ASSUME Surroundings, SendsNothing, \A w \in Worker : AheadIsFree(w)
  PROVE  \A w \in Worker : AheadIsFree(w)'
<1>1. Leg' = Leg /\ Leg \subseteq AllLegs
  BY WorkerAssumption DEF SendsNothing, Withdraws, Leg, AllLegs
<1>2. \A l \in Leg : Live(l)' => Live(l)
  BY <1>1 DEF SendsNothing, Withdraws
<1>3. ASSUME NEW w \in Worker PROVE AheadIsFree(w)'
  BY <1>1, <1>2, <1>3 DEF SendsNothing, Steady, AheadIsFree, Connected
<1>4. QED
  BY <1>3

\* The start of w moves on; no other instance has one to be disturbed.
LEMMA MovesAhead ==
  ASSUME SendInv, NEW w \in Worker, Moves(w)
  PROVE  NeverDoubled' /\ \A v \in Worker : AheadIsFree(v)'
<1>1. /\ Leg' = Leg /\ Leg \subseteq AllLegs
      /\ mem[w].leg \in AllLegs /\ AheadIsFree(w) /\ SocketOK(w) /\ at[w] \in Places
  BY MovesTyped, Remembered, WorkerAssumption
  DEF SendInv, TypeInv, Sockets, Control, Leg, AllLegs
<1>2. AheadIsFree(w)' /\ NeverDoubled' /\ Holds(w)
  <2>1. CASE Prepare(w)
    <3>1. \A l \in Leg : ~Live(l)
      BY <1>1, <2>1 DEF Prepare, Nothing, Found, Settled, Live
    <3>2. QED
      BY <1>1, <2>1, <3>1 DEF Prepare, Nothing, Goes, AheadIsFree, Connected, Live, account,
         SendInv, NeverDoubled, TypeInv, Control, Holds
  <2>2. CASE Ready(w)
    <3>1. /\ at[w] = "preparing" /\ account' = account /\ up'[w]
          /\ at'[w] \in {"armed", "checking"}
      BY <2>2 DEF Ready, Goes, SendInv, TypeInv, Control
    <3>2. mem'[w].leg = 1 /\ 1 \in Leg
      BY <1>1, <2>2, WorkerAssumption, Remembered
      DEF Ready, SendInv, TypeInv, Recalls, Memory, Leg, AllLegs
    <3>3. QED
      BY <1>1, <3>1, <3>2 DEF AheadIsFree, Connected, Live, account, SendInv, NeverDoubled, Holds
  <2>3. CASE Execute(w) \/ (Check(w) /\ ~halted) \/ Reply(w)
    BY <1>1, <2>3 DEF Execute, Check, Reply, Goes, AheadIsFree, Connected, Live, account,
       SendInv, NeverDoubled, TypeInv, Control, Holds, SocketOK
  <2>4. CASE Send(w)
    <3>1. /\ at[w] = "sending" /\ at' = [at EXCEPT ![w] = "waiting"] /\ mem' = mem
          /\ order' = [order EXCEPT ![mem[w].leg] = "sent"]
          /\ doubled' = (doubled \/ Live(mem[w].leg))
      BY <2>4 DEF Send, Goes
    <3>2. mem[w].leg \in Leg /\ ~Live(mem[w].leg)
      BY <1>1, <3>1 DEF AheadIsFree, Connected, AllLegs
    <3>3. NeverDoubled'
      BY <3>1, <3>2 DEF NeverDoubled, SendInv
    <3>4. \A l \in Leg : l > mem[w].leg => ~Live(l)'
      BY <1>1, <3>1 DEF AheadIsFree, Live, SendInv, TypeInv, Surroundings, AllLegs
    <3>5. QED
      BY <1>1, <3>1, <3>2, <3>3, <3>4 DEF AheadIsFree, Connected, SocketOK, Holds, SendInv,
         TypeInv, Control
  <2>5. CASE Record(w)
    <3>1. at[w] = "recording" /\ up[w] /\ account' = account
      BY <1>1, <2>5 DEF Record, SocketOK, Connected
    <3>2. CASE mem[w].leg + 1 \in Leg
      <4>1. mode # "MARKET"
        BY <1>1, <3>1, <3>2 DEF Leg, AheadIsFree, Connected
      <4>2. mem'[w].leg = mem[w].leg + 1 /\ at'[w] = "checking"
        BY <2>5, <3>1, <3>2, <4>1 DEF Record, Goes, Onward, SendInv, TypeInv, Control, Recalls,
           Memory
      <4>3. QED
        BY <1>1, <3>1, <3>2, <4>2 DEF AheadIsFree, Connected, Live, account, Holds, SendInv,
           NeverDoubled, AllLegs
    <3>3. CASE mem[w].leg + 1 \notin Leg
      BY <1>1, <2>5, <3>1, <3>3 DEF Record, Goes, AheadIsFree, Connected, account, Holds, SendInv,
         NeverDoubled, TypeInv, Control
    <3>4. QED
      BY <3>2, <3>3
  <2>6. QED
    BY <2>1, <2>2, <2>3, <2>4, <2>5 DEF Moves
<1>3. ASSUME NEW v \in Worker, v # w PROVE AheadIsFree(v)'
  <2>1. ~Holds(v)
    BY <1>2, <1>3 DEF SendInv, CustodyInv, Exclusive
  <2>2. at[v] \notin Connected \cup {"preparing"}
    BY <2>1 DEF Holds, SendInv, TypeInv, Sockets, SocketOK
  <2>3. at'[v] = at[v]
    BY <1>3 DEF Moves, Prepare, Ready, Execute, Check, Send, Reply, Record, Fails, Goes, SendInv,
       TypeInv, Control
  <2>4. QED
    BY <2>2, <2>3 DEF AheadIsFree, Connected
<1>4. QED
  BY <1>2, <1>3

LEMMA SendKept ==
  ASSUME RenewedInTime, SendInv, [Next]_vars PROVE SendInv'
<1>1. TypeInv' /\ CustodyInv'
  BY TypesKept, CustodyKept DEF SendInv
<1>2. CASE SendsNothing
  BY <1>1, <1>2, AheadStaysFree DEF SendInv, TypeInv, SendsNothing, Withdraws, NeverDoubled
<1>3. CASE \E w \in Worker : Moves(w)
  BY <1>1, <1>3, MovesAhead DEF SendInv
<1>4. QED
  BY <1>2, <1>3, SendsOrNot DEF SendInv, TypeInv

\* While leases are renewed in time, no leg is sent while a request, an order or a
\* position of it is live at the broker, whichever instance sends and whatever went
\* wrong before.  (A leg that is over may be sent again, see LegSentOnce.)
THEOREM NoLiveLegDoubled ==
  ASSUME RenewedInTime PROVE Spec => []NeverDoubled
<1>1. SendInv /\ [Next]_vars => SendInv'
  BY SendKept
<1>2. SendInv => NeverDoubled
  BY DEF SendInv
<1>3. Init => SendInv
  BY TypesStart, CustodyStarts DEF Init, SendInv, NeverDoubled, AheadIsFree, Connected
<1>4. QED
  BY <1>1, <1>2, <1>3, PTL DEF Spec


-----------------------------------------------------------------------------
(* A job that ends as expired has nothing at the broker.                   *)

\* What waits in an inbox, and what waits behind it.
Hears(q, m)     == \E i \in DOMAIN q : q[i] = m
Behind(q, m, n) == \E i, j \in DOMAIN q : i < j /\ q[i] = m /\ q[j] = n

Expiring(w) == "expire" \in doing[w]
Answer      == <<"reply", "expire">>

\* Without a socket nothing of a Runtime is left, but for fills still to be stored.
ResetOK(w) ==
  ~up[w] => /\ ~mem[w].timer /\ mem[w].known = {} /\ mem[w].inbox = <<>>
            /\ \A a \in mem[w].adding : a[2] = "late"

\* A Runtime that has not filled knows of no position.
CountsFills(w) ==
  up[w] /\ ~mem[w].filled =>
    mem[w].open = {} /\ \A a \in mem[w].adding : a[2] = "late"

\* It has been told of every position, and knows every order it has sent.
HearsFills(w) ==
  up[w] /\ ~mem[w].filled =>
    \A l \in Leg : order[l] = "open" => Hears(mem[w].inbox, <<"fill", l>>)

KnowsOrders(w) ==
  up[w] /\ ~mem[w].filled =>
    /\ mem[w].timer => \A l \in Leg : Live(l) => l \in mem[w].known
    /\ at[w] \in Connected /\ mode # "MARKET" =>
         \A l \in Leg : l < mem[w].leg /\ Live(l) => l \in mem[w].known

\* What is under way to the broker is what its start waits for.
AwaitsSent(w) ==
  up[w] => \A l \in Leg : order[l] = "sent" => at[w] = "waiting" /\ mem[w].leg = l

\* The expiry is set when the start is through.
StartsOver(w) == mem[w].timer \/ Expiring(w) => at[w] \in {"idle", "orphaned"}

\* Once the expiry has cancelled the orders, what filled before is told before
\* the broker's answer.
Withdrawn(w) ==
  up[w] /\ ~mem[w].filled /\ Expiring(w) =>
    \A l \in Leg : /\ order[l] # "pending"
                   /\ order[l] = "open" => Behind(mem[w].inbox, <<"fill", l>>, Answer)

ExpiryOK(w) == /\ ResetOK(w) /\ CountsFills(w) /\ HearsFills(w) /\ KnowsOrders(w)
               /\ AwaitsSent(w) /\ StartsOver(w) /\ Withdrawn(w)

\* Nobody takes up the job before an expiry has been written, nor again after.
LeaseHeld(w) ==
  Expiring(w) => /\ row.status # "SCHEDULED"
                 /\ row.status \in Terminal \/ row.lease = "live"

ExpireInv == SendInv /\ (\A w \in Worker : ExpiryOK(w)) /\ (\A w \in Worker : LeaseHeld(w))

LEMMA AppendHears ==
  ASSUME NEW S, NEW q \in Seq(S), NEW m \in S, NEW n \in S
  PROVE  /\ Hears(Append(q, m), m)
         /\ Hears(q, m) => Hears(Append(q, n), m) /\ Behind(Append(q, n), m, n)
<1>1. /\ Len(q) \in Nat /\ DOMAIN q = 1 .. Len(q)
      /\ DOMAIN Append(q, n) = 1 .. Len(q) + 1 /\ Append(q, n)[Len(q) + 1] = n
      /\ DOMAIN Append(q, m) = 1 .. Len(q) + 1 /\ Append(q, m)[Len(q) + 1] = m
      /\ \A i \in 1 .. Len(q) : Append(q, n)[i] = q[i]
  OBVIOUS
<1>2. Hears(Append(q, m), m)
  BY <1>1 DEF Hears
<1>3. ASSUME NEW i \in DOMAIN q, q[i] = m
      PROVE  Hears(Append(q, n), m) /\ Behind(Append(q, n), m, n)
  <2>1. i < Len(q) + 1 /\ i \in DOMAIN Append(q, n) /\ Len(q) + 1 \in DOMAIN Append(q, n)
    BY <1>1, <1>3
  <2>2. Append(q, n)[i] = m
    BY <1>1, <1>3
  <2> QED  BY <1>1, <2>1, <2>2 DEF Hears, Behind
<1> QED  BY <1>2, <1>3 DEF Hears

LEMMA AppendBehind ==
  ASSUME NEW S, NEW q \in Seq(S), NEW m \in S, NEW n \in S, NEW x \in S, Behind(q, m, n)
  PROVE  Behind(Append(q, x), m, n)
<1>1. /\ DOMAIN q \subseteq DOMAIN Append(q, x)
      /\ \A i \in DOMAIN q : Append(q, x)[i] = q[i]
  OBVIOUS
<1> QED  BY <1>1 DEF Behind

LEMMA TailHears ==
  ASSUME NEW S, NEW q \in Seq(S), q # <<>>, NEW m, NEW n, Head(q) # m
  PROVE  /\ Hears(q, m) => Hears(Tail(q), m)
         /\ Behind(q, m, n) => Behind(Tail(q), m, n)
<1>1. /\ Len(q) \in Nat \ {0} /\ DOMAIN q = 1 .. Len(q) /\ DOMAIN Tail(q) = 1 .. Len(q) - 1
      /\ q[1] # m /\ \A i \in 1 .. Len(q) - 1 : Tail(q)[i] = q[i + 1]
  OBVIOUS
<1>2. ASSUME NEW i \in DOMAIN q, q[i] = m
      PROVE  i - 1 \in DOMAIN Tail(q) /\ Tail(q)[i - 1] = m
  <2>1. i # 1 /\ i \in 1 .. Len(q)
    BY <1>1, <1>2
  <2>2. i - 1 \in 1 .. Len(q) - 1 /\ (i - 1) + 1 = i
    BY <1>1, <2>1
  <2> QED  BY <1>1, <1>2, <2>2
<1>3. ASSUME NEW i \in DOMAIN q, NEW j \in DOMAIN q, i < j, q[i] = m, q[j] = n
      PROVE  Behind(Tail(q), m, n)
  <2>1. i - 1 \in DOMAIN Tail(q) /\ Tail(q)[i - 1] = m
    BY <1>2, <1>3
  <2>2. i - 1 < j - 1 /\ j - 1 \in 1 .. Len(q) - 1 /\ (j - 1) + 1 = j
    BY <1>1, <1>3
  <2>3. j - 1 \in DOMAIN Tail(q) /\ Tail(q)[j - 1] = n
    BY <1>1, <1>3, <2>2
  <2> QED  BY <2>1, <2>2, <2>3 DEF Behind
<1> QED  BY <1>2, <1>3 DEF Hears, Behind

LEMMA NothingIn == ASSUME NEW m, NEW n PROVE ~Hears(<<>>, m) /\ ~Behind(<<>>, m, n)
BY DEF Hears, Behind

-----------------------------------------------------------------------------
(* What leaves an instance's part of the invariant alone.                  *)

\* Nothing comes to be sent, pending or open.
Fades == \A l \in AllLegs : \A live \in {"sent", "pending", "open"} :
           order'[l] = live => order[l] = live

\* A start waits until the broker has answered.
Waits(v) == up[v] /\ at[v] = "waiting" =>
              at'[v] = "waiting" \/ order[mem[v].leg] # "sent"

\* The memory of v changes by nothing the invariant would miss.
Milder(v) ==
  /\ mem'[v].timer => mem[v].timer
  /\ mem'[v].leg = mem[v].leg
  /\ mem[v].filled => mem'[v].filled
  /\ up[v] \/ /\ mem'[v].known \subseteq mem[v].known /\ mem'[v].inbox = mem[v].inbox
              /\ mem'[v].adding \subseteq mem[v].adding
  /\ mem'[v].filled \/
       /\ mem[v].known \subseteq mem'[v].known /\ mem'[v].open \subseteq mem[v].open
       /\ mem'[v].adding \subseteq mem[v].adding
       /\ \A l \in AllLegs :
            /\ Hears(mem[v].inbox, <<"fill", l>>) => Hears(mem'[v].inbox, <<"fill", l>>)
            /\ Behind(mem[v].inbox, <<"fill", l>>, Answer)
                 => Behind(mem'[v].inbox, <<"fill", l>>, Answer)

LEMMA MilderKeeps ==
  ASSUME NEW v \in Worker, ExpiryOK(v), mode' = mode, up'[v] = up[v], up[v] => Fades,
         at'[v] = at[v] \/ at'[v] \in {"idle", "orphaned"}, Waits(v),
         Expiring(v)' => Expiring(v), Milder(v)
  PROVE  ExpiryOK(v)'
<1>1. Leg' = Leg /\ Leg \subseteq AllLegs
  BY WorkerAssumption DEF Leg, AllLegs
<1>2. ResetOK(v)' /\ CountsFills(v)'
  BY DEF ExpiryOK, ResetOK, CountsFills, Milder
<1>3. up[v] => \A l \in Leg : Live(l)' => Live(l)
  BY <1>1 DEF Fades, Live
<1>4. HearsFills(v)'
  BY <1>1 DEF ExpiryOK, HearsFills, Milder, Fades
<1>5. KnowsOrders(v)'
  BY <1>1, <1>3 DEF ExpiryOK, KnowsOrders, Milder, Connected
<1>6. StartsOver(v)'
  BY DEF ExpiryOK, StartsOver, Milder
<1>7. Withdrawn(v)'
  BY <1>1 DEF ExpiryOK, Withdrawn, Milder, Fades
<1>8. AwaitsSent(v)'
  BY <1>1 DEF ExpiryOK, AwaitsSent, Milder, Fades, Waits
<1> QED  BY <1>2, <1>4, <1>5, <1>6, <1>7, <1>8 DEF ExpiryOK

LEMMA SameIsMilder ==
  ASSUME NEW v \in Worker, mem'[v] = mem[v] PROVE Milder(v)
BY DEF Milder

\* An instance the step is not about.
Elsewhere(w) == \A v \in Worker \ {w} :
                  at'[v] = at[v] /\ up'[v] = up[v] /\ doing'[v] = doing[v] /\ mem'[v] = mem[v]

LEMMA ElsewhereKept ==
  ASSUME \A v \in Worker : ExpiryOK(v), NEW w \in Worker, Elsewhere(w), mode' = mode,
         Fades \/ \A v \in Worker \ {w} : ~up[v], ExpiryOK(w)'
  PROVE  \A v \in Worker : ExpiryOK(v)'
<1>1. ASSUME NEW v \in Worker \ {w} PROVE ExpiryOK(v)'
  BY <1>1, MilderKeeps, SameIsMilder DEF Elsewhere, Expiring, Waits
<1> QED  BY <1>1

\* Without a socket little is left to be said.
LEMMA DownKept ==
  ASSUME NEW w \in Worker, ~up'[w], ResetOK(w)', StartsOver(w)'
  PROVE  ExpiryOK(w)'
BY DEF ExpiryOK, CountsFills, HearsFills, KnowsOrders, AwaitsSent, Withdrawn

LEMMA UnplugResets ==
  ASSUME TypeInv, NEW w \in Worker, Unplug(w)
  PROVE  /\ ~up'[w] /\ ResetOK(w)' /\ ~mem'[w].timer
         /\ \A v \in Worker \ {w} : up'[v] = up[v] /\ mem'[v] = mem[v]
<1>1. mem[w] \in Memory
  BY Remembered DEF TypeInv
<1>2. PICK late : late = {<<a[1], "late">> : a \in mem[w].adding}
  OBVIOUS
<1>3. PICK m : m = [mem[w] EXCEPT !.timer = FALSE, !.known = {}, !.inbox = <<>>, !.closing = {},
                                  !.adding = late]
  OBVIOUS
<1>4. m.timer = FALSE /\ m.known = {} /\ m.inbox = <<>> /\ m.adding = late
  BY <1>1, <1>3 DEF Memory
<1>5. mem' = [mem EXCEPT ![w] = m] /\ up' = [up EXCEPT ![w] = FALSE]
  BY <1>2, <1>3 DEF Unplug
<1>6. mem'[w] = m /\ ~up'[w] /\ \A v \in Worker \ {w} : up'[v] = up[v] /\ mem'[v] = mem[v]
  BY <1>5 DEF TypeInv, Recalls, Control
<1>7. \A a \in late : a[2] = "late"
  BY <1>2
<1> QED  BY <1>4, <1>6, <1>7 DEF ResetOK

\* The Runtime is given back, or there was none.
LEMMA FinishExpiry ==
  ASSUME TypeInv, NEW w \in Worker, ExpiryOK(w), finish(w), mode' = mode,
         Expiring(w)' => Expiring(w)
  PROVE  /\ ExpiryOK(w)'
         /\ \A v \in Worker \ {w} : at'[v] = at[v] /\ up'[v] = up[v] /\ mem'[v] = mem[v]
<1>1. CASE up[w]
  <2>1. Unplug(w) /\ at' = [at EXCEPT ![w] = Unwound(w)]
    BY <1>1 DEF finish
  <2>2. at'[w] = Unwound(w) /\ \A v \in Worker \ {w} : at'[v] = at[v]
    BY <2>1 DEF TypeInv, Control
  <2>3. at[w] \in {"idle", "orphaned"} => Unwound(w) = at[w]
    BY DEF Unwound
  <2>4. StartsOver(w)'
    BY <2>1, <2>2, <2>3, UnplugResets DEF ExpiryOK, StartsOver
  <2> QED  BY <2>1, <2>2, <2>4, UnplugResets, DownKept
<1>2. CASE ~up[w]
  <2>1. UNCHANGED <<at, up, mem>>
    BY <1>2 DEF finish
  <2> QED  BY <1>2, <2>1, MilderKeeps, SameIsMilder DEF Waits
<1> QED  BY <1>1, <1>2


-----------------------------------------------------------------------------
(* The steps of one instance, w.                                           *)

LEMMA CancelsFade ==
  ASSUME NEW legs, CancelOrders(legs) PROVE Fades
BY DEF CancelOrders, Fades

LEMMA SameFades == ASSUME account' = account PROVE Fades
BY DEF Fades, account

\* What a cancelling handler does to the memory of its instance.
LEMMA CancellingMemory ==
  ASSUME TypeInv, NEW w \in Worker, NEW h \in Handler, Cancelling(w, h)
  PROVE  /\ Fades /\ doing' = [doing EXCEPT ![w] = @ \cup {h}] /\ h \notin doing[w]
         /\ \A v \in Worker \ {w} : doing'[v] = doing[v] /\ mem'[v] = mem[v]
         /\ \A k \in Handler \ {h} : k \in doing'[w] => k \in doing[w]
         /\ mem'[w].timer = (mem[w].timer /\ h # "expire")
         /\ mem'[w].inbox = IF mem[w].known = {} THEN mem[w].inbox
                            ELSE Append(mem[w].inbox, <<"reply", h>>)
         /\ mem'[w].leg = mem[w].leg /\ mem'[w].filled = mem[w].filled
         /\ mem'[w].known = mem[w].known /\ mem'[w].open = mem[w].open
         /\ mem'[w].adding = mem[w].adding
<1>1. mem[w] \in Memory
  BY Remembered DEF TypeInv
<1>2. PICK q : q = IF mem[w].known = {} THEN mem[w].inbox
                   ELSE Append(mem[w].inbox, <<"reply", h>>)
  OBVIOUS
<1>3. PICK m : m = [mem[w] EXCEPT !.timer = @ /\ h # "expire", !.haltDone = @ \/ h = "halt",
                                  !.inbox = q]
  OBVIOUS
<1>4. mem' = [mem EXCEPT ![w] = m]
  BY <1>2, <1>3 DEF Cancelling
<1>5. mem'[w] = m /\ \A v \in Worker \ {w} : mem'[v] = mem[v]
  BY <1>4 DEF TypeInv, Recalls
<1>6. /\ m.timer = (mem[w].timer /\ h # "expire") /\ m.inbox = q
      /\ m.leg = mem[w].leg /\ m.filled = mem[w].filled
      /\ m.known = mem[w].known /\ m.open = mem[w].open /\ m.adding = mem[w].adding
  BY <1>1, <1>3 DEF Memory
<1>7. Fades
  BY CancelsFade DEF Cancelling
<1>8. /\ doing' = [doing EXCEPT ![w] = @ \cup {h}] /\ h \notin doing[w]
      /\ \A v \in Worker \ {w} : doing'[v] = doing[v]
      /\ \A k \in Handler \ {h} : k \in doing'[w] => k \in doing[w]
  BY DEF Cancelling, Enter, TypeInv, Control
<1> QED  BY <1>2, <1>5, <1>6, <1>7, <1>8

LEMMA CancellingMilder ==
  ASSUME TypeInv, NEW w \in Worker, NEW h \in Handler, h # "expire", Cancelling(w, h), ResetOK(w)
  PROVE  Milder(w) /\ Fades /\ (Expiring(w)' => Expiring(w))
         /\ \A v \in Worker \ {w} : doing'[v] = doing[v] /\ mem'[v] = mem[v]
<1>1. mem[w].inbox \in Seq(Message) /\ <<"reply", h>> \in Message /\ Answer \in Message
  BY Remembered DEF TypeInv, Message, Answer, Handler
<1>2. ASSUME NEW l \in AllLegs
      PROVE  /\ Hears(mem[w].inbox, <<"fill", l>>) => Hears(mem'[w].inbox, <<"fill", l>>)
             /\ Behind(mem[w].inbox, <<"fill", l>>, Answer)
                  => Behind(mem'[w].inbox, <<"fill", l>>, Answer)
  <2>1. <<"fill", l>> \in Message
    BY DEF Message
  <2> QED  BY <1>1, <2>1, CancellingMemory, AppendHears, AppendBehind
<1>3. ~up[w] => mem'[w].inbox = mem[w].inbox
  BY CancellingMemory DEF ResetOK
<1>4. Milder(w)
  BY <1>2, <1>3, CancellingMemory DEF Milder
<1>5. "expire" \in Handler
  BY DEF Handler
<1> QED  BY <1>4, <1>5, CancellingMemory DEF Expiring

\* A handler other than the expiry begins; a start may end.
LEMMA BeginKeeps ==
  ASSUME TypeInv, \A v \in Worker : ExpiryOK(v), NEW w \in Worker, NEW h \in Handler, h # "expire",
         Cancelling(w, h), mode' = mode, up' = up, NEW place \in {"idle", at[w]}, Goes(w, place),
         at[w] = "waiting" => place = at[w] \/ order[mem[w].leg] # "sent"
  PROVE  \A v \in Worker : ExpiryOK(v)'
<1>1. /\ Milder(w) /\ Fades /\ (Expiring(w)' => Expiring(w))
      /\ \A v \in Worker \ {w} : doing'[v] = doing[v] /\ mem'[v] = mem[v]
  BY CancellingMilder DEF ExpiryOK
<1>2. at'[w] = place /\ \A v \in Worker \ {w} : at'[v] = at[v]
  BY DEF Goes, TypeInv, Control
<1>3. ExpiryOK(w)'
  BY <1>1, <1>2, MilderKeeps DEF Waits
<1> QED  BY <1>1, <1>2, <1>3, ElsewhereKept DEF Elsewhere

\* A handler of w other than the expiry, or a write to the row, that leaves the
\* memory alone.
LEMMA AsideKeeps ==
  ASSUME TypeInv, \A v \in Worker : ExpiryOK(v), NEW w \in Worker, mode' = mode, up' = up, mem' = mem,
         Fades, at' = at \/ (Goes(w, "idle") /\ at[w] # "waiting"),
         doing' = doing \/ (\E h \in Handler : h # "expire" /\ Enter(w, h)) \/ (\E h \in Handler : Leave(w, h))
  PROVE  \A v \in Worker : ExpiryOK(v)'
<1>1. /\ \A v \in Worker \ {w} : doing'[v] = doing[v]
      /\ Expiring(w)' => Expiring(w)
  BY DEF Enter, Leave, Expiring, TypeInv, Control
<1>2. /\ at'[w] = at[w] \/ (at'[w] = "idle" /\ at[w] # "waiting")
      /\ \A v \in Worker \ {w} : at'[v] = at[v]
  BY DEF Goes, TypeInv, Control
<1>3. ExpiryOK(w)'
  BY <1>1, <1>2, MilderKeeps, SameIsMilder DEF Waits
<1> QED  BY <1>1, <1>2, <1>3, ElsewhereKept DEF Elsewhere

\* A handler ends and gives the Runtime back.
LEMMA EndKeeps ==
  ASSUME TypeInv, \A v \in Worker : ExpiryOK(v), NEW w \in Worker, mode' = mode, finish(w), Fades,
         doing' = doing \/ \E h \in Handler : Leave(w, h)
  PROVE  \A v \in Worker : ExpiryOK(v)'
<1>1. /\ \A v \in Worker \ {w} : doing'[v] = doing[v]
      /\ Expiring(w)' => Expiring(w)
  BY DEF Leave, Expiring, TypeInv, Control
<1> QED  BY <1>1, FinishExpiry, ElsewhereKept DEF Elsewhere

\* A handler ends with a change of the memory.
LEMMA RemembersKeeps ==
  ASSUME TypeInv, \A v \in Worker : ExpiryOK(v), NEW w \in Worker, NEW m, mode' = mode, at' = at, up' = up,
         mem' = [mem EXCEPT ![w] = m], Fades, Milder(w),
         doing' = doing \/ \E h \in Handler : Leave(w, h)
  PROVE  \A v \in Worker : ExpiryOK(v)'
<1>1. /\ \A v \in Worker \ {w} : doing'[v] = doing[v] /\ mem'[v] = mem[v]
      /\ Expiring(w)' => Expiring(w)
  BY DEF Leave, Expiring, TypeInv, Control, Recalls
<1>2. ExpiryOK(w)'
  BY <1>1, MilderKeeps DEF Waits
<1> QED  BY <1>1, <1>2, ElsewhereKept DEF Elsewhere


-----------------------------------------------------------------------------
(* Messages.                                                               *)

\* The first message of an inbox is taken, and it is no fill that would be missed.
LEMMA TakenMilder ==
  ASSUME TypeInv, NEW w \in Worker, up[w], mem[w].inbox # <<>>,
         mem'[w].timer = mem[w].timer, mem'[w].leg = mem[w].leg,
         mem'[w].inbox = Tail(mem[w].inbox), mem[w].filled => mem'[w].filled,
         \/ mem'[w].filled
         \/ /\ Head(mem[w].inbox)[1] # "fill" /\ mem'[w].known = mem[w].known
            /\ mem'[w].open \subseteq mem[w].open /\ mem'[w].adding = mem[w].adding
  PROVE  Milder(w)
<1>1. mem[w].inbox \in Seq(Message)
  BY Remembered DEF TypeInv
<1>2. ASSUME NEW l \in AllLegs, Head(mem[w].inbox)[1] # "fill"
      PROVE  /\ Hears(mem[w].inbox, <<"fill", l>>) => Hears(mem'[w].inbox, <<"fill", l>>)
             /\ Behind(mem[w].inbox, <<"fill", l>>, Answer)
                  => Behind(mem'[w].inbox, <<"fill", l>>, Answer)
  <2>1. Head(mem[w].inbox) # <<"fill", l>>
    BY <1>2
  <2> QED  BY <1>1, <2>1, TailHears
<1> QED  BY <1>2 DEF Milder

LEMMA MessageKeeps ==
  ASSUME TypeInv, \A v \in Worker : ExpiryOK(v), NEW w \in Worker,
         FillSeen(w) \/ FillDone(w) \/ CloseSeen(w) \/ CloseDone(w) \/ Answered(w)
  PROVE  \A v \in Worker : ExpiryOK(v)'
<1>m. mem[w] \in Memory /\ mem \in [Worker -> Memory]
  BY Remembered DEF TypeInv, Recalls
<1>r. ResetOK(w) /\ CountsFills(w)
  BY DEF ExpiryOK
<1>1. CASE FillSeen(w)
  <2>1. PICK add : add = mem[w].adding \cup {<<Head(mem[w].inbox)[2],
                                             IF mem[w].filled THEN "more" ELSE "first">>}
    OBVIOUS
  <2>2. PICK m : m = [mem[w] EXCEPT !.inbox = Tail(@), !.filled = TRUE, !.adding = add]
    OBVIOUS
  <2>3. mem' = [mem EXCEPT ![w] = m]
    BY <1>1, <2>1, <2>2 DEF FillSeen
  <2>4. mem'[w] = m
    BY <1>m, <2>3
  <2>5. m.timer = mem[w].timer /\ m.leg = mem[w].leg /\ m.inbox = Tail(mem[w].inbox) /\ m.filled
    BY <1>m, <2>2 DEF Memory
  <2>6. up[w] /\ mem[w].inbox # <<>> /\ at' = at /\ up' = up /\ doing' = doing /\ mode' = mode
        /\ account' = account
    BY <1>1 DEF FillSeen, Takes, Calm, Still
  <2>7. Milder(w)
    BY <2>4, <2>5, <2>6, TakenMilder
  <2> QED  BY <2>3, <2>6, <2>7, SameFades, RemembersKeeps
<1>2. CASE FillDone(w)
  <2>1. PICK a \in mem[w].adding :
          \/ /\ a[2] = "late" /\ mem' = [mem EXCEPT ![w].adding = @ \ {a}]
             /\ UNCHANGED account
          \/ /\ a[2] # "late"
             /\ mem' = [mem EXCEPT ![w].adding = @ \ {a}, ![w].open = @ \cup {a[1]}]
             /\ CancelOrders(IF a[2] = "first" THEN Sibling(w, a[1]) ELSE {})
    BY <1>2 DEF FillDone
  <2>2. at' = at /\ up' = up /\ doing' = doing /\ mode' = mode
    BY <1>2 DEF FillDone, Calm, Still
  <2>3. Fades
    BY <2>1, SameFades, CancelsFade
  <2>4. CASE a[2] = "late"
    <3>1. PICK m : m = [mem[w] EXCEPT !.adding = @ \ {a}]
      OBVIOUS
    <3>2. mem' = [mem EXCEPT ![w] = m]
      BY <2>1, <2>4, <3>1
    <3>3. mem'[w] = m
      BY <1>m, <3>2
    <3>4. /\ m.timer = mem[w].timer /\ m.leg = mem[w].leg /\ m.inbox = mem[w].inbox
          /\ m.filled = mem[w].filled /\ m.known = mem[w].known /\ m.open = mem[w].open
          /\ m.adding \subseteq mem[w].adding
      BY <1>m, <3>1 DEF Memory
    <3>5. Milder(w)
      BY <3>3, <3>4 DEF Milder
    <3> QED  BY <2>2, <2>3, <3>2, <3>5, RemembersKeeps
  <2>5. CASE a[2] # "late"
    <3>1. up[w] /\ mem[w].filled
      BY <1>r, <2>5, <1>m DEF ResetOK, CountsFills, Memory
    <3>2. PICK m : m = [mem[w] EXCEPT !.adding = @ \ {a}, !.open = @ \cup {a[1]}]
      OBVIOUS
    <3>3. mem' = [mem EXCEPT ![w] = m]
      BY <2>1, <2>5, <3>2
    <3>4. mem'[w] = m
      BY <1>m, <3>3
    <3>5. m.timer = mem[w].timer /\ m.leg = mem[w].leg /\ m.filled = mem[w].filled
      BY <1>m, <3>2 DEF Memory
    <3>6. Milder(w)
      BY <3>1, <3>4, <3>5 DEF Milder
    <3> QED  BY <2>2, <2>3, <3>3, <3>6, RemembersKeeps
  <2> QED  BY <2>4, <2>5
<1>3. CASE CloseSeen(w)
  <2>1. PICK l : l = Head(mem[w].inbox)[2]
    OBVIOUS
  <2>2. PICK m : m = [mem[w] EXCEPT !.inbox = Tail(@), !.open = @ \ {l}, !.closing = @ \cup {l}]
    OBVIOUS
  <2>3. mem' = [mem EXCEPT ![w] = m]
    BY <1>3, <2>1, <2>2 DEF CloseSeen
  <2>4. mem'[w] = m
    BY <1>m, <2>3
  <2>5. /\ m.timer = mem[w].timer /\ m.leg = mem[w].leg /\ m.inbox = Tail(mem[w].inbox)
        /\ m.filled = mem[w].filled /\ m.known = mem[w].known /\ m.open \subseteq mem[w].open
        /\ m.adding = mem[w].adding
    BY <1>m, <2>2 DEF Memory
  <2>6. up[w] /\ mem[w].inbox # <<>> /\ at' = at /\ up' = up /\ doing' = doing /\ mode' = mode
        /\ account' = account /\ Head(mem[w].inbox)[1] = "close"
    BY <1>3 DEF CloseSeen, Takes, Calm, Still
  <2>7. Milder(w)
    BY <2>4, <2>5, <2>6, TakenMilder
  <2> QED  BY <2>3, <2>6, <2>7, SameFades, RemembersKeeps
<1>4. CASE CloseDone(w)
  <2>1. PICK l \in mem[w].closing :
          finish(w) \/ (mem' = [mem EXCEPT ![w].closing = @ \ {l}] /\ at' = at /\ up' = up)
    BY <1>4 DEF CloseDone
  <2>2. doing' = doing /\ mode' = mode /\ Fades
    BY <1>4, SameFades DEF CloseDone, Calm, Still
  <2>3. CASE mem' = [mem EXCEPT ![w].closing = @ \ {l}] /\ at' = at /\ up' = up
    <3>1. PICK m : m = [mem[w] EXCEPT !.closing = @ \ {l}]
      OBVIOUS
    <3>2. mem' = [mem EXCEPT ![w] = m]
      BY <2>3, <3>1
    <3>3. mem'[w] = m
      BY <1>m, <3>2
    <3>4. /\ m.timer = mem[w].timer /\ m.leg = mem[w].leg /\ m.inbox = mem[w].inbox
          /\ m.filled = mem[w].filled /\ m.known = mem[w].known /\ m.open = mem[w].open
          /\ m.adding = mem[w].adding
      BY <1>m, <3>1 DEF Memory
    <3>5. Milder(w)
      BY <3>3, <3>4 DEF Milder
    <3> QED  BY <2>2, <2>3, <3>2, <3>5, RemembersKeeps
  <2>4. CASE finish(w)
    BY <2>2, <2>4, EndKeeps
  <2> QED  BY <2>1, <2>3, <2>4
<1>5. CASE Answered(w)
  <2>1. PICK m : m = [mem[w] EXCEPT !.inbox = Tail(@)]
    OBVIOUS
  <2>2. mem' = [mem EXCEPT ![w] = m]
    BY <1>5, <2>1 DEF Answered
  <2>3. mem'[w] = m
    BY <1>m, <2>2
  <2>4. /\ m.timer = mem[w].timer /\ m.leg = mem[w].leg /\ m.inbox = Tail(mem[w].inbox)
        /\ m.filled = mem[w].filled /\ m.known = mem[w].known /\ m.open = mem[w].open
        /\ m.adding = mem[w].adding
    BY <1>m, <2>1 DEF Memory
  <2>5. mem[w].inbox # <<>> /\ at' = at /\ up' = up /\ doing' = doing /\ mode' = mode
        /\ account' = account /\ Head(mem[w].inbox)[1] = "reply"
    BY <1>5 DEF Answered, Calm, Still
  <2>6. up[w]
    BY <1>r, <2>5 DEF ResetOK
  <2>7. Milder(w)
    BY <2>3, <2>4, <2>5, <2>6, TakenMilder
  <2> QED  BY <2>2, <2>5, <2>7, SameFades, RemembersKeeps
<1> QED  BY <1>1, <1>2, <1>3, <1>4, <1>5

-----------------------------------------------------------------------------
(* Handlers, but for the start of the expiry.                              *)

LEMMA EndingKeeps ==
  ASSUME TypeInv, \A v \in Worker : ExpiryOK(v), NEW w \in Worker,
         \/ ExpireEnd(w) \/ KillEnd(w) \/ UserCloseEnd(w) \/ UserCancelEnd(w)
         \/ RejectEnd(w) \/ Release(w)
  PROVE  \A v \in Worker : ExpiryOK(v)'
<1>m. mem[w] \in Memory /\ mem \in [Worker -> Memory]
  BY Remembered DEF TypeInv, Recalls
<1>r. ResetOK(w) /\ CountsFills(w)
  BY DEF ExpiryOK
<1>1. PICK h \in Handler : Leave(w, h)
  BY DEF ExpireEnd, KillEnd, UserCloseEnd, UserCancelEnd, RejectEnd, Release, Handler
<1>2. mode' = mode
  BY DEF ExpireEnd, KillEnd, UserCloseEnd, UserCancelEnd, RejectEnd, Release, Calm, Still
<1>3. Fades
  <2>1. CASE UserCloseEnd(w)
    BY <2>1 DEF UserCloseEnd, Fades
  <2>2. CASE ~UserCloseEnd(w)
    BY <2>2, SameFades DEF ExpireEnd, KillEnd, UserCancelEnd, RejectEnd, Release
  <2> QED  BY <2>1, <2>2
<1>4. \/ finish(w)
      \/ at' = at /\ up' = up /\ mem' = mem
      \/ /\ at' = at /\ up' = up /\ mem' = [mem EXCEPT ![w].known = {}]
         /\ mem[w].filled \/ ~Flat(w)
  BY DEF ExpireEnd, KillEnd, UserCloseEnd, UserCancelEnd, RejectEnd, Release
<1>5. CASE finish(w)
  BY <1>1, <1>2, <1>3, <1>5, EndKeeps
<1>6. CASE at' = at /\ up' = up /\ mem' = mem
  BY <1>1, <1>2, <1>3, <1>6, AsideKeeps
<1>7. CASE /\ at' = at /\ up' = up /\ mem' = [mem EXCEPT ![w].known = {}]
           /\ mem[w].filled \/ ~Flat(w)
  <2>1. PICK m : m = [mem[w] EXCEPT !.known = {}]
    OBVIOUS
  <2>2. mem' = [mem EXCEPT ![w] = m]
    BY <1>7, <2>1
  <2>3. mem'[w] = m
    BY <1>m, <2>2
  <2>4. /\ m.timer = mem[w].timer /\ m.leg = mem[w].leg /\ m.inbox = mem[w].inbox
        /\ m.filled = mem[w].filled /\ m.known = {} /\ m.open = mem[w].open
        /\ m.adding = mem[w].adding
    BY <1>m, <2>1 DEF Memory
  <2>5. mem[w].filled \/ mem[w].known = {}
    BY <1>r, <1>7 DEF CountsFills, ResetOK, Flat
  <2>6. Milder(w)
    BY <2>3, <2>4, <2>5 DEF Milder
  <2> QED  BY <1>1, <1>2, <1>3, <1>7, <2>2, <2>6, RemembersKeeps
<1> QED  BY <1>4, <1>5, <1>6, <1>7

LEMMA BeginningKeeps ==
  ASSUME TypeInv, \A v \in Worker : ExpiryOK(v), NEW w \in Worker,
         \/ KillBegin(w) \/ UserBegin(w, "close") \/ UserBegin(w, "cancel")
         \/ StartRefused(w) \/ PreflightRefused(w) \/ StartLost(w) \/ (Check(w) /\ halted)
         \/ SendRefused(w)
  PROVE  \A v \in Worker : ExpiryOK(v)'
<1>1. CASE KillBegin(w)
  <2>1. PICK place \in {"idle", at[w]} : Goes(w, place) /\ (at[w] = "waiting" => place = at[w])
    BY <1>1 DEF KillBegin
  <2>2. Cancelling(w, "halt") /\ "halt" \in Handler /\ mode' = mode /\ up' = up
    BY <1>1 DEF KillBegin, Handler, Calm, Still
  <2> QED  BY <2>1, <2>2, BeginKeeps
<1>2. CASE UserBegin(w, "close") \/ UserBegin(w, "cancel")
  <2>1. PICK h \in {"close", "cancel"} : Cancelling(w, h) /\ at' = at /\ up' = up /\ mode' = mode
    BY <1>2 DEF UserBegin, Calm, Still
  <2>2. Goes(w, at[w]) /\ h \in Handler
    BY <2>1 DEF Goes, TypeInv, Control, Handler
  <2> QED  BY <2>1, <2>2, BeginKeeps
<1>3. CASE \/ StartRefused(w) \/ PreflightRefused(w) \/ StartLost(w) \/ (Check(w) /\ halted)
           \/ SendRefused(w)
  <2>1. /\ Fails(w) /\ up' = up /\ mode' = mode
        /\ at[w] = "waiting" => order[mem[w].leg] # "sent"
    BY <1>3 DEF StartRefused, PreflightRefused, StartLost, Nothing, Check, SendRefused, Calm, Still
  <2>2. Goes(w, "idle") /\ Cancelling(w, "reject") /\ "reject" \in Handler
    BY <2>1 DEF Fails, Handler
  <2> QED  BY <2>1, <2>2, BeginKeeps
<1> QED  BY <1>1, <1>2, <1>3

-----------------------------------------------------------------------------
(* Trouble.                                                                *)

LEMMA LosesKeep ==
  ASSUME TypeInv, \A v \in Worker : ExpiryOK(v), NEW w \in Worker,
         Disconnect(w) \/ TimedOut(w) \/ Crash(w)
  PROVE  \A v \in Worker : ExpiryOK(v)'
<1>1. mode' = mode /\ Fades
  BY SameFades DEF Disconnect, TimedOut, Crash, Still
<1>2. \A v \in Worker \ {w} : at'[v] = at[v] /\ doing'[v] = doing[v]
  BY DEF Disconnect, TimedOut, Crash, Goes, Enter, TypeInv, Control
<1>3. Expiring(w)' => Expiring(w)
  BY DEF Disconnect, TimedOut, Crash, Enter, Expiring, TypeInv, Control
<1>4. CASE Crash(w)
  <2>1. /\ mem'[w] = Blank /\ ~up'[w]
        /\ \A v \in Worker \ {w} : up'[v] = up[v] /\ mem'[v] = mem[v]
    BY <1>4 DEF Crash, TypeInv, Control, Recalls
  <2>2. doing'[w] = {}
    BY <1>4 DEF Crash, TypeInv, Control
  <2>3. ResetOK(w)' /\ StartsOver(w)'
    BY <2>1, <2>2 DEF ResetOK, StartsOver, Blank, Expiring
  <2> QED  BY <1>1, <1>2, <2>1, <2>3, DownKept, ElsewhereKept DEF Elsewhere
<1>5. CASE TimedOut(w) /\ ~up[w]
  <2>1. UNCHANGED <<up, mem>> /\ at'[w] = "idle"
    BY <1>5 DEF TimedOut, Goes, TypeInv, Control
  <2>2. ExpiryOK(w)'
    BY <1>1, <1>3, <1>5, <2>1, MilderKeeps, SameIsMilder DEF Waits
  <2> QED  BY <1>1, <1>2, <2>1, <2>2, ElsewhereKept DEF Elsewhere
<1>6. CASE Disconnect(w) \/ (TimedOut(w) /\ up[w])
  <2>1. Unplug(w) /\ (at'[w] = "idle" \/ at'[w] = Unwound(w))
    BY <1>6 DEF Disconnect, TimedOut, Goes, TypeInv, Control
  <2>2. at[w] \in {"idle", "orphaned"} => at'[w] \in {"idle", "orphaned"}
    BY <2>1 DEF Unwound
  <2>3. StartsOver(w)'
    BY <1>3, <2>1, <2>2, UnplugResets DEF ExpiryOK, StartsOver
  <2>4. ExpiryOK(w)'
    BY <2>1, <2>3, UnplugResets, DownKept
  <2> QED  BY <1>1, <1>2, <2>1, <2>4, UnplugResets, ElsewhereKept DEF Elsewhere
<1> QED  BY <1>4, <1>5, <1>6


-----------------------------------------------------------------------------
(* A start.                                                                *)

\* Nobody holds a job that is being taken up, so nobody is to write it expired.
LEMMA ClaimExpiry ==
  ASSUME ExpireInv, NEW w \in Worker, tick(w)
  PROVE  \A v \in Worker : ExpiryOK(v)'
<1>m. mem[w] \in Memory /\ mem \in [Worker -> Memory] /\ TypeInv
  BY Remembered DEF ExpireInv, SendInv, TypeInv, Recalls
<1>1. PICK m : m = [mem[w] EXCEPT !.snap = row.status]
  OBVIOUS
<1>2. mem' = [mem EXCEPT ![w] = m]
  BY <1>1 DEF tick
<1>3. mem'[w] = m /\ \A v \in Worker \ {w} : mem'[v] = mem[v]
  BY <1>m, <1>2
<1>4. m.timer = mem[w].timer /\ m.known = mem[w].known /\ m.inbox = mem[w].inbox
      /\ m.adding = mem[w].adding
  BY <1>m, <1>1 DEF Memory
<1>5. /\ up' = up /\ doing' = doing /\ mode' = mode /\ account' = account /\ ~up[w]
      /\ \A v \in Worker \ {w} : at'[v] = at[v]
  BY <1>m DEF tick, Goes, Calm, Still, TypeInv, Control
<1>6. ResetOK(w) /\ ~Expiring(w)
  BY DEF ExpireInv, ExpiryOK, LeaseHeld, tick, Free, Running, Terminal
<1>7. ResetOK(w)' /\ StartsOver(w)'
  BY <1>3, <1>4, <1>5, <1>6 DEF ResetOK, StartsOver, Expiring
<1>8. ExpiryOK(w)'
  BY <1>5, <1>7, DownKept
<1> QED  BY <1>3, <1>5, <1>8, SameFades, ElsewhereKept DEF ExpireInv, Elsewhere

\* What is found at the broker is known; what is open there counts as filled.
LEMMA RecoverExpiry ==
  ASSUME ExpireInv, NEW w \in Worker, Recover(w)
  PROVE  \A v \in Worker : ExpiryOK(v)'
<1>m. mem[w] \in Memory /\ mem \in [Worker -> Memory] /\ TypeInv
  BY Remembered DEF ExpireInv, SendInv, TypeInv, Recalls
<1>1. PICK m : m = [mem[w] EXCEPT !.timer = TRUE, !.haltDone = FALSE,
                      !.known = {l \in Found : order[l] = "pending"},
                      !.open = {l \in Found : order[l] = "open"},
                      !.filled = \E l \in Found : order[l] = "open"]
  OBVIOUS
<1>2. mem' = [mem EXCEPT ![w] = m]
  BY <1>1 DEF Recover
<1>3. mem'[w] = m /\ \A v \in Worker \ {w} : mem'[v] = mem[v]
  BY <1>m, <1>2
<1>4. /\ m.known = {l \in Found : order[l] = "pending"}
      /\ m.open = {l \in Found : order[l] = "open"}
      /\ m.filled = \E l \in Found : order[l] = "open"
      /\ m.adding = mem[w].adding
  BY <1>m, <1>1 DEF Memory
<1>5. /\ doing' = doing /\ mode' = mode /\ order' = order /\ account' = account
      /\ at[w] = "starting" /\ at'[w] = "idle" /\ up'[w]
      /\ \A v \in Worker \ {w} : at'[v] = at[v] /\ up'[v] = up[v]
  BY <1>m DEF Recover, Goes, Calm, Still, TypeInv, Control, account
<1>6. ~up[w]
  BY <1>m, <1>5 DEF TypeInv, Sockets, SocketOK
<1>7. ~Expiring(w)'
  BY <1>5 DEF ExpireInv, ExpiryOK, StartsOver, Expiring
<1>8. \A a \in m.adding : a[2] = "late"
  BY <1>4, <1>6 DEF ExpireInv, ExpiryOK, ResetOK
<1>9. Leg' = Leg /\ \A l \in Leg : Live(l)' = Live(l) /\ (Live(l) <=> l \in Found) /\ order[l] # "sent"
  <2>0. Settled
    BY DEF Recover
  <2>1. Leg' = Leg /\ Leg \subseteq AllLegs /\ \A l \in AllLegs : order[l] # "sent"
    BY <1>5, <2>0, WorkerAssumption DEF Leg, AllLegs, Settled
  <2>2. ASSUME NEW l \in Leg PROVE Live(l)' = Live(l) /\ order[l] # "sent"
    BY <1>5, <2>1, <2>2 DEF Live
  <2>3. ASSUME NEW l \in Leg PROVE Live(l) <=> l \in Found
    BY <2>2, <2>3 DEF Live, Found
  <2> QED  BY <2>1, <2>2, <2>3
<1>10. ExpiryOK(w)'
  <2>1. ResetOK(w)' /\ AwaitsSent(w)' /\ StartsOver(w)' /\ Withdrawn(w)'
    BY <1>5, <1>7, <1>9 DEF ResetOK, AwaitsSent, StartsOver, Withdrawn
  <2>2. CountsFills(w)'
    BY <1>3, <1>4, <1>8 DEF CountsFills
  <2>3. HearsFills(w)' /\ KnowsOrders(w)'
    BY <1>3, <1>4, <1>5, <1>9 DEF HearsFills, KnowsOrders, Connected, Live
  <2> QED  BY <2>1, <2>2, <2>3 DEF ExpiryOK
<1> QED  BY <1>3, <1>5, <1>10, SameFades, ElsewhereKept DEF ExpireInv, Elsewhere

\* A start that is being prepared has found nothing at the broker.
LEMMA ReadyExpiry ==
  ASSUME ExpireInv, NEW w \in Worker, Ready(w)
  PROVE  \A v \in Worker : ExpiryOK(v)'
<1>m. mem[w] \in Memory /\ mem \in [Worker -> Memory] /\ TypeInv
  BY Remembered DEF ExpireInv, SendInv, TypeInv, Recalls
<1>1. PICK m : m = [mem[w] EXCEPT !.leg = 1, !.known = {}, !.open = {}, !.filled = FALSE,
                                  !.haltDone = FALSE]
  OBVIOUS
<1>2. mem' = [mem EXCEPT ![w] = m]
  BY <1>1 DEF Ready
<1>3. mem'[w] = m /\ \A v \in Worker \ {w} : mem'[v] = mem[v]
  BY <1>m, <1>2
<1>4. m.leg = 1 /\ m.open = {} /\ m.adding = mem[w].adding /\ m.timer = mem[w].timer
  BY <1>m, <1>1 DEF Memory
<1>5. /\ doing' = doing /\ mode' = mode /\ order' = order /\ account' = account
      /\ at[w] = "preparing" /\ up'[w]
      /\ \A v \in Worker \ {w} : at'[v] = at[v] /\ up'[v] = up[v]
  BY <1>m DEF Ready, Goes, Calm, Still, TypeInv, Control, account
<1>6. ~up[w]
  BY <1>m, <1>5 DEF TypeInv, Sockets, SocketOK
<1>7. ~Expiring(w)' /\ ~m.timer
  BY <1>4, <1>5 DEF ExpireInv, ExpiryOK, StartsOver, Expiring
<1>8. \A a \in m.adding : a[2] = "late"
  BY <1>4, <1>6 DEF ExpireInv, ExpiryOK, ResetOK
<1>9. Leg' = Leg /\ \A l \in Leg : ~Live(l)'
  BY <1>5 DEF Leg, Live, ExpireInv, SendInv, AheadIsFree
<1>10. ExpiryOK(w)'
  <2>1. ResetOK(w)' /\ AwaitsSent(w)' /\ StartsOver(w)' /\ Withdrawn(w)'
    BY <1>3, <1>5, <1>7, <1>9 DEF ResetOK, AwaitsSent, StartsOver, Withdrawn, Live
  <2>2. CountsFills(w)'
    BY <1>3, <1>4, <1>8 DEF CountsFills
  <2>3. HearsFills(w)' /\ KnowsOrders(w)'
    BY <1>9 DEF HearsFills, KnowsOrders, Live
  <2> QED  BY <2>1, <2>2, <2>3 DEF ExpiryOK
<1> QED  BY <1>3, <1>5, <1>10, SameFades, ElsewhereKept DEF ExpireInv, Elsewhere

\* A start on its way has no expiry yet.
LEMMA OnItsWay ==
  ASSUME ExpireInv, NEW w \in Worker, at[w] \in Connected \cup {"starting", "preparing"}
  PROVE  ~mem[w].timer /\ ~Expiring(w)
BY DEF ExpireInv, ExpiryOK, StartsOver, Connected

\* A start moves on and remembers what it did.
LEMMA PassesOn ==
  ASSUME ExpireInv, NEW w \in Worker, NEW place, Goes(w, place), up' = up, doing' = doing, mem' = mem,
         mode' = mode, Fades, at[w] \in Connected \cup {"starting", "preparing"},
         at[w] \in Connected \/ ~up[w], at[w] = "waiting" => order[mem[w].leg] # "sent"
  PROVE  \A v \in Worker : ExpiryOK(v)'
<1>1. /\ \A v \in Worker \ {w} : at'[v] = at[v]
      /\ ~mem'[w].timer /\ ~Expiring(w)'
  BY OnItsWay DEF Goes, Expiring, ExpireInv, SendInv, TypeInv, Control
<1>2. Leg' = Leg /\ Leg \subseteq AllLegs
  BY WorkerAssumption DEF Leg, AllLegs
<1>3. \A l \in Leg : Live(l)' => Live(l)
  BY <1>2 DEF Fades, Live
<1>4. ResetOK(w)' /\ CountsFills(w)' /\ StartsOver(w)' /\ Withdrawn(w)'
  BY <1>1 DEF ExpireInv, ExpiryOK, ResetOK, CountsFills, StartsOver, Withdrawn
<1>5. HearsFills(w)'
  BY <1>2 DEF ExpireInv, ExpiryOK, HearsFills, Fades
<1>6. KnowsOrders(w)'
  BY <1>1, <1>2, <1>3 DEF ExpireInv, ExpiryOK, KnowsOrders
<1>7. AwaitsSent(w)'
  BY <1>2 DEF ExpireInv, ExpiryOK, AwaitsSent, Fades
<1>8. ExpiryOK(w)'
  BY <1>4, <1>5, <1>6, <1>7 DEF ExpiryOK
<1> QED  BY <1>1, <1>8, ElsewhereKept DEF ExpireInv, Elsewhere

\* Only w runs the job: the leg it sends is none of the others' business.
LEMMA SendExpiry ==
  ASSUME ExpireInv, NEW w \in Worker, Send(w)
  PROVE  \A v \in Worker : ExpiryOK(v)'
<1>1. /\ at[w] = "sending" /\ at' = [at EXCEPT ![w] = "waiting"] /\ mem' = mem /\ mode' = mode
      /\ order' = [order EXCEPT ![mem[w].leg] = "sent"] /\ up' = up /\ doing' = doing
  BY DEF Send, Goes, Calm, Still
<1>2. TypeInv /\ Leg' = Leg /\ Leg \subseteq AllLegs /\ mem[w].leg \in AllLegs
  BY <1>1, WorkerAssumption, Remembered DEF ExpireInv, SendInv, TypeInv, Leg, AllLegs
<1>3. up[w] /\ at'[w] = "waiting" /\ \A v \in Worker \ {w} : at'[v] = at[v]
  BY <1>1, <1>2 DEF TypeInv, Control, Sockets, SocketOK, Connected
<1>4. \A v \in Worker \ {w} : ~up[v]
  BY <1>3 DEF ExpireInv, SendInv, CustodyInv, Exclusive, Holds
<1>5. /\ \A l \in Leg : order'[l] = "open" => order[l] = "open"
      /\ \A l \in Leg : l < mem[w].leg /\ Live(l)' => Live(l)
  BY <1>1, <1>2 DEF Live, TypeInv, Surroundings, AllLegs
<1>6. ~mem[w].timer /\ ~Expiring(w)
  BY <1>1, OnItsWay DEF Connected
<1>7. ResetOK(w)' /\ CountsFills(w)' /\ StartsOver(w)' /\ Withdrawn(w)'
  BY <1>1, <1>6 DEF ExpireInv, ExpiryOK, ResetOK, CountsFills, StartsOver, Withdrawn, Expiring
<1>8. HearsFills(w)'
  BY <1>1, <1>2, <1>5 DEF ExpireInv, ExpiryOK, HearsFills
<1>9. KnowsOrders(w)'
  BY <1>1, <1>2, <1>3, <1>5, <1>6 DEF ExpireInv, ExpiryOK, KnowsOrders, Connected
<1>10. AwaitsSent(w)'
  <2>1. \A l \in Leg : order'[l] = "sent" => l = mem[w].leg \/ order[l] = "sent"
    BY <1>1, <1>2 DEF TypeInv, Surroundings
  <2>2. \A l \in Leg : order[l] # "sent"
    BY <1>1, <1>3 DEF ExpireInv, ExpiryOK, AwaitsSent
  <2> QED  BY <1>1, <1>2, <1>3, <2>1, <2>2 DEF AwaitsSent
<1>11. ExpiryOK(w)'
  BY <1>7, <1>8, <1>9, <1>10 DEF ExpiryOK
<1> QED  BY <1>1, <1>3, <1>4, <1>11, ElsewhereKept DEF ExpireInv, Elsewhere

\* The order recorded joins those known; the last one sets the expiry.
LEMMA RecordExpiry ==
  ASSUME ExpireInv, NEW w \in Worker, Record(w)
  PROVE  \A v \in Worker : ExpiryOK(v)'
<1>m. mem[w] \in Memory /\ mem \in [Worker -> Memory] /\ TypeInv
  BY Remembered DEF ExpireInv, SendInv, TypeInv, Recalls
<1>1. /\ at[w] = "recording" /\ up' = up /\ doing' = doing /\ mode' = mode /\ order' = order
      /\ account' = account
  BY DEF Record, Calm, Still, account
<1>2. up[w]
  BY <1>m, <1>1 DEF TypeInv, Sockets, SocketOK, Connected
<1>3. PICK l : l = mem[w].leg
  OBVIOUS
<1>4. l \in Leg /\ Leg' = Leg /\ Leg \subseteq AllLegs /\ l \in AllLegs
  BY <1>m, <1>1, <1>3, WorkerAssumption
  DEF ExpireInv, SendInv, AheadIsFree, Connected, Leg, AllLegs, Memory
<1>5. Goes(w, IF l + 1 \in Leg THEN "checking" ELSE "idle")
  BY <1>3 DEF Record
<1>6. CASE mode = "MARKET"
  <2>1. mem' = mem
    BY <1>6 DEF Record
  <2> QED  BY <1>1, <1>5, <2>1, SameFades, PassesOn DEF Connected
<1>7. CASE mode # "MARKET"
  <2>1. PICK m : m = [mem[w] EXCEPT !.known = @ \cup {l}, !.timer = l + 1 \notin Leg,
                                    !.leg = Onward(l)]
    OBVIOUS
  <2>2. mem' = [mem EXCEPT ![w] = m]
    BY <1>2, <1>3, <1>7, <2>1 DEF Record
  <2>3. mem'[w] = m /\ \A v \in Worker \ {w} : mem'[v] = mem[v]
    BY <1>m, <2>2
  <2>4. /\ m.known = mem[w].known \cup {l} /\ m.timer = (l + 1 \notin Leg) /\ m.leg = Onward(l)
        /\ m.filled = mem[w].filled /\ m.open = mem[w].open /\ m.adding = mem[w].adding
        /\ m.inbox = mem[w].inbox
    BY <1>m, <2>1 DEF Memory
  <2>5. /\ \A v \in Worker \ {w} : at'[v] = at[v]
        /\ at'[w] = IF l + 1 \in Leg THEN "checking" ELSE "idle"
    BY <1>m, <1>5 DEF Goes, TypeInv, Control
  <2>6. ~Expiring(w)'
    BY <1>1, OnItsWay DEF Expiring, Connected
  <2>7. ResetOK(w)' /\ StartsOver(w)' /\ Withdrawn(w)'
    BY <1>1, <1>2, <2>3, <2>4, <2>5, <2>6 DEF ResetOK, StartsOver, Withdrawn
  <2>8. CountsFills(w)' /\ HearsFills(w)'
    BY <1>1, <1>4, <2>3, <2>4 DEF ExpireInv, ExpiryOK, CountsFills, HearsFills
  <2>9. ~mem[w].filled => \A k \in Leg : k <= l /\ Live(k) => k \in m.known
    <3>1. ~mem[w].filled => \A k \in Leg : k < l /\ Live(k) => k \in mem[w].known
      BY <1>1, <1>2, <1>3, <1>7 DEF ExpireInv, ExpiryOK, KnowsOrders, Connected
    <3>2. \A k \in Leg : k <= l => k < l \/ k = l
      BY <1>4 DEF AllLegs
    <3> QED  BY <2>4, <3>1, <3>2
  <2>10. KnowsOrders(w)'
    <3>1. Leg = 1 .. MaxLegs /\ MaxLegs \in Nat /\ l \in 1 .. MaxLegs
      BY <1>4, <1>7, WorkerAssumption DEF Leg, AllLegs
    <3>2. CASE l + 1 \in Leg
      <4>0. ~m.timer /\ m.leg = l + 1
        BY <2>4, <3>2 DEF Onward
      <4>1. ~m.timer /\ m.leg = l + 1 /\ \A k \in Leg : k < l + 1 => k <= l
        BY <3>1, <4>0
      <4>2. /\ ~mem'[w].timer /\ mem'[w].leg = l + 1 /\ mem'[w].filled = mem[w].filled
            /\ mem'[w].known = m.known
        BY <2>3, <2>4, <4>1
      <4>3. \A k \in Leg : Live(k)' = Live(k)
        BY <1>1 DEF Live
      <4>4. ~mem[w].filled => \A k \in Leg : k < l + 1 /\ Live(k) => k \in m.known
        BY <2>9, <4>1
      <4> QED  BY <1>4, <4>2, <4>3, <4>4 DEF KnowsOrders
    <3>3. CASE l + 1 \notin Leg
      <4>1. at'[w] = "idle" /\ \A k \in Leg : k <= l
        BY <2>5, <3>1, <3>3
      <4> QED  BY <1>1, <1>4, <2>3, <2>4, <2>9, <4>1 DEF KnowsOrders, Live, Connected
    <3> QED  BY <3>2, <3>3
  <2>11. AwaitsSent(w)'
    BY <1>1, <1>2, <1>4 DEF ExpireInv, ExpiryOK, AwaitsSent
  <2>12. ExpiryOK(w)'
    BY <2>7, <2>8, <2>10, <2>11 DEF ExpiryOK
  <2> QED  BY <1>1, <2>3, <2>5, <2>12, SameFades, ElsewhereKept DEF ExpireInv, Elsewhere
<1> QED  BY <1>6, <1>7

LEMMA StartExpiry ==
  ASSUME ExpireInv, NEW w \in Worker, Start(w)
  PROVE  \A v \in Worker : ExpiryOK(v)'
<1>t. TypeInv /\ \A v \in Worker : ExpiryOK(v)
  BY DEF ExpireInv, SendInv
<1>1. CASE \/ StartRefused(w) \/ PreflightRefused(w) \/ StartLost(w) \/ (Check(w) /\ halted)
           \/ SendRefused(w)
  BY <1>t, <1>1, BeginningKeeps
<1>2. CASE Recover(w) \/ Ready(w) \/ Record(w) \/ Send(w)
  BY <1>2, RecoverExpiry, ReadyExpiry, RecordExpiry, SendExpiry
<1>3. CASE CloseStale(w)
  <2>1. /\ mode' = mode /\ up' = up /\ mem' = mem /\ Fades /\ Goes(w, "idle") /\ doing' = doing
        /\ at[w] # "waiting"
    BY <1>3, SameFades DEF CloseStale, Nothing, Calm, Still
  <2> QED  BY <1>t, <2>1, AsideKeeps
<1>4. CASE Orphaned(w)
  <2>1. /\ mode' = mode /\ up' = up /\ mem' = mem /\ Fades /\ Goes(w, "idle")
        /\ Enter(w, "reject") /\ "reject" \in Handler /\ at[w] # "waiting"
    BY <1>4, SameFades DEF Orphaned, Calm, Still, Handler
  <2> QED  BY <1>t, <2>1, AsideKeeps
<1>5. CASE Prepare(w) \/ Execute(w) \/ (Check(w) /\ ~halted) \/ Reply(w)
  <2>1. PICK place : Goes(w, place)
    BY <1>5 DEF Prepare, Execute, Check, Reply
  <2>2. /\ up' = up /\ doing' = doing /\ mem' = mem /\ mode' = mode /\ account' = account
        /\ at[w] \in Connected \cup {"starting"}
        /\ at[w] = "waiting" => order[mem[w].leg] # "sent"
    BY <1>5 DEF Prepare, Nothing, Execute, Check, Reply, Calm, Still, Connected
  <2>3. at[w] \in Connected \/ ~up[w]
    BY <1>t, <2>2 DEF TypeInv, Sockets, SocketOK
  <2> QED  BY <2>1, <2>2, <2>3, SameFades, PassesOn
<1> QED  BY <1>1, <1>2, <1>3, <1>4, <1>5 DEF Start


-----------------------------------------------------------------------------
(* The expiry begins, and the broker acts.                                 *)

\* All that waits is known and cancelled; what filled has been told before the
\* answer, which is asked for because what filled was known as well.
LEMMA ExpireBeginExpiry ==
  ASSUME ~CancelsFail, ExpireInv, NEW w \in Worker, ExpireBegin(w)
  PROVE  \A v \in Worker : ExpiryOK(v)'
<1>t. TypeInv /\ ExpiryOK(w)
  BY DEF ExpireInv, SendInv
<1>m. mem[w].inbox \in Seq(Message) /\ Answer \in Message /\ \A l \in AllLegs : <<"fill", l>> \in Message
  BY <1>t, Remembered DEF TypeInv, Message, Answer, Handler
<1>1. /\ up[w] /\ mem[w].timer /\ Cancelling(w, "expire") /\ at' = at /\ up' = up /\ mode' = mode
      /\ "expire" \in Handler
  BY DEF ExpireBegin, Calm, Still, Handler
<1>2. /\ Fades /\ ~mem'[w].timer /\ mem'[w].filled = mem[w].filled /\ mem'[w].open = mem[w].open
      /\ mem'[w].adding = mem[w].adding /\ mem'[w].known = mem[w].known
      /\ mem'[w].inbox = IF mem[w].known = {} THEN mem[w].inbox ELSE Append(mem[w].inbox, Answer)
      /\ \A v \in Worker \ {w} : doing'[v] = doing[v] /\ mem'[v] = mem[v]
  BY <1>t, <1>1, CancellingMemory DEF Answer
<1>3. Leg' = Leg /\ Leg \subseteq AllLegs
  BY <1>1, WorkerAssumption DEF Leg, AllLegs
<1>4. \A l \in AllLegs : order'[l] = IF l \in mem[w].known /\ order[l] = "pending" THEN "done"
                                     ELSE order[l]
  BY <1>1 DEF Cancelling, CancelOrders
<1>5. at[w] \in {"idle", "orphaned"}
  BY <1>t, <1>1 DEF ExpiryOK, StartsOver
<1>6. ResetOK(w)' /\ CountsFills(w)' /\ StartsOver(w)'
  BY <1>t, <1>1, <1>2, <1>5 DEF ExpiryOK, ResetOK, CountsFills, StartsOver
<1>7. KnowsOrders(w)' /\ AwaitsSent(w)'
  BY <1>t, <1>1, <1>2, <1>3, <1>4, <1>5 DEF KnowsOrders, Connected, ExpiryOK, AwaitsSent
<1>8. ASSUME NEW l \in Leg, ~mem[w].filled
      PROVE  /\ order'[l] # "pending"
             /\ order'[l] = "open" => Behind(mem'[w].inbox, <<"fill", l>>, Answer)
                                      /\ Hears(mem'[w].inbox, <<"fill", l>>)
  <2>1. l \in AllLegs /\ (Live(l) => l \in mem[w].known)
    BY <1>t, <1>1, <1>3, <1>8 DEF ExpiryOK, KnowsOrders
  <2>2. order'[l] # "pending"
    BY <1>4, <2>1 DEF Live
  <2>3. ASSUME order'[l] = "open"
        PROVE  Behind(mem'[w].inbox, <<"fill", l>>, Answer) /\ Hears(mem'[w].inbox, <<"fill", l>>)
    <3>1. order[l] = "open" /\ l \in mem[w].known
      BY <1>4, <2>1, <2>3 DEF Live
    <3>2. Hears(mem[w].inbox, <<"fill", l>>)
      BY <1>t, <1>1, <1>8, <3>1 DEF ExpiryOK, HearsFills
    <3>3. mem'[w].inbox = Append(mem[w].inbox, Answer)
      BY <1>2, <3>1
    <3> QED  BY <1>m, <2>1, <3>2, <3>3, AppendHears
  <2> QED  BY <2>2, <2>3
<1>9. HearsFills(w)' /\ Withdrawn(w)'
  BY <1>2, <1>3, <1>8 DEF HearsFills, Withdrawn
<1>10. ExpiryOK(w)'
  BY <1>6, <1>7, <1>9 DEF ExpiryOK
<1> QED  BY <1>1, <1>2, <1>10, ElsewhereKept DEF ExpireInv, Elsewhere

LEMMA ToldMemory ==
  ASSUME TypeInv, NEW kind \in {"fill", "close"}, NEW l \in AllLegs, Told(kind, l), NEW v \in Worker
  PROVE  /\ ~up[v] => mem'[v] = mem[v]
         /\ mem'[v].inbox = IF up[v] THEN Append(mem[v].inbox, <<kind, l>>) ELSE mem[v].inbox
         /\ mem'[v].timer = mem[v].timer /\ mem'[v].leg = mem[v].leg
         /\ mem'[v].filled = mem[v].filled /\ mem'[v].known = mem[v].known
         /\ mem'[v].open = mem[v].open /\ mem'[v].adding = mem[v].adding
<1>1. mem[v] \in Memory
  BY Remembered DEF TypeInv
<1>2. PICK q : q = Append(mem[v].inbox, <<kind, l>>)
  OBVIOUS
<1>3. PICK m : m = [mem[v] EXCEPT !.inbox = q]
  OBVIOUS
<1>4. mem'[v] = IF up[v] THEN m ELSE mem[v]
  BY <1>2, <1>3 DEF Told
<1>5. /\ m.inbox = q /\ m.timer = mem[v].timer /\ m.leg = mem[v].leg /\ m.filled = mem[v].filled
      /\ m.known = mem[v].known /\ m.open = mem[v].open /\ m.adding = mem[v].adding
  BY <1>1, <1>3 DEF Memory
<1> QED  BY <1>2, <1>4, <1>5

\* Every Runtime is told of a fill when it happens; a cancelled order does not fill.
LEMMA FillExpiry ==
  ASSUME ExpireInv, NEW k \in Leg, Fill(k), NEW v \in Worker
  PROVE  ExpiryOK(v)'
<1>t. TypeInv /\ ExpiryOK(v) /\ k \in AllLegs
  BY WorkerAssumption DEF ExpireInv, SendInv, Leg, AllLegs
<1>1. /\ order[k] = "pending" /\ order' = [order EXCEPT ![k] = "open"] /\ Told("fill", k)
      /\ mode' = mode /\ at' = at /\ up' = up /\ doing' = doing
  BY DEF Fill, Calm, Still, Quiet
<1>2. Leg' = Leg /\ Leg \subseteq AllLegs
  BY <1>1, WorkerAssumption DEF Leg, AllLegs
<1>3. /\ ~up[v] => mem'[v] = mem[v]
      /\ up[v] => mem'[v].inbox = Append(mem[v].inbox, <<"fill", k>>)
      /\ mem'[v].timer = mem[v].timer /\ mem'[v].leg = mem[v].leg
      /\ mem'[v].filled = mem[v].filled /\ mem'[v].known = mem[v].known
      /\ mem'[v].open = mem[v].open /\ mem'[v].adding = mem[v].adding
  BY <1>t, <1>1, ToldMemory
<1>4. mem[v].inbox \in Seq(Message) /\ \A l \in AllLegs : <<"fill", l>> \in Message
  BY <1>t, Remembered DEF TypeInv, Message
<1>5. \A l \in AllLegs : order'[l] = IF l = k THEN "open" ELSE order[l]
  BY <1>t, <1>1 DEF TypeInv, Surroundings
<1>6. \A l \in Leg : Live(l)' = Live(l)
  BY <1>1, <1>2, <1>5 DEF Live
<1>7. ResetOK(v)' /\ CountsFills(v)' /\ StartsOver(v)'
  BY <1>t, <1>1, <1>3 DEF ExpiryOK, ResetOK, CountsFills, StartsOver, Expiring
<1>8. HearsFills(v)'
  <2>1. ASSUME NEW l \in Leg, order'[l] = "open", up[v], ~mem[v].filled
        PROVE  Hears(mem'[v].inbox, <<"fill", l>>)
    <3>1. l = k \/ Hears(mem[v].inbox, <<"fill", l>>)
      BY <1>t, <1>2, <1>5, <2>1 DEF ExpiryOK, HearsFills
    <3> QED  BY <1>t, <1>2, <1>3, <1>4, <2>1, <3>1, AppendHears
  <2> QED  BY <1>1, <1>2, <1>3, <2>1 DEF HearsFills
<1>9. KnowsOrders(v)'
  BY <1>t, <1>1, <1>2, <1>3, <1>6 DEF ExpiryOK, KnowsOrders
<1>10. Withdrawn(v)'
  BY <1>t, <1>1, <1>3 DEF ExpiryOK, Withdrawn, Expiring
<1>11. AwaitsSent(v)'
  BY <1>t, <1>1, <1>2, <1>3, <1>5 DEF ExpiryOK, AwaitsSent
<1> QED  BY <1>7, <1>8, <1>9, <1>10, <1>11 DEF ExpiryOK

\* An order is accepted while the start that sent it waits for the answer.
LEMMA AcceptExpiry ==
  ASSUME ExpireInv, NEW k \in Leg, Accepts(k), NEW v \in Worker
  PROVE  ExpiryOK(v)'
<1>t. TypeInv /\ ExpiryOK(v) /\ k \in AllLegs
  BY WorkerAssumption DEF ExpireInv, SendInv, Leg, AllLegs
<1>1. /\ order[k] = "sent" /\ order' = [order EXCEPT ![k] = "pending"]
      /\ mode' = mode /\ at' = at /\ up' = up /\ doing' = doing /\ mem' = mem
  BY DEF Accepts, Calm, Still, Quiet
<1>2. Leg' = Leg /\ Leg \subseteq AllLegs
  BY <1>1, WorkerAssumption DEF Leg, AllLegs
<1>3. \A l \in AllLegs : order'[l] = IF l = k THEN "pending" ELSE order[l]
  BY <1>t, <1>1 DEF TypeInv, Surroundings
<1>4. \A l \in Leg : Live(l)' = Live(l)
  BY <1>1, <1>2, <1>3 DEF Live
<1>5. up[v] => ~Expiring(v)
  BY <1>t, <1>1 DEF ExpiryOK, AwaitsSent, StartsOver
<1>6. /\ ResetOK(v)' /\ CountsFills(v)' /\ HearsFills(v)' /\ StartsOver(v)'
  BY <1>t, <1>1, <1>2, <1>3
  DEF ExpiryOK, ResetOK, CountsFills, HearsFills, StartsOver, Expiring
<1>7. KnowsOrders(v)'
  BY <1>t, <1>1, <1>2, <1>4 DEF ExpiryOK, KnowsOrders
<1>8. AwaitsSent(v)' /\ Withdrawn(v)'
  BY <1>t, <1>1, <1>2, <1>3, <1>5 DEF ExpiryOK, AwaitsSent, Withdrawn, Expiring
<1> QED  BY <1>6, <1>7, <1>8 DEF ExpiryOK

LEMMA OutsideExpiry ==
  ASSUME ExpireInv, 
         \/ Tick \/ SetHalt \/ Ask \/ LeaseLapses \/ UNCHANGED vars
         \/ \E l \in Leg : Brokered(l),
         NEW v \in Worker
  PROVE  ExpiryOK(v)'
<1>t. TypeInv /\ ExpiryOK(v)
  BY DEF ExpireInv, SendInv
<1>1. CASE \/ Tick \/ SetHalt \/ Ask \/ LeaseLapses \/ UNCHANGED vars
           \/ \E l \in Leg : BrokerExpires(l) \/ Refuses(l)
  <2>1. at' = at /\ up' = up /\ doing' = doing /\ mem' = mem /\ mode' = mode
    BY <1>1 DEF Tick, SetHalt, Ask, LeaseLapses, BrokerExpires, Refuses, Quiet, Calm, Still, vars, env
  <2>2. Fades
    <3>1. CASE account' = account
      BY <3>1, SameFades
    <3>2. ASSUME NEW k \in Leg, BrokerExpires(k) \/ Refuses(k) PROVE Fades
      <4>1. PICK over \in {"done", "none"} : order' = [order EXCEPT ![k] = over]
        BY <3>2 DEF BrokerExpires, Refuses
      <4>2. order \in [AllLegs -> {"none", "sent", "pending", "open", "done"}]
        BY <1>t DEF TypeInv, Surroundings
      <4> QED  BY <4>1, <4>2 DEF Fades
    <3> QED  BY <1>1, <3>1, <3>2 DEF Tick, SetHalt, Ask, LeaseLapses, vars
  <2> QED  BY <1>t, <2>1, <2>2, MilderKeeps, SameIsMilder DEF Expiring, Waits
<1>2. ASSUME NEW k \in Leg, Stopped(k) PROVE ExpiryOK(v)'
  <2>1. /\ order' = [order EXCEPT ![k] = "done"] /\ Told("close", k)
        /\ mode' = mode /\ at' = at /\ up' = up /\ doing' = doing /\ k \in AllLegs
    BY <1>2, WorkerAssumption DEF Stopped, Calm, Still, Quiet, Leg, AllLegs
  <2>2. Fades
    BY <1>t, <2>1 DEF Fades, TypeInv, Surroundings
  <2>3. /\ mem[v].inbox \in Seq(Message) /\ Answer \in Message /\ <<"close", k>> \in Message
        /\ \A l \in AllLegs : <<"fill", l>> \in Message
    BY <1>t, <2>1, Remembered DEF TypeInv, Message, Answer, Handler
  <2>4. ASSUME NEW l \in AllLegs
        PROVE  /\ Hears(mem[v].inbox, <<"fill", l>>) => Hears(mem'[v].inbox, <<"fill", l>>)
               /\ Behind(mem[v].inbox, <<"fill", l>>, Answer)
                    => Behind(mem'[v].inbox, <<"fill", l>>, Answer)
    <3>1. mem'[v].inbox = IF up[v] THEN Append(mem[v].inbox, <<"close", k>>) ELSE mem[v].inbox
      BY <1>t, <2>1, ToldMemory
    <3>2. <<"fill", l>> \in Message
      BY <2>3
    <3> QED  BY <2>3, <3>1, <3>2, AppendHears, AppendBehind
  <2>5. Milder(v)
    BY <1>t, <2>1, <2>4, ToldMemory DEF Milder
  <2> QED  BY <1>t, <2>1, <2>2, <2>5, MilderKeeps DEF Expiring, Waits
<1>3. ASSUME NEW k \in Leg, Fill(k) PROVE ExpiryOK(v)'
  BY <1>3, FillExpiry
<1>4. ASSUME NEW k \in Leg, Accepts(k) PROVE ExpiryOK(v)'
  BY <1>4, AcceptExpiry
<1> QED  BY <1>1, <1>2, <1>3, <1>4 DEF Brokered

-----------------------------------------------------------------------------
(* The lease while an expiry is to be written.                             *)

\* Only the expiry of a Runtime begins one.
LEMMA ExpiringBefore ==
  ASSUME TypeInv, [Next]_vars, NEW v \in Worker, Expiring(v)'
  PROVE  Expiring(v) \/ up[v]
<1>t. doing \in [Worker -> SUBSET Handler]
  BY DEF TypeInv, Control
<1>1. ASSUME NEW w \in Worker, ExpireBegin(w) PROVE Expiring(v) \/ up[v]
  BY <1>t, <1>1 DEF ExpireBegin, Cancelling, Enter, Expiring
<1>2. ASSUME NEW w \in Worker, NEW h \in Handler, h # "expire", Enter(w, h) PROVE Expiring(v)
  BY <1>t, <1>2 DEF Enter, Expiring
<1>3. ASSUME NEW w \in Worker, NEW h \in Handler, Leave(w, h) PROVE Expiring(v)
  BY <1>t, <1>3 DEF Leave, Expiring
<1>4. ASSUME doing' = doing PROVE Expiring(v)
  BY <1>4 DEF Expiring
<1>5. ASSUME NEW w \in Worker, Start(w) PROVE Expiring(v)
  <2>1. doing' = doing \/ Enter(w, "reject")
    BY <1>5 DEF Start, StartRefused, PreflightRefused, Recover, CloseStale, StartLost, Prepare, Ready,
       Execute, Check, Send, SendRefused, Reply, Record, Orphaned, Fails, Cancelling
  <2> QED  BY <1>2, <1>4, <2>1 DEF Handler
<1>6. ASSUME NEW w \in Worker, Handle(w), ~ExpireBegin(w) PROVE Expiring(v)
  <2>1. CASE FillSeen(w) \/ FillDone(w) \/ CloseSeen(w) \/ CloseDone(w) \/ Answered(w)
    BY <1>4, <2>1 DEF FillSeen, FillDone, CloseSeen, CloseDone, Answered
  <2>2. CASE KillBegin(w) \/ UserBegin(w, "close") \/ UserBegin(w, "cancel")
    <3>1. PICK h \in {"halt", "close", "cancel"} : Enter(w, h)
      BY <2>2 DEF KillBegin, UserBegin, Cancelling
    <3> QED  BY <1>2, <3>1 DEF Handler
  <2>3. CASE \/ ExpireEnd(w) \/ KillEnd(w) \/ UserCloseEnd(w) \/ UserCancelEnd(w)
             \/ RejectEnd(w) \/ Release(w)
    <3>1. PICK h \in Handler : Leave(w, h)
      BY <2>3 DEF ExpireEnd, KillEnd, UserCloseEnd, UserCancelEnd, RejectEnd, Release, Handler
    <3> QED  BY <1>3, <3>1
  <2> QED  BY <1>6, <2>1, <2>2, <2>3 DEF Handle
<1>7. ASSUME NEW w \in Worker, tick(w) \/ Disconnect(w) \/ TimedOut(w) \/ Crash(w)
      PROVE  Expiring(v)
  <2>1. CASE Crash(w)
    BY <1>t, <2>1 DEF Crash, Expiring
  <2>2. CASE tick(w) \/ Disconnect(w) \/ TimedOut(w)
    BY <1>2, <1>4, <2>2 DEF tick, Disconnect, TimedOut, Handler
  <2> QED  BY <1>7, <2>1, <2>2
<1>8. CASE \/ Tick \/ SetHalt \/ Ask \/ LeaseLapses \/ UNCHANGED vars
           \/ \E l \in Leg : Brokered(l)
  BY <1>4, <1>8 DEF Tick, SetHalt, Ask, LeaseLapses, Brokered, Accepts, Refuses, Fill, Stopped,
     BrokerExpires, Quiet, vars
<1> QED  BY <1>1, <1>5, <1>6, <1>7, <1>8 DEF Next, Brokered

LEMMA LeaseHeldKept ==
  ASSUME RenewedInTime, ExpireInv, [Next]_vars, NEW v \in Worker
  PROVE  LeaseHeld(v)'
<1>1. SUFFICES ASSUME Expiring(v)'
               PROVE  row'.status # "SCHEDULED" /\ (row'.status \in Terminal \/ row'.lease = "live")
  BY DEF LeaseHeld
<1>t. TypeInv /\ CustodyInv
  BY DEF ExpireInv, SendInv
<1>2. row.status # "SCHEDULED" /\ (row.status \in Terminal \/ row.lease = "live")
  <2>1. CASE Expiring(v)
    BY <2>1 DEF ExpireInv, LeaseHeld
  <2>2. CASE up[v]
    BY <1>t, <2>2 DEF CustodyInv, Leased, LeaseOK, Holds
  <2> QED  BY <1>1, <1>t, <2>1, <2>2, ExpiringBefore
<1>3. CASE ~Changes
  BY <1>t, <1>2, <1>3, OthersTame DEF CustodyInv, Tame, RowKept
<1>4. ASSUME NEW w \in Worker, tick(w) PROVE FALSE
  BY <1>2, <1>4 DEF tick, Free, Running, Terminal
<1>5. ASSUME NEW w \in Worker, Release(w)
      PROVE  row'.status # "SCHEDULED" /\ (row'.status \in Terminal \/ row'.lease = "live")
  BY <1>t, <1>2, <1>5 DEF Release, CustodyInv, Control, Row
<1>6. CASE LeaseLapses
  <2>1. doing[v] = {} /\ doing' = doing
    BY <1>6 DEF LeaseLapses, RenewedInTime
  <2> QED  BY <1>1, <2>1 DEF Expiring
<1> QED  BY <1>3, <1>4, <1>5, <1>6 DEF Changes

-----------------------------------------------------------------------------
LEMMA ExpireStarts == Init => ExpireInv
<1>1. Init => SendInv
  BY TypesStart, CustodyStarts DEF Init, SendInv, NeverDoubled, AheadIsFree, Connected
<1>2. ASSUME Init, NEW w \in Worker PROVE ExpiryOK(w) /\ LeaseHeld(w)
  BY <1>2 DEF Init, ExpiryOK, ResetOK, CountsFills, HearsFills, KnowsOrders, AwaitsSent, StartsOver,
     Withdrawn, LeaseHeld, Expiring, Blank
<1> QED  BY <1>1, <1>2 DEF ExpireInv

LEMMA ExpireKept ==
  ASSUME RenewedInTime, ~CancelsFail, ExpireInv, [Next]_vars
  PROVE  ExpireInv'
<1>t. TypeInv /\ \A v \in Worker : ExpiryOK(v)
  BY DEF ExpireInv, SendInv
<1>1. SendInv'
  BY SendKept DEF ExpireInv
<1>2. \A v \in Worker : LeaseHeld(v)'
  BY LeaseHeldKept
<1>3. \A v \in Worker : ExpiryOK(v)'
  <2>1. ASSUME NEW w \in Worker, tick(w) \/ Start(w) PROVE \A v \in Worker : ExpiryOK(v)'
    BY <2>1, ClaimExpiry, StartExpiry
  <2>2. ASSUME NEW w \in Worker, Handle(w) PROVE \A v \in Worker : ExpiryOK(v)'
    BY <1>t, <2>2, MessageKeeps, EndingKeeps, BeginningKeeps, ExpireBeginExpiry DEF Handle
  <2>3. ASSUME NEW w \in Worker, Disconnect(w) \/ TimedOut(w) \/ Crash(w)
        PROVE  \A v \in Worker : ExpiryOK(v)'
    BY <1>t, <2>3, LosesKeep
  <2>4. CASE \/ Tick \/ SetHalt \/ Ask \/ LeaseLapses \/ UNCHANGED vars
             \/ \E l \in Leg : Brokered(l)
    BY <2>4, OutsideExpiry
  <2> QED  BY <2>1, <2>2, <2>3, <2>4 DEF Next, Brokered
<1> QED  BY <1>1, <1>2, <1>3 DEF ExpireInv

\* Who ends the handler of an expiry with its socket open and writes EXPIRED has
\* run it to its end.
LEMMA WhoExpires ==
  ASSUME ExpireInv, NEW w \in Worker, [Next]_vars, up[w], "expire" \in doing[w] \ doing'[w],
         row.status # "EXPIRED", row'.status = "EXPIRED"
  PROVE  ExpireEnd(w)
<1>t. doing \in [Worker -> SUBSET Handler] /\ row \in Row
  BY DEF ExpireInv, SendInv, TypeInv, Control
<1>1. doing' # doing
  OBVIOUS
<1>2. ASSUME NEW v \in Worker, NEW h \in Handler, Enter(v, h) PROVE FALSE
  BY <1>t, <1>2 DEF Enter
<1>3. ASSUME NEW v \in Worker, NEW h \in Handler, Leave(v, h) PROVE v = w /\ h = "expire"
  BY <1>t, <1>3 DEF Leave
<1>4. ASSUME NEW v \in Worker,
             \/ KillEnd(v) \/ UserCloseEnd(v) \/ UserCancelEnd(v) \/ RejectEnd(v) \/ Release(v)
      PROVE  FALSE
  <2>1. PICK h \in Handler \ {"expire"} : Leave(v, h)
    BY <1>4 DEF KillEnd, UserCloseEnd, UserCancelEnd, RejectEnd, Release, Handler
  <2> QED  BY <1>3, <2>1
<1>5. ASSUME NEW v \in Worker, ExpireEnd(v) PROVE v = w
  BY <1>3, <1>5 DEF ExpireEnd, Handler
<1>6. ASSUME NEW v \in Worker,
             \/ ExpireBegin(v) \/ KillBegin(v) \/ UserBegin(v, "close") \/ UserBegin(v, "cancel")
      PROVE  FALSE
  <2>1. PICK h \in Handler : Enter(v, h)
    BY <1>6 DEF ExpireBegin, KillBegin, UserBegin, Cancelling, Handler
  <2> QED  BY <1>2, <2>1
<1>7. ASSUME NEW v \in Worker, Start(v) PROVE FALSE
  <2>1. doing' = doing \/ Enter(v, "reject")
    BY <1>7 DEF Start, StartRefused, PreflightRefused, Recover, CloseStale, StartLost, Prepare, Ready,
       Execute, Check, Send, SendRefused, Reply, Record, Orphaned, Fails, Cancelling
  <2> QED  BY <1>1, <1>2, <2>1 DEF Handler
<1>8. ASSUME NEW v \in Worker, tick(v) \/ Disconnect(v) \/ TimedOut(v) \/ Crash(v) PROVE FALSE
  <2>1. row' = row \/ doing' = doing
    BY <1>8 DEF tick, Disconnect, TimedOut, Crash
  <2> QED  BY <1>1, <2>1
<1>9. ASSUME NEW v \in Worker,
             FillSeen(v) \/ FillDone(v) \/ CloseSeen(v) \/ CloseDone(v) \/ Answered(v)
      PROVE  FALSE
  BY <1>1, <1>9 DEF FillSeen, FillDone, CloseSeen, CloseDone, Answered
<1>10. CASE \/ Tick \/ SetHalt \/ Ask \/ LeaseLapses \/ UNCHANGED vars
            \/ \E l \in Leg : Brokered(l)
  BY <1>1, <1>10 DEF Tick, SetHalt, Ask, LeaseLapses, Brokered, Accepts, Refuses, Fill, Stopped,
     BrokerExpires, Quiet, vars
<1>11. PICK v \in Worker : ExpireEnd(v)
  BY <1>4, <1>6, <1>7, <1>8, <1>9, <1>10 DEF Next, Handle, Brokered
<1> QED  BY <1>5, <1>11

\* While leases are renewed in time and the broker cancels what it is told to, an
\* instance that writes EXPIRED with its socket open leaves no order and no
\* position: a fill that came before the cancellation has been handled before.
THEOREM ExpiredMeansNothingLeft ==
  ASSUME RenewedInTime, ~CancelsFail PROVE Spec => ExpiredIsTrue
<1>1. ASSUME ExpireInv, [Next]_vars
      PROVE  \A w \in Worker :
               /\ up[w] /\ "expire" \in doing[w] \ doing'[w]
               /\ row.status # "EXPIRED" /\ row'.status = "EXPIRED"
               => \A l \in Leg : ~Live(l)
  <2>1. ASSUME NEW w \in Worker, up[w], "expire" \in doing[w] \ doing'[w],
               row.status # "EXPIRED", row'.status = "EXPIRED", NEW l \in Leg
        PROVE  ~Live(l)
    <3>1. ExpireEnd(w)
      BY <1>1, <2>1, WhoExpires
    <3>2. row \in Row
      BY <1>1 DEF ExpireInv, SendInv, TypeInv, Control
    <3>3. ~mem[w].filled
      BY <2>1, <3>1, <3>2 DEF ExpireEnd, Moved, Row
    <3>4. ~Behind(mem[w].inbox, <<"fill", l>>, Answer)
      BY <3>1 DEF ExpireEnd, Leave, Behind, Answer
    <3>5. order[l] \notin {"pending", "open"}
      BY <1>1, <2>1, <3>3, <3>4 DEF ExpireInv, ExpiryOK, Withdrawn, Expiring
    <3>6. order[l] # "sent"
      BY <1>1, <2>1 DEF ExpireInv, ExpiryOK, AwaitsSent, StartsOver, Expiring
    <3> QED  BY <3>5, <3>6 DEF Live
  <2> QED  BY <2>1
<1>2. ExpireInv /\ [Next]_vars => ExpireInv'
  BY ExpireKept
<1> QED  BY <1>1, <1>2, ExpireStarts, PTL DEF Spec, ExpiredIsTrue

=============================================================================
