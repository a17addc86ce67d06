---- MODULE PillMgr ----
(***************************************************************************)
(* Pills (memory chips) that players plug in and pull out at any moment,   *)
(* the manager that looks for one every second (embedded/Pill/             *)
(* pill_mgr.cpp), the main loop's queue that carries what it found, and a  *)
(* behaviour that follows api/behavior.h: it keeps pill_manager between    *)
(* OnPillConnected and OnPillDisconnected and writes the pill meanwhile.   *)
(* A transfer on the bus is one step.  The content of a page is old or new.*)
(***************************************************************************)
EXTENDS Naturals, Sequences

CONSTANTS Pills,
          Pages,        \* of PILL_PAGE_SZ bytes in a PillState
          QSize,        \* places in EvtQMain
          MaxMoves,     \* bound: pills plugged in or pulled out
          MaxFailures,  \* bound: transfers that fail though a pill is there
          MaxOther      \* bound: events of other sources

ASSUME PillAssumption == /\ Pages \in Nat \ {0} /\ QSize \in Nat \ {0}
                         /\ {MaxMoves, MaxFailures, MaxOther} \subseteq Nat
                         /\ "none" \notin Pills

VARIABLES socket,               \* the pill plugged in, or "none"
          content,              \* pages of every pill
          IsConnectedNow, q, pill_manager,
          pc, page, retries,    \* the main loop and Write's locals
          target,               \* history: the only pill in the socket since Write began
          refused,              \* history: a pill event found EvtQMain full
          moves, failures, other

write == <<page, retries, target>>
bounds == <<moves, failures, other>>
vars == <<socket, content, IsConnectedNow, q, pill_manager, pc, write, refused, bounds>>

Events == {"evtIdEverySecond", "evtIdPillConnected", "evtIdPillDisconnected", "evtIdButtons"}

TypeOK == /\ socket \in Pills \cup {"none"} /\ content \in [Pills -> [1..Pages -> {"old", "new"}]]
          /\ IsConnectedNow \in BOOLEAN /\ pill_manager \in BOOLEAN /\ refused \in BOOLEAN
          /\ q \in Seq(Events) /\ Len(q) <= QSize
          /\ pc \in {"fetch", "write", "poll"} /\ page \in 1..(Pages + 1) /\ retries \in 0..4
          /\ target \in Pills \cup {"none"}
          /\ moves \in 0..MaxMoves /\ failures \in 0..MaxFailures /\ other \in 0..MaxOther

Init == /\ socket = "none" /\ content = [p \in Pills |-> [n \in 1..Pages |-> "old"]]
        /\ IsConnectedNow = FALSE /\ q = <<>> /\ pill_manager = FALSE
        /\ pc = "fetch" /\ page = 1 /\ retries = 0 /\ target = "none"
        /\ refused = FALSE /\ moves = 0 /\ failures = 0 /\ other = 0
----
(* i2c_t's transfers: one with an empty socket fails, and so may any other. *)
Answers == socket # "none" /\ UNCHANGED failures
Fails   == \/ socket = "none" /\ UNCHANGED failures
           \/ socket # "none" /\ failures < MaxFailures /\ failures' = failures + 1

(* EvtQMain.SendNowOrExit *)
Send(e, rest) == IF Len(rest) < QSize THEN q' = Append(rest, e) /\ UNCHANGED refused
                                      ELSE q' = rest /\ refused' = TRUE

Fetch(e) == pc = "fetch" /\ q # <<>> /\ Head(q) = e

(* mutant: IsConnectedNow follows the chip only when a pill is found *)
CheckForgets ==
  IF IsConnectedNow
    THEN \/ Answers /\ q' = Tail(q) /\ UNCHANGED <<IsConnectedNow, refused>>
         \/ Fails /\ UNCHANGED IsConnectedNow /\ Send("evtIdPillDisconnected", Tail(q))
    ELSE \/ Answers /\ IsConnectedNow' = TRUE /\ Send("evtIdPillConnected", Tail(q))
         \/ Fails /\ q' = Tail(q) /\ UNCHANGED <<IsConnectedNow, refused>>

(* mutant: a pill that stopped answering is not reported *)
CheckSilent ==
  IF IsConnectedNow
    THEN \/ Answers /\ q' = Tail(q) /\ UNCHANGED <<IsConnectedNow, refused>>
         \/ Fails /\ IsConnectedNow' = FALSE /\ q' = Tail(q) /\ UNCHANGED refused
    ELSE \/ Answers /\ IsConnectedNow' = TRUE /\ Send("evtIdPillConnected", Tail(q))
         \/ Fails /\ q' = Tail(q) /\ UNCHANGED <<IsConnectedNow, refused>>

(* PillMgr_t::Check: CheckAddress of a known pill, Read of a new one *)
Check == IF IsConnectedNow
           THEN \/ Answers /\ q' = Tail(q) /\ UNCHANGED <<IsConnectedNow, refused>>
                \/ Fails /\ IsConnectedNow' = FALSE /\ Send("evtIdPillDisconnected", Tail(q))
           ELSE \/ Answers /\ IsConnectedNow' = TRUE /\ Send("evtIdPillConnected", Tail(q))
                \/ Fails /\ q' = Tail(q) /\ UNCHANGED <<IsConnectedNow, refused>>

(* The behaviour returns, or it calls WritePill first. *)
Return == pc' = "fetch" /\ UNCHANGED write
BeginWrite == /\ pc' = "write" /\ page' = 1 /\ retries' = 0 /\ target' = socket

EverySecond == /\ Fetch("evtIdEverySecond") /\ Check /\ Return
               /\ UNCHANGED <<socket, content, pill_manager, moves, other>>

OnPillConnected == /\ Fetch("evtIdPillConnected") /\ q' = Tail(q)
                   /\ pill_manager' = TRUE
                   /\ Return \/ BeginWrite
                   /\ UNCHANGED <<socket, content, IsConnectedNow, refused, bounds>>

OnPillDisconnected == /\ Fetch("evtIdPillDisconnected") /\ q' = Tail(q)
                      /\ pill_manager' = FALSE
                      /\ Return
                      /\ UNCHANGED <<socket, content, IsConnectedNow, refused, bounds>>

(* A later event: the behaviour writes if (pill_manager). *)
OnButtonPressed == /\ Fetch("evtIdButtons") /\ q' = Tail(q)
                   /\ Return \/ (pill_manager /\ BeginWrite)
                   /\ UNCHANGED <<socket, content, IsConnectedNow, pill_manager, refused, bounds>>

(* mutant: the next page is begun after a failed try as well *)
WriteFailedSkips == /\ pc = "write" /\ Fails
                    /\ IF retries < 4 THEN retries' = retries + 1 /\ page' = page + 1 /\ UNCHANGED target
                                           /\ pc' = IF page = Pages THEN "poll" ELSE "write"
                                      ELSE Return
                    /\ UNCHANGED <<socket, content, IsConnectedNow, q, pill_manager, refused, moves, other>>

(* PillMgr_t::Write, one try of a page: four failures are forgiven. *)
WriteFailed == /\ pc = "write" /\ Fails
               /\ IF retries < 4 THEN retries' = retries + 1 /\ UNCHANGED <<pc, page, target>>
                                 ELSE Return
               /\ UNCHANGED <<socket, content, IsConnectedNow, q, pill_manager, refused, moves, other>>

WritePage == /\ pc = "write" /\ Answers
             /\ content' = [content EXCEPT ![socket][page] = "new"]
             /\ page' = page + 1 /\ retries' = 0 /\ UNCHANGED target
             /\ pc' = IF page = Pages THEN "poll" ELSE "write"
             /\ UNCHANGED <<socket, IsConnectedNow, q, pill_manager, refused, moves, other>>

(* The memory's answer ends the write; five polls without one give up. *)
WriteOk == /\ pc = "poll" /\ Answers /\ Return
           /\ UNCHANGED <<socket, content, IsConnectedNow, q, pill_manager, refused, moves, other>>

PollFailed == /\ pc = "poll" /\ Fails
              /\ IF retries < 4 THEN retries' = retries + 1 /\ UNCHANGED <<pc, page, target>>
                                ELSE Return
              /\ UNCHANGED <<socket, content, IsConnectedNow, q, pill_manager, refused, moves, other>>

MainLoop == \/ EverySecond \/ OnPillConnected \/ OnPillDisconnected \/ OnButtonPressed
            \/ WriteFailed \/ WritePage \/ WriteOk \/ PollFailed
----
(* The environment: hands, the one-second timer, buttons.  Their events are
   lost when EvtQMain is full. *)
Plug == /\ socket = "none" /\ socket' \in Pills
        /\ moves < MaxMoves /\ moves' = moves + 1
        /\ target' = IF socket' = target THEN target ELSE "none"
        /\ UNCHANGED <<content, IsConnectedNow, q, pill_manager, pc, page, retries, refused, failures, other>>

Pull == /\ socket # "none" /\ socket' = "none"
        /\ moves < MaxMoves /\ moves' = moves + 1
        /\ UNCHANGED <<content, IsConnectedNow, q, pill_manager, pc, write, refused, failures, other>>

Second == /\ Len(q) < QSize /\ q' = Append(q, "evtIdEverySecond")
          /\ UNCHANGED <<socket, content, IsConnectedNow, pill_manager, pc, write, refused, bounds>>

Button == /\ Len(q) < QSize /\ q' = Append(q, "evtIdButtons")
          /\ other < MaxOther /\ other' = other + 1
          /\ UNCHANGED <<socket, content, IsConnectedNow, pill_manager, pc, write, refused, moves, failures>>

Next == MainLoop \/ Plug \/ Pull \/ Second \/ Button

(* The main loop runs on, and a timer that finds a place for its event again
   and again uses it. *)
Spec == Init /\ [][Next]_vars /\ WF_vars(MainLoop) /\ SF_vars(Second)
----
(* The behaviour is told of connections and disconnections in turn, and what
   it was told and is still to be told ends at what the manager found last,
   unless an event was refused: the test of pill_manager that api/behavior.h
   recommends is as good as IsConnectedNow. *)
PillAt(s, i)    == s[i] \in {"evtIdPillConnected", "evtIdPillDisconnected"}
NoneIn(s, i, j) == \A k \in 1..Len(s) : i < k /\ k < j => ~PillAt(s, k)

\* The pill events in s lead from what was told to what was found.
InTurn(s, told, found) ==
  /\ \A i \in 1..Len(s) : PillAt(s, i) =>
       /\ NoneIn(s, 0, i) => (s[i] = "evtIdPillConnected" <=> ~told)
       /\ \A j \in 1..Len(s) : i < j /\ PillAt(s, j) /\ NoneIn(s, i, j) => s[i] # s[j]
       /\ NoneIn(s, i, Len(s) + 1) => (s[i] = "evtIdPillConnected" <=> found)
  /\ NoneIn(s, 0, Len(s) + 1) => (told <=> found)

ToldInTurn == ~refused => InTurn(q, pill_manager, IsConnectedNow)

(* A write that ends with retvOk has written the whole pill, whatever failed
   and however often it was pulled out on the way, unless another pill was
   plugged in meanwhile. *)
OkMeansWritten ==
  [][WriteOk /\ socket = target => \A n \in 1..Pages : content[socket][n] = "new"]_vars

(* When players leave the socket alone, the behaviour in the end knows
   whether a pill is in it, unless an event was refused. *)
SettlesUnlessRefused == <>[](refused \/ pill_manager = (socket # "none"))
====
