------------------------------- MODULE Clients -------------------------------
(***************************************************************************)
(* One client object of a binding and its connection to iwordserver, with  *)
(* several callers that use the object at once:                            *)
(*   bindings/go/iwordserver.go           one call at a time, under mu;    *)
(*   bindings/python/iword/server.py      one call at a time, under _lock; *)
(*   bindings/node/iwordserver.js         any number of calls, whose       *)
(*                                        promises stand in _queue.        *)
(* Nothing in a reply says which request it answers: the clients go by the *)
(* order alone, and must keep in step with the server whatever fails.      *)
(*                                                                         *)
(* The server's side is what IwordServer and ConnBuffer show it to do:     *)
(* each line is answered, in order, until the connection ends.  Python's   *)
(* sockets may have a timeout.  Python's close has no step: while _file is *)
(* open the descriptor stays open, and calls go on as before.              *)
(***************************************************************************)
EXTENDS Requests

CONSTANTS
  Scripts,            \* what the callers ask: sequences of requests, one each
  None                \* no caller

Calls == UNION {DOMAIN s : s \in Scripts}

ASSUME ClientAssumption == None \notin Calls

\* What the clients have methods for.
ASSUME ScriptsAssumption ==
  \A s \in Scripts : \A c \in DOMAIN s :
    s[c] \in [op : {"seek", "map", "mask", "status", "ping"},
              arg : Seq(DOMAIN Width), mode : DOMAIN Digit]

VARIABLES
  binding,            \* which of the clients this is
  script,             \* the request of each caller
  at,                 \* where each call is
  got,                \* the reply each call was given, or NoReply
  lock,               \* Go, Python: the call that holds the lock, or None
  queue,              \* Node: _queue, the calls that wait for a reply
  closed,             \* Close was called; Node: _closed
  dead,               \* which of "send" and "recv" fail for good: Go's encoder and
                      \* decoder, Python's reader after a timeout
  partial,            \* what a send that was cut off has left in the stream
  lines,              \* lines on their way to the server
  replies,            \* replies on their way to the client
  conn                \* "up"; "half" when the client has ended its direction; "ended"
                      \* when the server then has; "left" when it is broken off

callVars == <<binding, script, at, got, lock, queue, closed, dead>>
netVars  == <<partial, lines, replies, conn>>
vars == <<binding, script, at, got, lock, queue, closed, dead, partial, lines, replies, conn>>

NoReply == [by |-> None, glued |-> FALSE, body |-> [kind |-> "none"]]

Init ==
  /\ binding \in Bindings /\ script \in Scripts
  /\ at = [c \in DOMAIN script |-> "new"]
  /\ got = [c \in DOMAIN script |-> NoReply]
  /\ lock = None /\ queue = <<>> /\ closed = FALSE /\ dead = {}
  /\ partial = <<>> /\ lines = <<>> /\ replies = <<>>
  /\ conn = "up"

Line(c) == Encode(binding, script[c])

\* What the socket does with a whole line: nobody gets it once the other end is gone.
Write(c) ==
  /\ lines' = IF conn = "up"
              THEN Append(lines, [by |-> c, text |-> partial \o Line(c), glued |-> partial # <<>>])
              ELSE lines
  /\ partial' = <<>>
  /\ UNCHANGED <<replies, conn>>

\* Fault: an error is an answer like any other.
AnsweredAlways(r) == "ok"

\* An answer of the server ends a call well, but for one that says "error".
Answered(r) == IF r.body.kind = "error" THEN "failed" ELSE "ok"

-----------------------------------------------------------------------------
(* Go's call and Python's _call                                            *)

Locked == binding \in {"go", "python"}

Lock(c) ==
  /\ Locked /\ at[c] = "new" /\ lock = None
  /\ at' = [at EXCEPT ![c] = "send"] /\ lock' = c
  /\ UNCHANGED <<binding, script, got, queue, closed, dead, netVars>>

GoClosed == binding = "go" /\ closed

Send(c) ==
  /\ at[c] = "send" /\ "send" \notin dead /\ ~ GoClosed
  /\ at' = [at EXCEPT ![c] = "recv"]
  /\ Write(c)
  /\ UNCHANGED <<binding, script, got, lock, queue, closed, dead>>

\* Go's encoder keeps the error and returns it to every later call.
SendFails(c) ==
  /\ at[c] = "send"
  /\ GoClosed \/ "send" \in dead \/ conn = "left"
  /\ at' = [at EXCEPT ![c] = "failed"] /\ lock' = None
  /\ dead' = IF binding = "go" THEN dead \union {"send"} ELSE dead
  /\ UNCHANGED <<binding, script, got, queue, closed, netVars>>

\* Python: sendall times out with part of the line sent.
SendCut(c) ==
  /\ at[c] = "send" /\ binding = "python" /\ conn = "up"
  /\ LET line == Line(c) IN \E n \in 0 .. Len(line) : partial' = partial \o SubSeq(line, 1, n)
  /\ at' = [at EXCEPT ![c] = "failed"] /\ lock' = None
  /\ UNCHANGED <<binding, script, got, queue, closed, dead, lines, replies, conn>>

Receive(c) ==
  /\ at[c] = "recv" /\ Locked /\ "recv" \notin dead /\ ~ GoClosed /\ replies # <<>>
  /\ got' = [got EXCEPT ![c] = Head(replies)]
  /\ at' = [at EXCEPT ![c] = Answered(Head(replies))] /\ lock' = None
  /\ replies' = Tail(replies)
  /\ UNCHANGED <<binding, script, queue, closed, dead, partial, lines, conn>>

\* Fault: the reader can still be used after a timeout.
TimeoutForgotten(c) ==
  /\ at[c] = "recv" /\ binding = "python" /\ "recv" \notin dead
  /\ at' = [at EXCEPT ![c] = "failed"] /\ lock' = None
  /\ UNCHANGED <<binding, script, got, queue, closed, dead, netVars>>

\* Python: readline times out; the reader refuses every later read.
ReceiveTimeout(c) ==
  /\ at[c] = "recv" /\ binding = "python" /\ "recv" \notin dead
  /\ at' = [at EXCEPT ![c] = "failed"] /\ lock' = None
  /\ dead' = dead \union {"recv"}
  /\ UNCHANGED <<binding, script, got, queue, closed, netVars>>

StreamEnded == conn = "left" /\ replies = <<>>

\* The end of the stream, or an error; Go's decoder keeps it.
ReceiveFails(c) ==
  /\ at[c] = "recv" /\ Locked
  /\ GoClosed \/ "recv" \in dead \/ StreamEnded
  /\ at' = [at EXCEPT ![c] = "failed"] /\ lock' = None
  /\ dead' = IF binding = "go" THEN dead \union {"recv"} ELSE dead
  /\ UNCHANGED <<binding, script, got, queue, closed, netVars>>

\* Go's Close does not take the lock, and a call may be under way.
GoClose ==
  /\ binding = "go" /\ ~ closed
  /\ closed' = TRUE
  /\ conn' = "left" /\ lines' = <<>> /\ replies' = <<>>
  /\ UNCHANGED <<binding, script, at, got, lock, queue, dead, partial>>

-----------------------------------------------------------------------------
(* Node                                                                    *)

\* _call: refused once the client is closed.
Call(c) ==
  /\ binding = "node" /\ at[c] = "new"
  /\ IF closed
     THEN at' = [at EXCEPT ![c] = "refused"] /\ UNCHANGED <<queue, netVars>>
     ELSE /\ at' = [at EXCEPT ![c] = "recv"]
          /\ queue' = Append(queue, c)
          /\ Write(c)
  /\ UNCHANGED <<binding, script, got, lock, closed, dead>>

\* _onData, for one line.
OnData ==
  /\ binding = "node" /\ replies # <<>>
  /\ IF queue = <<>> THEN UNCHANGED <<at, got, queue>>
     ELSE /\ at' = [at EXCEPT ![Head(queue)] = Answered(Head(replies))]
          /\ got' = [got EXCEPT ![Head(queue)] = Head(replies)]
          /\ queue' = Tail(queue)
  /\ replies' = Tail(replies)
  /\ UNCHANGED <<binding, script, lock, closed, dead, partial, lines, conn>>

AllRejected == [c \in DOMAIN at |-> IF c \in ToSet(queue) THEN "failed" ELSE at[c]]

\* _onError: the socket is destroyed, and what it has not delivered is lost.
\* Calls may come between it and _onClose.
OnError ==
  /\ binding = "node" /\ conn = "left" /\ queue # <<>>
  /\ at' = AllRejected /\ queue' = <<>>
  /\ replies' = <<>>
  /\ UNCHANGED <<binding, script, got, lock, closed, dead, partial, lines, conn>>

\* Fault: the promises that wait are forgotten.
OnCloseSilent ==
  /\ binding = "node" /\ conn \in {"left", "ended"} /\ replies = <<>>
  /\ closed' = TRUE
  /\ queue' = <<>>
  /\ UNCHANGED <<binding, script, at, got, lock, dead, netVars>>

\* _onClose, after the last data.
OnClose ==
  /\ binding = "node" /\ conn \in {"left", "ended"} /\ replies = <<>>
  /\ closed' = TRUE
  /\ at' = AllRejected /\ queue' = <<>>
  /\ UNCHANGED <<binding, script, got, lock, dead, netVars>>

\* Fault: close destroys the socket.
NodeCloseHard ==
  /\ binding = "node" /\ ~ closed
  /\ closed' = TRUE
  /\ conn' = (IF conn = "up" THEN "ended" ELSE conn) /\ lines' = <<>> /\ replies' = <<>>
  /\ UNCHANGED <<binding, script, at, got, lock, queue, dead, partial>>

\* close: `end' sends what is written and then ends the client's direction only.
NodeClose ==
  /\ binding = "node" /\ ~ closed
  /\ closed' = TRUE
  /\ conn' = IF conn = "up" THEN "half" ELSE conn
  /\ UNCHANGED <<binding, script, at, got, lock, queue, dead, partial, lines, replies>>

-----------------------------------------------------------------------------
(* The server's end: conn_thread and what it calls                         *)

Serve ==
  /\ conn \in {"up", "half"} /\ lines # <<>>
  /\ LET l == Head(lines)
     IN  \E body \in dispatch(l.text) :
           replies' = Append(replies, [by |-> l.by, glued |-> l.glued, body |-> body])
  /\ lines' = Tail(lines)
  /\ UNCHANGED <<callVars, partial, conn>>

\* read returns 0 when the lines are done.
ServerEnds ==
  /\ conn = "half" /\ lines = <<>>
  /\ conn' = "ended"
  /\ UNCHANGED <<callVars, partial, lines, replies>>

\* The server dies, or the network: some replies may still arrive.
BreakOff ==
  /\ conn \in {"up", "half"}
  /\ conn' = "left" /\ lines' = <<>>
  /\ \E n \in 0 .. Len(replies) : replies' = SubSeq(replies, 1, n)
  /\ UNCHANGED <<callVars, partial>>

-----------------------------------------------------------------------------
Next ==
  \/ \E c \in DOMAIN script :
       \/ Lock(c) \/ Send(c) \/ SendFails(c) \/ SendCut(c)
       \/ Receive(c) \/ ReceiveTimeout(c) \/ ReceiveFails(c) \/ Call(c)
  \/ GoClose \/ NodeClose \/ OnData \/ OnError \/ OnClose
  \/ Serve \/ ServerEnds \/ BreakOff

\* Callers that are free to go on do, and the server answers.  Nothing has to
\* fail, to time out or to be closed.
Fairness ==
  /\ \A c \in Calls :
       WF_vars(c \in DOMAIN script /\ (\/ Lock(c) \/ Send(c) \/ SendFails(c) \/ Receive(c)
                                       \/ ReceiveFails(c) \/ Call(c)))
  /\ WF_vars(Serve) /\ WF_vars(ServerEnds) /\ WF_vars(OnData) /\ WF_vars(OnClose)

Spec == Init /\ [][Next]_vars /\ Fairness

-----------------------------------------------------------------------------
(* Properties                                                              *)

Ended(c) == at[c] \in {"ok", "failed", "refused"}

\* What is on its way is a sequence of whatever it may be.
IsSequence(s) == s \in Seq(ToSet(s))

TypeOK ==
  /\ binding \in Bindings /\ script \in Scripts
  /\ at \in [DOMAIN script -> {"new", "send", "recv", "ok", "failed", "refused"}]
  /\ got \in [DOMAIN script -> ToSet(got)]
  /\ \A c \in DOMAIN script : at[c] = "ok" <=> got[c].by # None /\ got[c].body.kind # "error"
  /\ lock \in DOMAIN script \union {None}
  /\ queue \in Seq(DOMAIN script)
  /\ closed \in BOOLEAN /\ dead \subseteq {"send", "recv"}
  /\ conn \in {"up", "half", "ended", "left"}
  /\ IsSequence(lines) /\ IsSequence(replies)

\* A call is only ever given the reply to its own line, although replies bear no
\* number: not after a timeout, an error event or a lost connection, and not
\* with other calls before and behind it.
AnswerIsOwn == \A c \in DOMAIN script : got[c].by \in {c, None}

\* Nothing is sent to a connection that is broken off, and only a call that has
\* ended was given a reply.
Quiet ==
  /\ conn \in {"left", "ended"} => lines = <<>>
  /\ \A c \in DOMAIN script : got[c].by # None => at[c] \in {"ok", "failed"}

\* Go, Python: the call under way holds the lock.  Unless nothing is ever read
\* again, nothing is on its way but the line of the call that waits, or its reply.
UnderLock ==
  Locked =>
    /\ queue = <<>>
    /\ \A c \in DOMAIN script : at[c] \in {"send", "recv"} <=> lock = c
    /\ GoClosed => conn = "left" /\ replies = <<>>
    /\ "recv" \notin dead =>
         /\ Len(lines) + Len(replies) <= 1
         /\ lines # <<>> \/ replies # <<>> => lock # None /\ at[lock] = "recv"
         /\ \A k \in DOMAIN lines : lines[k].by = lock
         /\ \A k \in DOMAIN replies : replies[k].by = lock

\* Node: _queue holds the calls that wait, each once, in the order of the replies
\* that arrive and the lines behind them.  While the connection stands, each of
\* them has its reply or its line on the way.
InStep ==
  binding = "node" =>
    /\ lock = None
    /\ IsInjective(queue)
    /\ \A c \in DOMAIN script : at[c] # "send" /\ (at[c] = "recv" <=> c \in ToSet(queue))
    /\ conn \in {"half", "ended"} => closed
    /\ Len(replies) + Len(lines) <= Len(queue)
    /\ conn # "left" => Len(replies) + Len(lines) = Len(queue)
    /\ \A k \in DOMAIN replies : replies[k].by = queue[k]
    /\ \A k \in DOMAIN lines : lines[k].by = queue[Len(replies) + k]

\* What keeps each client in step with the server.
StepInv == TypeOK /\ AnswerIsOwn /\ Quiet /\ UnderLock /\ InStep

\* A reply is one that dispatch makes of the line of the call it is for, unless
\* that line was glued to one that was cut off.
IsAnswer(r) ==
  /\ r.by \in DOMAIN script
  /\ binding # "python" => ~ r.glued
  /\ ~ r.glued => r.body \in dispatch(Line(r.by))

\* What stands in the lines and replies.
Contents ==
  /\ partial \in Seq(Pieces) /\ (binding # "python" => partial = <<>>)
  /\ \A k \in DOMAIN lines :
       /\ lines[k].by \in DOMAIN script /\ lines[k].text \in Seq(Pieces)
       /\ binding # "python" => ~ lines[k].glued
       /\ ~ lines[k].glued => lines[k].text = Line(lines[k].by)
  /\ \A k \in DOMAIN replies : IsAnswer(replies[k])
  /\ \A c \in DOMAIN script : got[c].by # None => IsAnswer(got[c])

\* The texts a binding's encoder and the server's parser agree on: the server
\* turns the escape of a newline into an n, and \u00e9 into u00e9, and where
\* the mode stands behind the text a text that ends as the name of the mode does
\* is taken for it.
Plain(r) ==
  /\ Newline \notin ToSet(r.arg)
  /\ binding = "python" => Accent \notin ToSet(r.arg)
  /\ binding = "go"     => Open \notin ToSet(r.arg)
  /\ r.op = "map" /\ binding # "go" =>
       r.arg # <<"mode">> /\ ~ IsSuffix(<<Quote, "mode">>, r.arg)

\* Quotes, backslashes and field names in a text come through: a call that ends
\* well has the answer to what the caller asked, down to the positions.  Of a
\* long list of matches it has the first ones.  Only a line glued to one that was
\* cut off may be taken for another request.
RightAnswers ==
  \A c \in DOMAIN script :
    LET r == script[c]
        body == got[c].body
        all == Matches(r.arg, Digit[r.mode])
    IN  at[c] = "ok" /\ ~ got[c].glued =>
          /\ body.kind = r.op
          /\ r.op = "seek" /\ Plain(r) /\ ~ body.null => body.key = Seek(r.arg)
          /\ r.op = "map" /\ Plain(r) /\ ~ body.null =>
               IsPrefix(body.matches, all)

\* handle_map's reply, with its end and the '\0', fits the slot however many
\* matches there are and however long their numbers.
RepliesFit ==
  \A k \in DOMAIN replies :
    replies[k].body.kind = "map" => replies[k].body.bytes + 1 <= RSZ

\* Node's close lets the calls made before it end: unless the connection breaks,
\* none of them is rejected.
CloseLosesNothing ==
  binding = "node" /\ conn # "left" => \A c \in DOMAIN script : at[c] # "failed"

\* The inductive invariant behind the four of them: the clients keep in step with
\* the server, whose replies bear no number, and each line says what its caller
\* asked.
IndInv == StepInv /\ Contents /\ RepliesFit /\ CloseLosesNothing

\* Every call ends, whatever fails: no lock stays taken, and no promise is
\* neither resolved nor rejected.
CallsEnd == <>(\A c \in DOMAIN script : Ended(c))

\* "Byte offset of match in `text`" (iword-server-spec.md:104): the test of the Go
\* client says "match overflows text" when it is not
\* (bindings/go/iwordserver_test.go:136), and FilterText indexes the text with it.
PositionsInText ==
  \A c \in DOMAIN script :
    at[c] = "ok" /\ ~ got[c].glued /\ script[c].op = "map" =>
      \A k \in DOMAIN got[c].body.matches :
        LET m == got[c].body.matches[k] IN m.pos + m.len <= Bytes(script[c].arg)
=============================================================================
