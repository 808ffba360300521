------------------------------ MODULE ToolServer ------------------------------
(***************************************************************************)
(* The processes that give an agent tools, and the clients that talk to    *)
(* them over their pipes: an MCP server (mcp.rs, StdioTransport), whose    *)
(* messages are lines, or a language server (lsp.rs), whose messages have  *)
(* a header with their length.  One activation or one dispatcher uses the  *)
(* client, a call at a time.                                               *)
(*                                                                         *)
(* The server is not ours: it may answer late or never, talk unasked, ask  *)
(* questions, write what is no message, stop reading, and die.  A call     *)
(* that is given up (its timer, or the one of the dispatcher) is dropped   *)
(* where it stands, in the middle of a message if need be.                 *)
(***************************************************************************)
EXTENDS Naturals, Sequences, FiniteSets

CONSTANTS
    Files,          \* files whose diagnostics a language server publishes
    NoFile, NoId,
    MaxCalls,       \* bound: tool calls made
    MaxPipe,        \* bound: messages in the pipe of the server
    MaxChatter      \* bound: messages the server sends unasked

ASSUME ToolServerAssumption ==
    /\ NoFile \notin Files /\ NoId \notin Nat
    /\ MaxCalls \in Nat /\ MaxPipe \in Nat \ {0} /\ MaxChatter \in Nat

VARIABLES
    link,       \* "mcp" or "lsp"
    step,       \* where the client stands
    file,       \* the file whose diagnostics it waits for
    asked,      \* the request whose answer it waits for
    nextId,     \* next_id
    observed,   \* LspClient.diagnostics: files there are diagnostics of
    lost,       \* the client has lost the boundary of the language server's messages
    server,     \* "none", "up", "dead"
    heard,      \* requests the server has read and not answered: <<number, the call it is of>>
    spoiled,    \* half a message is before what is written next
    pipe,       \* what the server has written and the client has not read
    chatter,    \* messages the server has sent unasked
    last,       \* how the last call ended, and whose answer it had
    calls, failures, spoilers   \* history: calls, calls that failed on what they read,
                                \* things that may spoil one

client == <<step, file, asked, nextId, observed, lost>>
peer == <<server, heard, spoiled, pipe, chatter>>
history == <<last, calls, failures, spoilers>>
vars == <<link, client, peer, history>>

\* A client is made in two requests: the write of the first ("greet"), its answer; the
\* write of what follows it ("announce"), and the answer to that of an MCP server.
Connecting == {"greet", "initialize", "announce", "list"}
Writing == {"greet", "announce", "write"}
Calling == {"write", "call", "diagnose"}
\* The call of an answer is history: nothing on the wire tells it.
Message(what, id, f, call) == [what |-> what, id |-> id, file |-> f, call |-> call]
Unspoken == Message("rest", NoId, NoFile, 0)
Nothing == Message("nothing", NoId, NoFile, 0)
NoCall == [outcome |-> "none", call |-> 0, got |-> Nothing]

Init ==
    /\ link \in {"mcp", "lsp"} /\ step = "off" /\ file = NoFile /\ asked = NoId /\ nextId = 1
    /\ observed = {} /\ lost = FALSE
    /\ server = "none" /\ heard = {} /\ spoiled = FALSE /\ pipe = <<>> /\ chatter = 0
    /\ last = NoCall /\ calls = 0 /\ failures = 0 /\ spoilers = 0

(***************************************************************************)
(* The server.                                                             *)
(***************************************************************************)
Speaks == server = "up" /\ Len(pipe) < MaxPipe
Answer(request) ==
    /\ Speaks /\ request \in heard
    /\ pipe' = Append(pipe, Message("answer", request[1], NoFile, request[2]))
    /\ heard' = heard \ {request}
    /\ UNCHANGED <<link, client, server, spoiled, chatter, history>>
Chat(m) ==
    /\ Speaks /\ chatter < MaxChatter
    /\ pipe' = Append(pipe, m) /\ chatter' = chatter + 1
    /\ spoilers' = IF m.what = "garbage" THEN spoilers + 1 ELSE spoilers
    /\ UNCHANGED <<link, client, server, heard, spoiled, last, calls, failures>>
Publish(f) == link = "lsp" /\ Chat(Message("published", NoId, f, 0))
Log == Chat(Message("note", NoId, NoFile, 0))
\* A line that is no JSON: the log of a server that shares its output.
Babble == link = "mcp" /\ Chat(Message("garbage", NoId, NoFile, 0))
\* A request of the server, numbered by the server: ping, workspace/configuration.
Question(i) == Chat(Message("question", i, NoFile, 0))
Die ==
    /\ server = "up" /\ server' = "dead"
    /\ UNCHANGED <<link, client, heard, spoiled, pipe, chatter, history>>

(***************************************************************************)
(* Requests.                                                               *)
(***************************************************************************)
\* A whole message reaches the server, unless half a message is before it: a line is
\* spoiled by the half line it continues, a message with a length and all that follow.
Deliver(ids, call) ==
    /\ heard' = IF server = "up" /\ ~spoiled THEN heard \cup (ids \X {call}) ELSE heard
    /\ spoiled' = (spoiled /\ link = "lsp")
Gone ==
    /\ step' = "gone" /\ server' = "none" /\ pipe' = <<>> /\ heard' = {} /\ asked' = NoId /\ file' = NoFile

\* A write to a server that does not read waits.
Spawn ==
    /\ step = "off"
    /\ asked' = nextId /\ nextId' = nextId + 1
    /\ server' = "up"
    /\ \/ step' = "initialize" /\ heard' = {<<nextId, calls>>}
       \/ step' = "greet" /\ UNCHANGED heard
    /\ UNCHANGED <<link, file, observed, lost, spoiled, pipe, chatter, history>>

\* A call of a tool, once its request (or didOpen) has been written.
\* Variant for the sensitivity of AnswerIsOwn: the number of a request is used again.
BeginUnnumbered(next, f, id) ==
    /\ step = "idle" /\ calls < MaxCalls
    /\ calls' = calls + 1
    /\ asked' = id /\ nextId' = nextId
    /\ file' = f
    /\ \/ step' = next /\ Deliver({id} \ {NoId}, calls + 1)
       \/ step' = "write" /\ UNCHANGED <<heard, spoiled>>
    /\ UNCHANGED <<link, observed, lost, server, pipe, chatter, last, failures, spoilers>>
Begin(next, f, id) ==
    /\ step = "idle" /\ calls < MaxCalls
    /\ calls' = calls + 1
    /\ asked' = id /\ nextId' = IF id = NoId THEN nextId ELSE nextId + 1
    /\ file' = f
    /\ \/ step' = next /\ Deliver({id} \ {NoId}, calls + 1)
       \/ step' = "write" /\ UNCHANGED <<heard, spoiled>>
    /\ UNCHANGED <<link, observed, lost, server, pipe, chatter, last, failures, spoilers>>
\* McpManager::call, LspClient::symbols.
Call == Begin("call", NoFile, nextId)
\* LspClient::diagnostics asks nothing: it waits for what the server publishes.
Diagnose(f) == link = "lsp" /\ Begin("diagnose", f, NoId)
Written ==
    CASE step = "greet" -> "initialize"
      [] step = "announce" -> IF link = "mcp" THEN "list" ELSE "idle"
      [] OTHER -> IF file = NoFile THEN "call" ELSE "diagnose"
Write ==
    /\ step \in Writing
    /\ step' = Written
    /\ Deliver({asked} \ {NoId}, calls)
    /\ UNCHANGED <<link, file, asked, nextId, observed, lost, server, pipe, chatter, history>>

\* The call is over; the connection stays.
Settle(outcome, m) ==
    /\ step' = "idle" /\ asked' = NoId /\ file' = NoFile
    /\ last' = [outcome |-> outcome, call |-> calls, got |-> m]

(***************************************************************************)
(* Reading.                                                                *)
(***************************************************************************)
Waiting == step \in {"initialize", "list", "call", "diagnose", "shutdown"}

\* The number decides: a question of the server with that number is taken for an answer.
IsAnswer(m) == m.id = asked

GiveUp == step' = "gone" /\ server' = "none" /\ asked' = NoId
\* What ends the wait of the client, by where it stands.  An answer may be an error, and
\* an MCP server may have no version or name a tool twice: no connection is made.
Complete(m) ==
    CASE step = "initialize" /\ link = "mcp" ->
            /\ \/ /\ m.what = "answer"
                  /\ asked' = nextId /\ nextId' = nextId + 1
                  /\ \/ step' = "list" /\ Deliver({nextId}, calls)
                     \/ step' = "announce" /\ UNCHANGED <<heard, spoiled>>
                  /\ UNCHANGED server
               \/ GiveUp /\ UNCHANGED <<nextId, heard, spoiled>>
            /\ UNCHANGED <<file, last>>
      [] step = "list" \/ (step = "initialize" /\ link = "lsp") ->
            /\ \/ GiveUp
               \/ /\ step' = "idle" \/ (step' = "announce" /\ link = "lsp")
                  /\ asked' = NoId /\ UNCHANGED server
            /\ UNCHANGED <<nextId, heard, spoiled, file, last>>
      [] step = "shutdown" ->
            /\ GiveUp
            /\ UNCHANGED <<nextId, heard, spoiled, file, last>>
      [] OTHER ->
            /\ Settle("ok", m)
            /\ UNCHANGED <<nextId, heard, spoiled, server>>

\* Variant for the sensitivity of SpoilersAreSpent: what cannot be read stays in front.
ConsumeMessage == pipe' = IF Head(pipe).what \in {"garbage", "rest"} THEN pipe ELSE Tail(pipe)
Consume == pipe' = Tail(pipe)

\* The call fails on what it reads.  A connection that was not there yet is given up.
FailReading ==
    /\ failures' = failures + 1
    /\ IF step \in Connecting \cup {"shutdown"}
       THEN GiveUp /\ UNCHANGED <<file, last>>
       ELSE Settle("failed", Nothing) /\ UNCHANGED server
    /\ UNCHANGED <<nextId, observed, heard, spoiled>>
Unreadable(m) == lost \/ m.what = "garbage"

\* The next message is no answer to what was asked: it is passed over.  The language
\* server gets an answer to its question, unless the client waits for diagnostics.
PassOver(m) ==
    /\ observed' = IF m.what = "published" THEN observed \cup {m.file} ELSE observed
    /\ IF step = "diagnose" /\ file \in observed'
       THEN Settle("ok", Nothing)
       ELSE UNCHANGED <<step, asked, file, last>>
    /\ UNCHANGED <<nextId, heard, spoiled, server, failures>>

Receive ==
    /\ Waiting /\ pipe # <<>>
    /\ LET m == Head(pipe) IN
       \/ /\ Unreadable(m)
          /\ Consume /\ FailReading
       \/ \* The end of a line that was cut is no message, or is blank.
          /\ ~lost /\ m.what = "rest"
          /\ Consume
          /\ FailReading \/ UNCHANGED <<step, file, asked, nextId, observed, server, heard,
                                        spoiled, last, failures>>
       \/ /\ ~Unreadable(m) /\ m.what # "rest"
          /\ Consume
          /\ IF step # "diagnose" /\ IsAnswer(m)
             THEN Complete(m) /\ UNCHANGED <<observed, failures>>
             ELSE PassOver(m)
    /\ UNCHANGED <<link, lost, chatter, calls, spoilers>>

\* The end of its output.
ServerGone ==
    /\ Waiting /\ server = "dead" /\ pipe = <<>>
    /\ IF step \in Connecting \cup {"shutdown"}
       THEN GiveUp /\ UNCHANGED <<file, last>>
       ELSE Settle("crashed", Nothing) /\ UNCHANGED server
    /\ UNCHANGED <<link, nextId, observed, lost, heard, spoiled, pipe, chatter, calls, failures, spoilers>>
\* A write fails when nobody can read it.
FailWrite ==
    /\ step \in Writing /\ server = "dead"
    /\ IF step \in Connecting
       THEN GiveUp /\ UNCHANGED <<file, last>>
       ELSE Settle("crashed", Nothing) /\ UNCHANGED server
    /\ UNCHANGED <<link, nextId, observed, lost, heard, spoiled, pipe, chatter, calls, failures, spoilers>>

(***************************************************************************)
(* Giving up.                                                              *)
(***************************************************************************)
\* read_line and read_exact forget what they have read when they are dropped: the rest
\* of a line is still a line of its own, the rest of a message hides the next header.
CutRead ==
    /\ pipe # <<>>
    /\ IF link = "mcp"
       THEN pipe' = <<Unspoken>> \o Tail(pipe) /\ lost' = lost
       ELSE pipe' = Tail(pipe) /\ lost' = TRUE
\* The timers: half a minute for the line of an MCP request and for its call, ten
\* seconds for a tool of the language server, five for its diagnostics.
\* Variant for the sensitivity of CallEnds: only reading has a timer.
TimeOutOfReads ==
    /\ step \in {"call", "diagnose"}
    /\ Settle("timeout", Nothing)
    /\ \/ CutRead /\ spoilers' = spoilers + 1
       \/ UNCHANGED <<pipe, lost, spoilers>>
    /\ UNCHANGED <<link, nextId, observed, server, heard, chatter, calls, failures, spoiled>>
TimeOut ==
    /\ step \in Calling
    /\ Settle("timeout", Nothing)
    /\ \/ step # "write" /\ CutRead /\ spoilers' = spoilers + 1
       \/ UNCHANGED <<pipe, lost, spoilers>>
    /\ spoiled' \in IF step = "write" THEN {spoiled, TRUE} ELSE {spoiled}
    /\ UNCHANGED <<link, nextId, observed, server, heard, chatter, calls, failures>>
\* While an MCP connection is made, each line has half a minute of its own: only a server
\* that is silent so long is given up.  A write has no timer, nor has a language server.
TimeOutConnecting ==
    /\ link = "mcp" /\ step \in {"initialize", "list"} /\ pipe = <<>>
    /\ Gone
    /\ UNCHANGED <<link, nextId, observed, lost, spoiled, chatter, history>>

\* The agent has its result; its language server is asked to shut down.
Shutdown ==
    /\ link = "lsp" /\ step = "idle"
    /\ step' = "shutdown" /\ asked' = nextId /\ nextId' = nextId + 1
    /\ Deliver({nextId}, calls)
    /\ UNCHANGED <<link, file, observed, lost, server, pipe, chatter, history>>
\* The run is over or was cancelled, or the activation failed: the client is dropped,
\* and takes the process with it.
Dropped ==
    /\ step \notin {"off", "gone"}
    /\ Gone
    /\ UNCHANGED <<link, nextId, observed, lost, spoiled, chatter, history>>

Server ==
    \/ \E request \in heard : Answer(request)
    \/ \E f \in Files : Publish(f)
    \/ \E i \in 1..(MaxCalls + 2) : Question(i)
    \/ Log \/ Babble \/ Die
Client ==
    \/ Spawn \/ Call \/ (\E f \in Files : Diagnose(f)) \/ Write \/ Receive \/ ServerGone \/ FailWrite
    \/ TimeOut \/ TimeOutConnecting \/ Shutdown \/ Dropped
Next == Server \/ Client

\* The timers of calls elapse, and what has arrived is read; of the server nothing is
\* assumed.
Spec == Init /\ [][Next]_vars /\ WF_vars(Receive) /\ WF_vars(TimeOut)
-------------------------------------------------------------------------------
TypeOK ==
    /\ link \in {"mcp", "lsp"}
    /\ step \in Connecting \cup Calling \cup {"off", "idle", "shutdown", "gone"}
    /\ file \in Files \cup {NoFile} /\ asked \in Nat \cup {NoId} /\ nextId \in Nat
    /\ observed \subseteq Files /\ lost \in BOOLEAN
    /\ server \in {"none", "up", "dead"} /\ heard \subseteq (1..nextId) \X (0..calls)
    /\ spoiled \in BOOLEAN
    /\ pipe \in Seq([what : {"answer", "published", "note", "garbage", "question", "rest"},
                     id : Nat \cup {NoId}, file : Files \cup {NoFile}, call : Nat])
    /\ Len(pipe) <= MaxPipe /\ chatter \in 0..MaxChatter /\ calls \in 0..MaxCalls
    /\ failures \in Nat /\ spoilers \in Nat

(* No answer reaches another call than its own, although calls are given up, before  *)
(* or after their request was written, and the answers of those come while a later   *)
(* call waits (the numbers of mcp.rs:213, lsp.rs:222).                               *)
AnswerIsOwn == last.got.what = "answer" => last.got.call = last.call

\* The places in a pipe of what cannot be read as a message.
Unread(p) == {i \in 1..Len(p) : p[i].what \in {"garbage", "rest"}}

(* What cannot be read fails once: each line a server writes that is no message, and *)
(* each call given up in the middle of a line, costs at most one later call.         *)
SpoilersAreSpent == link = "mcp" => failures + Cardinality(Unread(pipe)) <= spoilers

(* A call ends whatever the server does: it never answers, never reads, floods its   *)
(* output or dies.  Nothing of the kind holds while the connection is made.          *)
CallEnds == step \in Calling ~> step \notin Calling

(* The comment in mcp.rs:214: "server-initiated requests are ignored by this client".*)
(* One that has the number of the request that waits is taken for its answer.        *)
QuestionsAreIgnored == last.got.what # "question"
===============================================================================
