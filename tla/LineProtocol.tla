---------------------------- MODULE LineProtocol ----------------------------
(***************************************************************************)
(* LAB_8: one session of the TCP line protocol, a client and the server    *)
(* thread that serves it.  The sessions of several clients share nothing   *)
(* but the counter of the accepting thread.                                *)
(*                                                                         *)
(* Nothing on the wire says how many lines a reply has.  The client takes  *)
(* that from the line the user typed, and so does the server; each has its *)
(* own way to find the command in it, and they disagree about blanks in    *)
(* front, blanks behind, and carriage returns.                             *)
(*                                                                         *)
(* A line is what those parsers tell apart: its blanks in front, the first *)
(* word (every word that is no command is "OTHER", a line without words    *)
(* has ""), what follows the word, and a carriage return at its end.       *)
(* Lines fit their buffers.                                                *)
(***************************************************************************)
EXTENDS Naturals, Sequences

CONSTANTS Lines,        \* the lines the user may type
          MaxLines      \* bound: how many of them are sent

AllLines == [lead : BOOLEAN,
             word : {"ECHO", "INFO", "HELP", "QUIT", "OTHER", ""},
             rest : {"none", "blanks", "text"},
             cr : BOOLEAN]

Nothing == [lead |-> FALSE, word |-> "", rest |-> "none", cr |-> FALSE]

ASSUME LineAssumption ==
    /\ Lines \subseteq {l \in AllLines : l.word = "" => l.rest = "none"}
    /\ MaxLines \in Nat

VARIABLES
    cl,     \* where the client is
    typed,  \* the line in its buffer
    sent,   \* how many lines it has sent
    sv,     \* where the server thread is
    out,    \* the lines it has still to send for the command at hand
    bye,    \* whether that command ends the session
    up,     \* what is under way to the server
    down,   \* what is under way to the client
    tidy    \* history: every line sent began with a command or another word,
            \* and none ended in a carriage return

sessionVars == <<cl, typed, sent, sv, out, bye, up, down, tidy>>

(* In "first" the client waits for the first line of a reply, in "rest"    *)
(* for more of them; "lost" is its exit(1), or its end by SIGPIPE.         *)
ClientPlaces == {"first", "rest", "prompt", "done", "lost"}
ServerPlaces == {"start", "read", "reply", "closed"}
Replies == {"ok", "err", "text", "end"}

SessionInit == /\ cl = "first" /\ typed = Nothing /\ sent = 0
               /\ sv = "start" /\ out = <<>> /\ bye = FALSE
               /\ up = <<>> /\ down = <<>>
               /\ tidy = TRUE

ClientGone == cl \in {"done", "lost"}

-----------------------------------------------------------------------------
(* The server thread: handle_client with dispatch_command. *)

UnchangedByServer == UNCHANGED <<cl, typed, sent, tidy>>

(* The greeting; or there is no memory or no thread for this client, and   *)
(* the connection is closed at once.                                       *)
Start ==
    /\ sv = "start"
    /\ \/ sv' = "reply" /\ out' = <<"ok">>
       \/ sv' = "closed" /\ UNCHANGED out
    /\ UNCHANGED <<bye, up, down>> /\ UnchangedByServer

Texts(n) == [i \in 1..n |-> "text"]

(* What dispatch_command answers. *)
Reply(l) ==
    CASE l.word = "ECHO"  -> IF l.rest = "text" THEN <<"ok">> ELSE <<"err">>
      [] l.word = "INFO"  -> <<"ok">> \o Texts(5) \o <<"end">>
      [] l.word = "HELP"  -> <<"ok">> \o Texts(4) \o <<"end">>
      [] l.word = "QUIT"  -> <<"ok">>
      [] l.word = "OTHER" -> <<"err">>
      [] l.word = ""      -> <<>>

(* read_line drops carriage returns, and handle_client takes an empty line *)
(* for the end of the connection.                                          *)
ReadsEmpty(l) == ~l.lead /\ l.word = ""

(* Mutant: the line is dispatched though read_line returned 0. *)
ReceiveEmpty ==
    /\ sv = "read" /\ up # <<>>
    /\ up' = Tail(up)
    /\ sv' = "reply" /\ out' = Reply(Head(up)) /\ bye' = (Head(up).word = "QUIT")
    /\ UNCHANGED down /\ UnchangedByServer

Receive ==
    /\ sv = "read" /\ up # <<>>
    /\ up' = Tail(up)
    /\ IF ReadsEmpty(Head(up))
         THEN sv' = "closed" /\ UNCHANGED <<out, bye>>
         ELSE /\ sv' = "reply"
              /\ out' = Reply(Head(up))
              /\ bye' = (Head(up).word = "QUIT")
    /\ UNCHANGED down /\ UnchangedByServer

(* Mutant: only an error of read ends the loop. *)
ReceiveErrorOnly ==
    /\ sv = "read" /\ up = <<>> /\ ClientGone /\ down # <<>>
    /\ sv' = "closed"
    /\ UNCHANGED <<out, bye, up, down>> /\ UnchangedByServer

(* The client has closed its end: read returns 0, or an error when there   *)
(* were replies it did not read.                                           *)
ReceiveEnd ==
    /\ sv = "read" /\ up = <<>> /\ ClientGone
    /\ sv' = "closed"
    /\ UNCHANGED <<out, bye, up, down>> /\ UnchangedByServer

(* send_line.  Nobody looks at its result, and SIGPIPE is ignored. *)
SendReply ==
    /\ sv = "reply" /\ out # <<>>
    /\ down' = IF ClientGone THEN down ELSE Append(down, Head(out))
    /\ out' = Tail(out)
    /\ UNCHANGED <<sv, bye, up>> /\ UnchangedByServer

EndReply ==
    /\ sv = "reply" /\ out = <<>>
    /\ sv' = IF bye THEN "closed" ELSE "read"
    /\ UNCHANGED <<out, bye, up, down>> /\ UnchangedByServer

ServerStep == Start \/ Receive \/ ReceiveEnd \/ SendReply \/ EndReply

-----------------------------------------------------------------------------
(* The client. *)

UnchangedByClient == UNCHANGED <<sv, out, bye>>

(* Mutant: INFO is forgotten. *)
IsHelp(l) == l.word = "HELP" /\ ~l.lead /\ (l.rest = "none" => ~l.cr)

(* is_multiline_command: the text up to the first blank. *)
IsMultiline(l) == /\ l.word \in {"HELP", "INFO"}
                  /\ ~l.lead
                  /\ l.rest = "none" => ~l.cr

IsQuit(l) == l = [Nothing EXCEPT !.word = "QUIT"]

(* An empty line is not sent.  send_line to a server that is gone succeeds *)
(* unless that is known here already; then SIGPIPE ends the client, or an  *)
(* error does: it leaves the loop, closes the connection and returns.  The *)
(* server has closed its own before, so both ends are the same to it.      *)
TypeLine(l) ==
    /\ cl = "prompt" /\ sent < MaxLines /\ l # Nothing
    /\ typed' = l
    /\ sent' = sent + 1
    /\ tidy' = (tidy /\ l.word # "" /\ ~l.lead /\ ~l.cr)
    /\ \/ cl' = "first" /\ up' = Append(up, l)
       \/ sv = "closed" /\ cl' = "lost" /\ UNCHANGED up
    /\ UNCHANGED down /\ UnchangedByClient

(* The end of the input: the client closes the connection. *)
EndOfInput ==
    /\ cl = "prompt"
    /\ cl' = "done"
    /\ UNCHANGED <<typed, sent, up, down, tidy>> /\ UnchangedByClient

(* receive_response has returned to main. *)
AfterReply == IF IsQuit(typed) THEN "done" ELSE "prompt"

ReadFirst ==
    /\ cl = "first" /\ down # <<>>
    /\ down' = Tail(down)
    /\ cl' = IF IsMultiline(typed) THEN "rest" ELSE AfterReply
    /\ UNCHANGED <<typed, sent, up, tidy>> /\ UnchangedByClient

(* Only the lines of the text begin with a blank. *)
ReadRest ==
    /\ cl = "rest" /\ down # <<>>
    /\ down' = Tail(down)
    /\ cl' = IF Head(down) = "text" THEN "rest" ELSE AfterReply
    /\ UNCHANGED <<typed, sent, up, tidy>> /\ UnchangedByClient

(* The connection is closed, or reset because the server left something    *)
(* unread: then what was under way to the client may be gone too.          *)
ReadNothing ==
    /\ sv = "closed" /\ (down = <<>> \/ up # <<>>)
    /\ \/ cl = "first" /\ cl' = "lost"
       \/ cl = "rest" /\ cl' = AfterReply
    /\ down' = <<>>
    /\ UNCHANGED <<typed, sent, up, tidy>> /\ UnchangedByClient

ClientStep == ReadFirst \/ ReadRest \/ ReadNothing
UserStep == EndOfInput \/ \E l \in Lines : TypeLine(l)

SessionNext == ServerStep \/ ClientStep \/ UserStep

(* Both programs run on; the user need not type anything. *)
SessionFairness == WF_sessionVars(ServerStep) /\ WF_sessionVars(ClientStep)

SessionSpec == SessionInit /\ [][SessionNext]_sessionVars /\ SessionFairness

-----------------------------------------------------------------------------
(* Properties. *)

(* Type correctness of every variable. *)
SessionTypeOK ==
    /\ cl \in ClientPlaces /\ sv \in ServerPlaces
    /\ typed \in Lines \cup {Nothing}
    /\ sent \in 0..MaxLines
    /\ out \in Seq(Replies) /\ down \in Seq(Replies)
    /\ up \in Seq(Lines \ {Nothing})
    /\ {bye, tidy} \subseteq BOOLEAN

(* As long as the lines begin with a word and none comes from a file with  *)
(* carriage returns, client and server agree on every reply: when the user *)
(* is asked for the next command, or leaves, all of it has been read, and  *)
(* the server waits for a command unless it has been told to quit.         *)
InStep ==
    tidy /\ cl \in {"prompt", "done"} =>
      /\ down = <<>> /\ out = <<>> /\ up = <<>>
      /\ sv = "closed" => typed.word = "QUIT" \/ cl = "done"

(* Whatever was typed before and however far the two are out of step, the  *)
(* client waits in vain for a reply only after a line of blanks.           *)
OnlyBlanks(l) == l.word = "" /\ l.lead

Answered == cl \in {"first", "rest"} ~> (cl \notin {"first", "rest"} \/ OnlyBlanks(typed))

(* The server thread ends once its client is gone, however many replies    *)
(* are still to be written to it.                                          *)
ThreadEnds == ClientGone ~> sv = "closed"
=============================================================================
