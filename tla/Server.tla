-------------------------------- MODULE Server --------------------------------
(***************************************************************************)
(* rmem-mcp over stdio (crates/rm-mcp: serve.rs, jsonrpc.rs, version.rs    *)
(* and the reading of a call's arguments in tools.rs): a line in, at most  *)
(* a line out, in order, while a command line shares the store. Hosts has  *)
(* what a call then does.                                                  *)
(*                                                                         *)
(* A line is what the code tells apart in it: whether it is text, blank or *)
(* JSON, its id, its method, the version in its envelope, the client that  *)
(* names itself, the tool, and of each argument whether it is good, blank, *)
(* null or of the wrong kind. Its place in the input stands for its id.    *)
(* Abstracted: the words of an answer, the schemas of the tools, and the   *)
(* tools that differ from another only in what they ask of the engine      *)
(* (reviews, decisions and decision read as about does).                   *)
(***************************************************************************)
EXTENDS Hosts

CONSTANTS
  Mcp, Cli,       \* the server and the command line: Procs
  Legacy,         \* version.rs LEGACY, newest first
  Structured,     \* those of them with structuredContent
  Offered,        \* the tools the table lists
  Clients,
  Messages,       \* bound: the lines a client sends
  CliCommands,    \* bound: the tools the command line runs
  MaxLines,       \* bound: its lines, counting twice one that neither shakes
                  \* hands nor calls a tool
  MaxCalls,       \* bound: its lines that call one
  MaxCommands     \* bound: the commands the command line runs

(* The arguments each tool cannot do without, and those it can.            *)
Required ==
  [remember |-> {"text"}, note |-> {"who", "attribute"}, decide |-> {"title", "choice", "scope"},
   recall |-> {"query"}, about |-> {"entity", "attribute"}, resolve |-> {"id", "same"}]
Optional ==
  [remember |-> {"session", "speaker"},
   note |-> {"value", "kind", "valid_from", "scope", "session", "according_to"},
   decide |-> {"status", "decided_at", "because", "context", "supersedes", "session"},
   recall |-> {"scope", "all", "k", "depth"}, about |-> {"valid_at", "as_of"}, resolve |-> {}]

Revisions == {Legacy[i] : i \in DOMAIN Legacy}
Modern == "modern"
Refused == "refused"

(* What is no revision is told apart from them; an id is one, or is null,  *)
(* or is not there.                                                        *)
ASSUME ServerAssumption ==
  /\ Procs = {Mcp, Cli} /\ Mcp # Cli
  /\ DOMAIN Legacy = 1..Len(Legacy) /\ Len(Legacy) \in Nat \ {0}
  /\ Structured \subseteq Revisions /\ Revisions \cap {Nobody, Modern, Refused} = {}
  /\ Nobody \notin Clients /\ \A m \in Messages : m.from \in Clients \cup {Nobody}
  /\ \A m \in Messages : m.id \in {"given", "absent", "null"}
  /\ Offered \subseteq DOMAIN Required
  /\ CliCommands \subseteq Tools /\ {MaxLines, MaxCalls, MaxCommands} \subseteq Nat

VARIABLES
  negotiated,  \* the revision initialize settled, or Nobody
  client,      \* what the client called itself in it, or Nobody
  lines,       \* the lines read
  answers,     \* the lines written
  up,          \* whether the loop goes on
  ran          \* commands the command line has run

server == <<negotiated, client, lines, answers, up, ran>>
vars == <<provider, hosts, server>>

Init ==
  /\ HostsInit
  /\ negotiated = Nobody /\ client = Nobody
  /\ lines = <<>> /\ answers = <<>> /\ up = TRUE /\ ran = 0

-----------------------------------------------------------------------------
(* What a line is. "undecodable" is not UTF-8, "blank" nothing but spaces, *)
(* "garbage" not JSON.                                                     *)
IsText(m) == m.is # "undecodable"
IsBlank(m) == m.is = "blank"
Parses(m) == m.is = "message" /\ m.id # "null" /\ m.wellFormed

(* Mutant: a notification is known by its method, and initialize is none.  *)
NotifiesByMethod(m) == Parses(m) /\ m.id = "absent" /\ m.method # "initialize"

IsNotification(m) == Parses(m) /\ m.id = "absent"

(* Call::read. A note says a value or that there is none, and not both.    *)
Given(args, f) == f \in DOMAIN args /\ args[f] = "good"
NoWorse(args, f) == f \in DOMAIN args => args[f] \in {"good", "null"}

Readable(tool, args) ==
  /\ \A f \in Required[tool] : Given(args, f)
  /\ \A f \in Optional[tool] : NoWorse(args, f)
  /\ tool = "note" => (Given(args, "value") <=> ~Given(args, "absent"))

(* attributed: the client's own name whatever the call says of its session.*)
Author == IF client = Nobody THEN Mcp ELSE client

(* era_of: initialize is legacy, an envelope is modern or refused, and     *)
(* anything else is the legacy client that shook hands, or never did.      *)
EraOf(m, settled) ==
  IF m.method = "initialize" THEN Legacy[1]
  ELSE IF m.envelope = "none" THEN (IF settled = Nobody THEN Legacy[1] ELSE settled)
  ELSE IF m.envelope = "current" THEN Modern ELSE Refused

Negotiate(asked) == IF asked \in Revisions THEN asked ELSE Legacy[1]

(* An answer: to which line, whether it can carry that line's id, an error *)
(* or a result, and what its era lets a result carry.                      *)
Answer(n, m, is, structured, stamped) ==
  [to |-> n, named |-> m.is = "message" /\ m.id = "given", is |-> is,
   structured |-> structured, stamped |-> stamped]

Wrong(n, m) == Answer(n, m, "error", FALSE, FALSE)
Result(n, m, era) == Answer(n, m, "result", FALSE, era = Modern)
Declined(n, m, era) == Answer(n, m, "refusal", FALSE, era = Modern)
Answered(n, m, era) == Answer(n, m, "result", era = Modern \/ era \in Structured, era = Modern)

Reply(a) == answers' = Append(answers, a)

(* Mutant: a client that names nobody keeps the name of the one before.    *)
InitializeNameless(n, m) ==
  /\ negotiated' = Negotiate(m.asks)
  /\ client' = IF m.from = Nobody THEN client ELSE m.from
  /\ Reply(Result(n, m, Legacy[1]))

(* initialize: what it settles is kept, a client that names nobody too.    *)
Initialize(n, m) ==
  /\ negotiated' = Negotiate(m.asks)
  /\ client' = m.from
  /\ Reply(Result(n, m, Legacy[1]))

KeepHandshake == UNCHANGED <<negotiated, client>>

(* Call::read, and a call that can be read begins its command, in which a  *)
(* write is signed with the client's own name, or the name of none.        *)
CallTool(n, m, era) ==
  \/ /\ m.tool \notin Offered
     /\ Reply(Wrong(n, m)) /\ UNCHANGED <<provider, hosts>>
  \/ /\ m.tool \in Offered /\ ~Readable(m.tool, m.args)
     /\ Reply(Declined(n, m, era)) /\ UNCHANGED <<provider, hosts>>
  \/ /\ m.tool \in Offered /\ Readable(m.tool, m.args)
     /\ Begin(Mcp, m.tool, Author, n) /\ UNCHANGED answers

Dispatch(n, m, era) ==
  \/ m.method = "initialize" /\ Initialize(n, m) /\ UNCHANGED <<provider, hosts>>
  \/ m.method = "discover" /\ Reply(Answer(n, m, "result", FALSE, TRUE)) /\ KeepHandshake /\ UNCHANGED <<provider, hosts>>
  \/ m.method = "list" /\ Reply(Result(n, m, era)) /\ KeepHandshake /\ UNCHANGED <<provider, hosts>>
  \/ m.method = "call" /\ CallTool(n, m, era) /\ KeepHandshake
  \/ m.method = "other" /\ Reply(Wrong(n, m)) /\ KeepHandshake /\ UNCHANGED <<provider, hosts>>

(* handle: a line that is no request is answered as one, a notification is *)
(* not answered whatever it holds, and then its era decides.               *)
Handle(n, m) ==
  \/ ~Parses(m) /\ Reply(Wrong(n, m)) /\ KeepHandshake /\ UNCHANGED <<provider, hosts>>
  \/ IsNotification(m) /\ UNCHANGED answers /\ KeepHandshake /\ UNCHANGED <<provider, hosts>>
  \/ /\ Parses(m) /\ ~IsNotification(m)
     /\ IF EraOf(m, negotiated) = Refused
        THEN Reply(Wrong(n, m)) /\ KeepHandshake /\ UNCHANGED <<provider, hosts>>
        ELSE Dispatch(n, m, EraOf(m, negotiated))

Bounded(ls) ==
  LET Of(methods) ==
        {n \in DOMAIN ls : Parses(ls[n]) /\ ls[n].id = "given" /\ ls[n].method \in methods}
  IN /\ 2 * Len(ls) - Cardinality(Of({"initialize", "call"})) <= MaxLines
     /\ Cardinality(Of({"call"})) <= MaxCalls

(* The loop: one line at a time. A blank line is skipped, and one that is  *)
(* not text ends it.                                                       *)
Read(m) ==
  /\ up /\ run[Mcp].stage = "idle" /\ Bounded(Append(lines, m))
  /\ lines' = Append(lines, m)
  /\ \/ IsText(m) /\ ~IsBlank(m) /\ Handle(Len(lines) + 1, m) /\ UNCHANGED up
     \/ IsBlank(m) /\ KeepHandshake /\ UNCHANGED <<up, answers, provider, hosts>>
     \/ /\ ~IsText(m) /\ up' = FALSE
        /\ KeepHandshake /\ UNCHANGED <<answers, provider, hosts>>
  /\ UNCHANGED ran

Release(p) == run' = [run EXCEPT ![p] = Idle] /\ UNCHANGED <<embedder, keySet, held, store, provider>>

Respond ==
  /\ run[Mcp].stage = "ended"
  /\ LET n == run[Mcp].line
         era == EraOf(lines[n], negotiated)
     IN Reply(IF run[Mcp].ok THEN Answered(n, lines[n], era) ELSE Declined(n, lines[n], era))
  /\ Release(Mcp)
  /\ UNCHANGED <<negotiated, client, lines, up, ran>>

(* The command line: a process, and so a provider, for each command.       *)
Invoke(tool) ==
  /\ ran < MaxCommands /\ ran' = ran + 1
  /\ Begin(Cli, tool, Cli, 0)
  /\ UNCHANGED <<negotiated, client, lines, answers, up>>

Exit ==
  /\ run[Cli].stage = "ended"
  /\ Release(Cli)
  /\ UNCHANGED server

Next ==
  \/ \E m \in Messages : Read(m)
  \/ \E p \in Procs : HostStep(p) /\ UNCHANGED server
  \/ \E p \in Procs : ProviderStep(p) /\ UNCHANGED server
  \/ Respond
  \/ \E tool \in CliCommands : Invoke(tool)
  \/ Exit

(* The server's thread runs; the command line may be stopped anywhere, its *)
(* lock held; and nothing makes a provider answer.                         *)
Spec ==
  /\ Init /\ [][Next]_vars
  /\ WF_vars(HostStep(Mcp) /\ UNCHANGED server)
  /\ WF_vars(Sleep(Mcp) /\ UNCHANGED <<hosts, server>>)
  /\ WF_vars(Respond)

-----------------------------------------------------------------------------
(* What a line is owed, read from the line alone.                          *)
Owed(m) ==
  /\ m.is \notin {"undecodable", "blank"}
  /\ ~(m.is = "message" /\ m.id = "absent" /\ m.wellFormed)

UnderWay == IF run[Mcp].stage = "idle" THEN {} ELSE {run[Mcp].line}

(* The latest handshake before a line, by the lines.                       *)
ShookHands(m) == IsText(m) /\ Parses(m) /\ m.id = "given" /\ m.method = "initialize"
LastShake(n) ==
  LET shakes == {i \in 1..(n - 1) : ShookHands(lines[i])}
  IN {lines[i] : i \in {i \in shakes : \A j \in shakes : j <= i}}

(* A client is sent what its revision has: structured content never to one *)
(* that settled before there was any, and a modern one always told that    *)
(* its result is one, by an answer of its own line's era.                  *)
ReadsAnswer(a) ==
  LET m == lines[a.to] IN
  /\ a.structured =>
       \/ m.envelope = "current"
       \/ \A s \in LastShake(a.to) : s.asks \in Structured \/ s.asks \notin Revisions
  /\ (m.is = "message" /\ m.envelope = "current" /\ m.method # "initialize" /\ a.is # "error") => a.stamped
  /\ (m.is = "message" /\ m.envelope = "none" /\ m.method # "discover") => ~a.stamped

(* Every line that is not a notification has its own answer, in the order  *)
(* of the lines, on its id when it has one, and in a form that the one who *)
(* sent it reads; nothing else is written.                                 *)
OneAnswerEach ==
  LET due == {n \in DOMAIN lines : Owed(lines[n])} \ UnderWay IN
  /\ Len(answers) = Cardinality(due)
  /\ \A k \in DOMAIN answers :
       /\ answers[k].to \in due
       /\ \A j \in 1..(k - 1) : answers[j].to < answers[k].to
       /\ answers[k].named <=> (lines[answers[k].to].is = "message" /\ lines[answers[k].to].id = "given")
       /\ ReadsAnswer(answers[k])

Writing == {"remember", "note", "decide", "resolve"}

(* The client's name is "recorded against every write it makes", which the *)
(* answer to a review question is not: what a line has the server write is *)
(* recorded against whoever shook hands last before the line, the server   *)
(* if they named no one, and an answer to a question against no one. And   *)
(* the answer to a line says whether anything was written for it.          *)
SignedByItsClient ==
  /\ \A i \in DOMAIN store :
       store[i].line > 0 =>
         LET named == {s.from : s \in LastShake(store[i].line)} \ {Nobody}
         IN store[i].by = IF lines[store[i].line].tool = "resolve" THEN Nobody
                          ELSE IF named = {} THEN Mcp ELSE CHOOSE c \in named : TRUE
  /\ \A k \in DOMAIN answers :
       LET m == lines[answers[k].to] IN
       (m.is = "message" /\ m.method = "call" /\ answers[k].is # "error")
         => (answers[k].is = "result" /\ m.tool \in Writing
               <=> \E i \in DOMAIN store : store[i].line = answers[k].to)

(* Every request is answered, whoever holds the lock and whatever else the *)
(* machine does, unless a provider neither answers nor fails from then on. *)
Owing == \E n \in DOMAIN lines : Owed(lines[n]) /\ \A k \in DOMAIN answers : answers[k].to # n
Waiting == post[Mcp].stage = "ask"
RequestsEnd == [](Owing => <>(~Owing \/ []Waiting))
=============================================================================
