----------------------------- MODULE McpServers -----------------------------
(***************************************************************************)
(* Which MCP servers are started and which tools they give: the two        *)
(* configuration files (internal/mcp/config.go), Start (manager.go) and    *)
(* tools.Registry.  A file is its lines, a name in it one of RawName, which *)
(* sanitizeName maps to the name that is used.                             *)
(***************************************************************************)
EXTENDS Naturals, Sequences, FiniteSets

LOCAL INSTANCE SequencesExt

CONSTANTS RawName,     \* names of servers and tools, as written
          Sanitize,    \* sanitizeNameNoFallback: [RawName -> names], "" for none
          Order,       \* the names of servers, sorted
          Line,        \* lines of a file: [key, value]
          MaxLines     \* of one file

VARIABLES
  user, project,  \* the files
  servers,        \* LoadConfig: functions of names to ServerConfig
  pc, todo,       \* names Start has still to go through
  status,         \* ServerStatus: [name -> what became of it]
  offered,        \* Manager.tools: [server, tool]
  registered,     \* Registry.tools: names to tools
  refused         \* tools for which RegisterInto returned a warning

vars == <<user, project, servers, pc, todo, status, offered, registered, refused>>

Names == Range(Order)
Files == UNION {[1..n -> Line] : n \in 0..MaxLines}
Nothing == [n \in {} |-> {}]

Init ==
  /\ user = <<>> /\ project = <<>> /\ servers = Nothing /\ pc = "idle" /\ todo = <<>>
  /\ status = Nothing /\ offered = <<>> /\ registered = Nothing /\ refused = {}

-----------------------------------------------------------------------------
(* parseTOML and LoadConfig.                                               *)

Default(trusted) ==
  [enabled |-> "true", trusted |-> trusted, transport |-> "stdio", command |-> "none",
   url |-> "none"]

With(f, n, v) == [m \in DOMAIN f \cup {n} |-> IF m = n THEN v ELSE f[m]]

SetKey(cfg, line, trustedDefault) ==
  IF line.key = "trusted" /\ trustedDefault = "false" THEN cfg ELSE [cfg EXCEPT ![line.key] = line.value]

\* A section that comes again goes on; lines outside of one count for nothing.
parseTOML(lines, trustedDefault) ==
  LET Parse(parsed, line) ==
        LET name == Sanitize[line.value]
        IN CASE line.key = "other section" \/ (line.key = "section" /\ name = "") ->
                  [parsed EXCEPT !.section = ""]
             [] line.key = "section" /\ name # "" ->
                  [section |-> name,
                   servers |-> IF name \in DOMAIN parsed.servers THEN parsed.servers
                               ELSE With(parsed.servers, name, Default(trustedDefault))]
             [] line.key \notin {"section", "other section"} /\ parsed.section = "" -> parsed
             [] OTHER -> [parsed EXCEPT !.servers[parsed.section] =
                            SetKey(@, line, trustedDefault)]
  IN FoldLeft(Parse, [section |-> "", servers |-> Nothing], lines).servers

\* The user's entry replaces the project's of the same name, whole.
LoadConfig ==
  /\ pc = "idle" /\ user' \in Files /\ project' \in Files
  /\ LET ours == parseTOML(user', "true")
         theirs == parseTOML(project', "false")
     IN servers' = [n \in DOMAIN ours \cup DOMAIN theirs |->
                      IF n \in DOMAIN ours THEN ours[n] ELSE theirs[n]]
  /\ todo' = SelectSeq(Order, LAMBDA n : n \in DOMAIN servers') /\ pc' = "start"
  /\ UNCHANGED <<status, offered, registered, refused>>

-----------------------------------------------------------------------------
(* Start.                                                                  *)

\* Defect: trust is not asked for.
usableUntrusted(cfg) == cfg.enabled = "true"

usable(cfg) == cfg.enabled = "true" /\ cfg.trusted = "true"
complete(cfg) == IF cfg.transport = "stdio" THEN cfg.command # "none" ELSE cfg.url # "none"

Skip ==
  /\ pc = "start" /\ todo # <<>>
  /\ LET n == Head(todo) cfg == servers[n]
     IN \/ cfg.enabled = "false" /\ status' = With(status, n, "disabled")
        \/ /\ cfg.enabled = "true" /\ cfg.trusted = "false"
           /\ status' = With(status, n, "untrusted")
        \/ /\ usable(cfg) /\ ~complete(cfg) /\ status' = With(status, n, "invalid")
  /\ todo' = Tail(todo)
  /\ UNCHANGED <<user, project, servers, pc, offered, registered, refused>>

\* Connect runs the command, or asks the server; it may fail.  Else the server is
\* connected, with any tools.
Connect ==
  /\ pc = "start" /\ todo # <<>>
  /\ LET n == Head(todo) cfg == servers[n]
     IN /\ usable(cfg) /\ complete(cfg)
        /\ \/ status' = With(status, n, "failed") /\ UNCHANGED offered
           \/ /\ status' = With(status, n, "connected")
              /\ \E given \in UNION {[1..k -> RawName] : k \in 0..2} :
                   offered' = offered \o [k \in DOMAIN given |-> [server |-> n, tool |-> given[k]]]
  /\ todo' = Tail(todo)
  /\ UNCHANGED <<user, project, servers, pc, registered, refused>>

\* The first of a name keeps it; another is refused, with a warning.
Put(reg, t) ==
  LET name == <<t.server, Sanitize[t.tool]>>
  IN IF name \in DOMAIN reg.tools THEN [reg EXCEPT !.refused = @ \cup {t}]
                                  ELSE [reg EXCEPT !.tools = With(@, name, t)]

RegisterInto ==
  /\ pc = "start" /\ todo = <<>> /\ pc' = "done"
  /\ LET reg == FoldLeft(Put, [tools |-> registered, refused |-> {}], offered)
     IN registered' = reg.tools /\ refused' = reg.refused
  /\ UNCHANGED <<user, project, servers, todo, status, offered>>

-----------------------------------------------------------------------------
Next == LoadConfig \/ Skip \/ Connect \/ RegisterInto

Spec == Init /\ [][Next]_vars

-----------------------------------------------------------------------------
TypeOK ==
  /\ user \in Seq(Line) /\ project \in Seq(Line) /\ DOMAIN servers \subseteq Names
  /\ pc \in {"idle", "start", "done"} /\ todo \in Seq(Names)
  /\ DOMAIN status \subseteq Names /\ offered \in Seq([server : Names, tool : RawName])
  /\ Range(registered) \subseteq Range(offered) /\ refused \subseteq Range(offered)

namesOf(lines) == {Sanitize[l.value] : l \in {m \in Range(lines) : m.key = "section"}}

\* config.go, manager.go: only servers of the user's own file are started, as that
\* file alone has them, and every one that is enabled, trusted and complete there
\* is; a tool that is offered is registered under its name, or refused because
\* another has that name.
ServersAreTheUsers ==
  /\ \A n \in DOMAIN status :
       status[n] \in {"failed", "connected"} =>
         /\ n \in namesOf(user) /\ servers[n] = parseTOML(user, "true")[n]
  /\ pc = "done" =>
       /\ \A n \in namesOf(user) \ {""} :
            LET cfg == servers[n]
            IN usable(cfg) /\ complete(cfg) => status[n] \in {"failed", "connected"}
       /\ \A t \in Range(offered) :
            LET name == <<t.server, Sanitize[t.tool]>>
            IN registered[name] = t \/ (t \in refused /\ registered[name].server = t.server)
=============================================================================
