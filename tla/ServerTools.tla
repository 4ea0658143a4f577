----------------------------- MODULE ServerTools -----------------------------
(* The MCP servers of a process: how they are connected when it starts, how  *)
(* each chat collects their tools, and how the commands of the terminal      *)
(* unload, load and reload them.  The chats of a gateway share the           *)
(* connections; the terminal has one chat and runs one command at a time.    *)
EXTENDS Naturals, Functions

CONSTANTS
  Servers,        \* configured servers, the document server among them
  DocServer,      \* the document server, which is kept apart from the others
  Users,          \* chats
  MaxCommands     \* bound: commands in one behaviour

ASSUME DocIsConfigured == DocServer \in Servers /\ MaxCommands \in Nat

VARIABLES
  link,           \* the connection of each client
  loaded,         \* doc_client and chat.clients: the client of each server, if it has one
  tools,          \* tools_by_name of each chat: the client that offers each tool
  offered,        \* _openai_tools: the names sent to the model
  asked,          \* the clients a refresh still waits for
  answered,       \* history: the clients that answered the last refresh
  doing,          \* what each chat is doing
  reload,         \* the server a /reload loads again, the document server if none
  agentTools,     \* the tools the agent of each chat was given
  commands        \* commands so far

serverVars == <<link, loaded, tools, offered, asked, answered, doing, reload, agentTools, commands>>

First(s) == <<s, "first">>      \* the client made when the process starts
Later(s) == <<s, "later">>      \* the one made by the last /load
BuiltinClient == <<DocServer, "builtin">>
McpClients == {First(s) : s \in Servers} \cup {Later(s) : s \in Servers}
NoClient == <<DocServer, "none">>

Links  == {"idle", "transport", "session", "ready", "dead", "closed"}
Doings == {"nothing", "refreshing", "chatting", "agent", "unloading", "stopped"}

(* A tool of its own, one that every server has, and one named as a builtin. *)
ToolNames == Servers \cup {"common", "builtin"}
Offers(s) == {s, "common", "builtin"}
NoTools == [t \in {} |-> NoClient]

ServersInit ==
  /\ link = [c \in McpClients |-> "idle"]
  /\ loaded = [s \in Servers |-> NoClient]
  /\ tools = [u \in Users |-> [t \in {"builtin"} |-> BuiltinClient]]
  /\ offered = [u \in Users |-> {"builtin"}]
  /\ asked = [u \in Users |-> {}] /\ answered = [u \in Users |-> {}]
  /\ doing = [u \in Users |-> "nothing"]
  /\ reload = [u \in Users |-> DocServer]
  /\ agentTools = [u \in Users |-> NoTools]
  /\ commands = 0

-----------------------------------------------------------------------------
(* create_servers: the document server first, then the others side by side;  *)
(* each has its own stack of transport and session.                          *)
Tried(c) == link[c] \in {"ready", "dead", "closed"}
Started == \A s \in Servers : Tried(First(s))

Advance(c, from, to) == link[c] = from /\ link' = [link EXCEPT ![c] = to]

Connect(s) ==
  /\ s = DocServer \/ Tried(First(DocServer))
  /\ \/ Advance(First(s), "idle", "transport")
     \/ Advance(First(s), "transport", "session")
     \/ Advance(First(s), "session", "ready")
  /\ loaded' = [loaded EXCEPT ![s] = IF link'[First(s)] = "ready" THEN First(s) ELSE @]
  /\ UNCHANGED <<tools, offered, asked, answered, doing, reload, agentTools, commands>>

(* An error, or 30 seconds, at any stage: the stack is closed.               *)
ConnectFails(s) ==
  /\ s = DocServer \/ Tried(First(DocServer))
  /\ link[First(s)] \in {"idle", "transport", "session"} /\ ~Started
  /\ link' = [link EXCEPT ![First(s)] = "closed"]
  /\ UNCHANGED <<loaded, tools, offered, asked, answered, doing, reload, agentTools, commands>>

(* A server's process ends; nobody connects to it again.                     *)
ServerDies(s) ==
  /\ link[First(s)] = "ready"
  /\ link' = [link EXCEPT ![First(s)] = "dead"]
  /\ UNCHANGED <<loaded, tools, offered, asked, answered, doing, reload, agentTools, commands>>

-----------------------------------------------------------------------------
(* refresh_tools: the registry is emptied, each client is asked, and the     *)
(* builtin tools are put on top.                                             *)
Loaded == {loaded[s] : s \in Servers} \ {NoClient}

Refresh(u, clients) ==
  /\ tools'    = [tools EXCEPT ![u] = NoTools]
  /\ asked'    = [asked EXCEPT ![u] = clients]
  /\ answered' = [answered EXCEPT ![u] = {}]
  /\ UNCHANGED <<offered, agentTools>>

Initialize(u) ==
  /\ Started /\ doing[u] = "nothing"
  /\ Refresh(u, Loaded)
  /\ doing' = [doing EXCEPT ![u] = "refreshing"]
  /\ UNCHANGED <<link, loaded, reload, commands>>

(* A client answers, or fails: a later answer takes the names it shares.     *)
Taken(map, names, c) == [t \in names \cup DOMAIN map |-> IF t \in names THEN c ELSE map[t]]
Registered(u, c) == Taken(tools[u], Offers(c[1]), c)

ClientAnswers(u) ==
  /\ \E c \in asked[u] :
       /\ asked' = [asked EXCEPT ![u] = @ \ {c}]
       /\ \/ /\ link[c] = "ready"
             /\ tools' = [tools EXCEPT ![u] = Registered(u, c)]
             /\ answered' = [answered EXCEPT ![u] = @ \cup {c}]
          \/ UNCHANGED <<tools, answered>>
  /\ UNCHANGED <<link, loaded, offered, doing, reload, agentTools, commands>>

Refreshed(u) ==
  /\ doing[u] = "refreshing" /\ asked[u] = {}
  /\ tools'   = [tools EXCEPT ![u] = Taken(@, {"builtin"}, BuiltinClient)]
  /\ offered' = [offered EXCEPT ![u] = DOMAIN tools'[u]]
  /\ doing'   = [doing EXCEPT ![u] = "chatting"]
  /\ UNCHANGED <<link, loaded, asked, answered, reload, agentTools, commands>>

-----------------------------------------------------------------------------
(* add_server makes a client and does not connect it.                        *)
AddServer(u, s) ==
  /\ link'   = [link EXCEPT ![Later(s)] = "idle"]
  /\ loaded' = [loaded EXCEPT ![s] = Later(s)]
  /\ Refresh(u, {loaded'[q] : q \in Servers} \ {NoClient})
  /\ doing'  = [doing EXCEPT ![u] = "refreshing"]

(* The commands of the terminal, while its chat does nothing else.           *)
Commands(u) ==
  /\ Users = {u} /\ doing[u] = "chatting" /\ reload[u] = DocServer
  /\ commands < MaxCommands /\ commands' = commands + 1

LoadServer(u) ==
  /\ Commands(u)
  /\ \E s \in Servers \ {DocServer} : loaded[s] = NoClient /\ AddServer(u, s)
  /\ UNCHANGED reload

(* remove_server pops the client and cleans it up ...                        *)
Unload(u) ==
  /\ Commands(u)
  /\ \E s \in Servers \ {DocServer}, again \in BOOLEAN :
       /\ loaded[s] # NoClient
       /\ loaded' = [loaded EXCEPT ![s] = NoClient]
       /\ link'   = [link EXCEPT ![loaded[s]] = "closed"]
       /\ reload' = [reload EXCEPT ![u] = IF again THEN s ELSE DocServer]
  /\ doing' = [doing EXCEPT ![u] = "unloading"]
  /\ UNCHANGED <<tools, offered, asked, answered, agentTools>>

DetachedQuietly(u) ==  \* mutant
  /\ doing[u] = "unloading"
  /\ doing' = [doing EXCEPT ![u] = "chatting"]
  /\ UNCHANGED <<link, loaded, tools, offered, asked, answered, reload, agentTools, commands>>

(* ... collects the tools again ...                                          *)
Detached(u) ==
  /\ doing[u] = "unloading"
  /\ Refresh(u, Loaded)
  /\ doing' = [doing EXCEPT ![u] = "refreshing"]
  /\ UNCHANGED <<link, loaded, reload, commands>>

(* ... and /reload adds the server after that.                               *)
Reload(u) ==
  /\ doing[u] = "chatting" /\ reload[u] # DocServer
  /\ AddServer(u, reload[u])
  /\ reload' = [reload EXCEPT ![u] = DocServer]
  /\ UNCHANGED commands

-----------------------------------------------------------------------------
(* An agent gets the tools of the servers it may use, and those whose names  *)
(* its capabilities begin; its router keeps them while it runs.              *)
Allowed(u, caps) ==
  Restrict(tools[u], {t \in DOMAIN tools[u] :
     t \in caps \/ \E s \in (caps \cap Servers) \ {DocServer} : tools[u][t] = loaded[s]})

AgentStarts(u) ==
  /\ doing[u] = "chatting" /\ reload[u] = DocServer
  /\ \E caps \in SUBSET ToolNames : agentTools' = [agentTools EXCEPT ![u] = Allowed(u, caps)]
  /\ doing' = [doing EXCEPT ![u] = "agent"]
  /\ UNCHANGED <<link, loaded, tools, offered, asked, answered, reload, commands>>

AgentEnds(u) ==
  /\ doing[u] = "agent"
  /\ doing'      = [doing EXCEPT ![u] = "chatting"]
  /\ agentTools' = [agentTools EXCEPT ![u] = NoTools]
  /\ UNCHANGED <<link, loaded, tools, offered, asked, answered, reload, commands>>

(* The process ends: its chats are closed, then the stack of connections.    *)
Shutdown ==
  /\ \A u \in Users : doing[u] = "chatting" /\ reload[u] = DocServer
  /\ doing' = [u \in Users |-> "stopped"]
  /\ link'  = [c \in McpClients |-> "closed"]
  /\ UNCHANGED <<loaded, tools, offered, asked, answered, reload, agentTools, commands>>

ServersNext ==
  \/ \E s \in Servers : Connect(s) \/ ConnectFails(s) \/ ServerDies(s)
  \/ \E u \in Users : \/ Initialize(u) \/ ClientAnswers(u) \/ Refreshed(u) \/ LoadServer(u) \/ Unload(u)
                      \/ Detached(u) \/ Reload(u) \/ AgentStarts(u) \/ AgentEnds(u)
  \/ Shutdown

-----------------------------------------------------------------------------
ToolMaps == UNION {[names -> McpClients \cup {BuiltinClient}] : names \in SUBSET ToolNames}

ServersTypeOK ==
  /\ link \in [McpClients -> Links]
  /\ loaded \in [Servers -> McpClients \cup {NoClient}]
  /\ tools \in [Users -> ToolMaps] /\ agentTools \in [Users -> ToolMaps]
  /\ offered \in [Users -> SUBSET ToolNames]
  /\ asked \in [Users -> SUBSET McpClients] /\ answered \in [Users -> SUBSET McpClients]
  /\ doing \in [Users -> Doings] /\ reload \in [Users -> Servers] /\ commands \in 0..MaxCommands

(* What the model is offered can be called: between commands, the registry   *)
(* of a chat has every tool that was announced, the builtin ones in front,   *)
(* each with a client that is still loaded and whose connection nobody has   *)
(* closed; a server that was unloaded, failed to connect or was loaded again *)
(* leaves no tool behind, and a client that answered has no name that nobody *)
(* serves.  The same holds of the tools of a running agent.  A server that   *)
(* has died is not noticed by the code: its tools stay.                      *)
ToolsAreServed ==
  \A u \in Users : doing[u] \in {"chatting", "agent"} =>
    /\ offered[u] = DOMAIN tools[u]
    /\ tools[u]["builtin"] = BuiltinClient
    /\ \A c \in answered[u] : Offers(c[1]) \subseteq offered[u]
    /\ \A c \in (Range(tools[u]) \cup Range(agentTools[u])) \ {BuiltinClient} :
         c \in answered[u] \cap Loaded /\ link[c] \in {"ready", "dead"}
=============================================================================
