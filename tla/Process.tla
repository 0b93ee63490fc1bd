------------------------------- MODULE Process -------------------------------
(***************************************************************************)
(* One process from its start through its main loop: LogicMgr starts the   *)
(* modules its configuration names and runs their loops, Kernel::Loop      *)
(* alternates the network's events with them, and Rpc hands the events of  *)
(* nodes to scripts, which send serialised arguments to other nodes.       *)
(*                                                                         *)
(* What Harbor, Master and Cluster do with nodes is in Cluster, what       *)
(* core/harbor.lua does with calls in Rpc; this module has their start.    *)
(***************************************************************************)
EXTENDS ScriptEngine, Serialize

CONSTANTS
  Configs,  \* the sets of modules that configurations name
  Args,     \* the arguments a script may serialise: sequences of Values
  PortArg   \* the process is given a port to listen on

ModuleNames == {"Harbor", "Master", "Cluster", "ScriptEngine", "Rpc"}

ASSUME ProcessAssumption ==
  /\ Configs \subseteq SUBSET ModuleNames
  /\ Args \subseteq Seq(Values)
  /\ PortArg \in BOOLEAN

(* Modules find Harbor, and Rpc the script engine, or fail an assertion.   *)
ASSUME ConfigAssumption ==
  \A c \in Configs : "Harbor" \in c /\ ("Rpc" \in c => "ScriptEngine" \in c)

VARIABLES
  order,       \* the modules in the order of _modules, an unordered_map
  phase,       \* what the main thread does: "Initialize", "Launched", "Net" or "Logic"
  at,          \* the module whose turn it is
  initialized, \* modules whose Initialize has run
  listeners,   \* Harbor's _listeners
  handlers,    \* the messages in Harbor's _handlers
  listening,   \* Harbor listens
  text         \* what the script that runs has serialised, and not yet sent

startVars == <<order, initialized, listeners, handlers, listening>>
vars == <<engineVars, startVars, phase, at, text>>

Modules == Range(order)

NoText == [result |-> "none"]

Init ==
  /\ EngineInit
  /\ order \in UNION {SetToSeqs(c) : c \in Configs}
  /\ phase = "Initialize"
  /\ at = 1
  /\ initialized = {}
  /\ listeners = <<>>
  /\ handlers = {}
  /\ listening = FALSE
  /\ text = NoText

-----------------------------------------------------------------------------
(* Mutant: the order of the list of modules is turned round.               *)
ModuleReversed == order[IF phase = "Launched" THEN Len(order) + 1 - at ELSE at]

Module == order[at]

(* Mutant: a module is launched as soon as it is initialised.              *)
AdvanceEach ==
  /\ phase' = CASE phase = "Initialize" -> "Launched"
                [] phase = "Launched" -> IF at = Len(order) THEN "Net" ELSE "Initialize"
                [] OTHER -> IF at = Len(order) THEN "Net" ELSE phase
  /\ at' = IF phase = "Initialize" THEN at ELSE (at % Len(order)) + 1

(* The loops over _modules: all of one phase, then the next.               *)
Advance ==
  /\ phase' = IF at < Len(order) THEN phase
              ELSE IF phase = "Initialize" THEN "Launched" ELSE "Net"
  /\ at' = (at % Len(order)) + 1

(* Initialize of the module whose turn it is.                              *)
Initialize ==
  /\ Idle /\ phase = "Initialize"
  /\ initialized' = initialized \union {Module}
  /\ listeners' = IF Module = "Rpc" THEN Append(listeners, "Rpc") ELSE listeners
  /\ handlers' = IF Module = "Rpc" THEN handlers \union {"RPC", "RPCNR", "RESPONE"} ELSE handlers
  /\ Advance
  /\ UNCHANGED <<engineVars, order, listening, text>>

Launch(m) ==
  /\ Idle /\ phase = "Launched" /\ Module = m
  /\ Advance
  /\ UNCHANGED <<order, initialized, text>>

(* Harbor::Launched: a master's port is its own, other nodes are given one.*)
LaunchHarbor ==
  /\ Launch("Harbor")
  /\ listening' = IF "Master" \in Modules THEN "Master" \in initialized ELSE PortArg
  /\ UNCHANGED <<engineVars, listeners, handlers>>

LaunchMaster ==
  /\ Launch("Master")
  /\ listeners' = Append(listeners, "Master")
  /\ UNCHANGED <<engineVars, handlers, listening>>

(* Cluster::Launched connects to the master, through the kernel that       *)
(* Harbor was given when it was initialised.                               *)
LaunchCluster ==
  /\ Launch("Cluster")
  /\ aborted' = IF "Harbor" \in initialized THEN aborted ELSE "start"
  /\ handlers' = handlers \union {"NEW_NODE"}
  /\ UNCHANGED <<stack, acts, trackback, harbor, loop, listeners, listening>>

(* Rpc::Launched: a table with four functions, in the Lua state that the   *)
(* engine made when it was initialised.                                    *)
LaunchRpc ==
  /\ Launch("Rpc")
  /\ IF "ScriptEngine" \in initialized
     THEN /\ harbor' = Natives
          /\ stack' = AddModuleFunction(AddModuleFunction(AddModuleFunction(
                        AddModuleFunction(CreateModule(stack)))))
          /\ UNCHANGED aborted
     ELSE aborted' = "start" /\ UNCHANGED <<harbor, stack>>
  /\ UNCHANGED <<acts, trackback, loop, listeners, handlers, listening>>

LaunchScriptEngine ==
  /\ Launch("ScriptEngine")
  /\ ExecuteScriptFile
  /\ UNCHANGED <<listeners, handlers, listening>>

-----------------------------------------------------------------------------
(* NetEngine::Loop hands one event to Rpc: a node has opened or closed.    *)
NodeEvent(func) ==
  /\ Idle /\ phase = "Net"
  /\ "Rpc" \in Range(listeners)
  /\ Call(func)
  /\ UNCHANGED <<startVars, phase, at, text>>

Proto(func) == CASE func = "onCall"      -> "RPC"
                 [] func = "onCallNoRet" -> "RPCNR"
                 [] func = "onRespone"   -> "RESPONE"

(* NetEngine::Loop hands one message to Rpc; Harbor drops a message that   *)
(* has no handler.                                                         *)
NodeMessage(func) ==
  /\ Idle /\ phase = "Net"
  /\ Proto(func) \in handlers
  /\ Call(func)
  /\ UNCHANGED <<startVars, phase, at, text>>

(* NetEngine::Loop returns to Kernel::Loop.                                *)
EndNet ==
  /\ Idle /\ phase = "Net"
  /\ phase' = "Logic"
  /\ UNCHANGED <<engineVars, startVars, at, text>>

(* LogicMgr::Loop: only the engine's loop concerns scripts.                *)
Loop ==
  /\ Idle /\ phase = "Logic"
  /\ IF Module = "ScriptEngine" THEN ExecuteGlobalFunction ELSE UNCHANGED engineVars
  /\ Advance
  /\ UNCHANGED <<startVars, text>>

-----------------------------------------------------------------------------
mainVars == <<startVars, phase, at>>

(* A script serialises arguments.  What follows a write past the end of    *)
(* the buffer is undefined: the model ends there.                          *)
ScriptSerialize(args) ==
  /\ Loaded /\ text = NoText
  /\ text' = l_serialize(args)
  /\ aborted' = IF text'.result = "undefined" THEN "buffer" ELSE aborted
  /\ UNCHANGED <<mainVars, stack, acts, trackback, harbor, loop>>

(* It sends what it has serialised.                                        *)
ScriptSend(native, onMain) ==
  /\ text.result = "string"
  /\ Callback(native, onMain)
  /\ text' = NoText
  /\ UNCHANGED mainVars

(* A send that overflows the connection to another node closes it, and     *)
(* Harbor reports that at once; before the main loop no node is known.     *)
SendCloses ==
  /\ Native /\ phase \in {"Net", "Logic"} /\ Len(acts) < MaxDepth
  /\ Call("onClose")
  /\ UNCHANGED <<mainVars, text>>

SendReturns == CallbackReturn /\ UNCHANGED <<mainVars, text>>

ScriptError ==
  /\ text.result \in {"none", "error"}
  /\ Error
  /\ text' = NoText
  /\ UNCHANGED mainVars

(* The script's own steps.  It may also catch the error of serialize.      *)
ScriptStep ==
  /\ text.result \in {"none", "error"}
  /\ RequireHarbor \/ SetTrackback \/ Return
  /\ text' = NoText
  /\ UNCHANGED mainVars

Next ==
  \/ Initialize
  \/ LaunchHarbor \/ LaunchMaster \/ LaunchCluster \/ LaunchRpc \/ LaunchScriptEngine
  \/ \E func \in {"onOpen", "onClose"} : NodeEvent(func)
  \/ \E func \in {"onCall", "onCallNoRet", "onRespone"} : NodeMessage(func)
  \/ EndNet
  \/ Loop
  \/ \E args \in Args : ScriptSerialize(args)
  \/ \E native \in Natives, onMain \in BOOLEAN : ScriptSend(native, onMain)
  \/ SendCloses
  \/ SendReturns
  \/ ScriptError
  \/ ScriptStep

Spec == Init /\ [][Next]_vars

-----------------------------------------------------------------------------
TypeOK ==
  /\ EngineTypeOK
  /\ order \in Seq(ModuleNames) /\ order # <<>>
  /\ phase \in {"Initialize", "Launched", "Net", "Logic"}
  /\ at \in 1 .. Len(order)
  /\ initialized \subseteq ModuleNames
  /\ listeners \in Seq({"Rpc", "Master"})
  /\ handlers \subseteq {"RPC", "RPCNR", "RESPONE", "NEW_NODE"}
  /\ listening \in BOOLEAN
  /\ text.result \in {"none", "string", "error", "undefined"}

Before(m, n) == \E i, j \in DOMAIN order : i < j /\ order[i] = m /\ order[j] = n

(* Whatever the order of the modules, each finds what it needs of the      *)
(* others at its start, and once events arrive every module has registered *)
(* its listeners and messages and a master listens (LogicMgr::Initialize). *)
StartSound ==
  /\ aborted # "start"
  /\ phase \in {"Net", "Logic"} =>
       /\ initialized = Modules
       /\ Modules \intersect {"Rpc", "Master"} = Range(listeners)
       /\ "Cluster" \in Modules => "NEW_NODE" \in handlers
       /\ "Master" \in Modules => listening

(* Scripts can be called in the main loop exactly if Rpc precedes the      *)
(* engine in the list of modules, and no event then ends the process: the  *)
(* engine's Launched runs entry, which needs the table of Rpc's Launched.  *)
ScriptsReady ==
  /\ phase \in {"Net", "Logic"} /\ acts = <<>> /\ "Rpc" \in Modules =>
       (Handlers \subseteq harbor <=> Before("Rpc", "ScriptEngine"))
  /\ aborted = "call" => Before("ScriptEngine", "Rpc")

(* Arguments come back as they were sent, and only what has no encoding or *)
(* does not fit is refused (l_serialize, l_unserialize).                   *)
RoundTrip == text # NoText => Faithful(text)
=============================================================================
