----------------------------- MODULE ScriptEngine -----------------------------
(***************************************************************************)
(* The engine through which the process and its scripts call each other    *)
(* (scriptengine/ScriptEngine.cpp), over the stack of its one Lua state    *)
(* s_state.  Engine calls nest: a script that an engine call runs calls a  *)
(* native function, whose send may close a connection and so enter the     *)
(* engine again before the first call has ended.                           *)
(***************************************************************************)
EXTENDS Integers, SequencesExt

CONSTANTS
  MAX_LUA_RESULT,  \* results that lua_pcall is asked for
  MaxDepth         \* bound: engine and native calls under way at a time

ASSUME EngineAssumption == MAX_LUA_RESULT \in Nat /\ MaxDepth \in Nat

VARIABLES
  stack,     \* what the engine has on the stack of s_state
  acts,      \* the engine and native calls under way, the innermost last
  trackback, \* the global __G__TRACKBACK__ is a function; scripts may set it
  harbor,    \* the functions in package.loaded["serverd.harbor"], {} if there is none
  loop,      \* the global loop is a function
  aborted    \* the assertion that has ended the process, "" if none

engineVars == <<stack, acts, trackback, harbor, loop, aborted>>

Natives  == {"call", "callNoRet", "typeCall", "respone"}
Handlers == {"onOpen", "onClose", "onCall", "onCallNoRet", "onRespone"}

(* Handlers of events take the node's type and id, those of messages the   *)
(* message too.                                                            *)
Argc(func) == IF func \in {"onOpen", "onClose"} THEN 2 ELSE 3

EngineInit ==
  /\ stack = <<>>
  /\ acts = <<>>
  /\ trackback = FALSE
  /\ harbor = {}
  /\ loop = FALSE
  /\ aborted = ""

Pop(s, n) == SubSeq(s, 1, Len(s) - n)

Slots(x, n) == [i \in 1 .. n |-> x]

-----------------------------------------------------------------------------
(* CreateModule and AddModuleFunction: the stack after them.  lua_rawset   *)
(* takes a key and a value.                                                *)
CreateModule(s) == Pop(Pop(s \o <<"package", "loaded", "name", "table">>, 2), 2)

AddModuleFunction(s) ==
  Pop(Pop(s \o <<"package", "loaded", "module", "name", "closure">>, 2), 3)

(* ExecuteFunction up to lua_pcall, which takes the function and its       *)
(* arguments from s; traceback is the index of the message handler.        *)
Execute(via, s, argc) ==
  LET functionIndex == -(argc + 1)
      traceback == IF trackback THEN functionIndex - 1 ELSE 0
      ready == IF trackback THEN InsertAt(s, Len(s) + 1 + functionIndex, "G") ELSE s
  IN  /\ acts' = Append(acts, [via |-> via, traceback |-> traceback, entry |-> stack])
      /\ stack' = Pop(ready, argc + 1)

(* Mutant: whether a handler is on the stack is asked when the call ends.  *)
FailedLate(a, s) == IF trackback THEN Pop(Append(s, "error"), 2) ELSE Pop(Append(s, "error"), 1)

(* ExecuteFunction after lua_pcall: the script has raised an error.        *)
Failed(a, s) == IF a.traceback = 0 THEN Pop(Append(s, "error"), 1) ELSE Pop(Append(s, "error"), 2)

(* ExecuteFunction after lua_pcall: results are filled up with nil.        *)
Returned(a, s) ==
  LET read == Pop(s \o Slots("result", MAX_LUA_RESULT), MAX_LUA_RESULT)
  IN  IF a.traceback # 0 THEN Pop(read, 1) ELSE read

(* Call leaves package, loaded and the module below the function.          *)
Finish(a, s) == IF a.via = "Call" THEN Pop(s, 3) ELSE s

(* PrepareCall asserts that the table of the module has the function.      *)
PrepareCall(func) == func \in harbor

Call(func) ==
  IF PrepareCall(func)
  THEN /\ Execute("Call", stack \o <<"package", "loaded", "module", func>>
                            \o Slots("arg", Argc(func)), Argc(func))
       /\ UNCHANGED <<trackback, harbor, loop, aborted>>
  ELSE aborted' = "call" /\ UNCHANGED <<stack, acts, trackback, harbor, loop>>

(* ExecuteScriptFile of entry, which defines loop before anything else.    *)
ExecuteScriptFile ==
  /\ Execute("String", Append(stack, "chunk"), 0)
  /\ loop' = TRUE
  /\ UNCHANGED <<trackback, harbor, aborted>>

(* Loop, with ExecuteGlobalFunction.                                       *)
ExecuteGlobalFunction ==
  IF loop
  THEN Execute("Global", Append(stack, "loop"), 0) /\ UNCHANGED <<trackback, harbor, loop, aborted>>
  ELSE aborted' = "loop" /\ UNCHANGED <<stack, acts, trackback, harbor, loop>>

-----------------------------------------------------------------------------
Idle   == acts = <<>> /\ aborted = ""
Script == acts # <<>> /\ Last(acts).via # "Callback" /\ aborted = ""
Native == acts # <<>> /\ Last(acts).via = "Callback" /\ aborted = ""

(* The script that runs is past the require of core.harbor in entry.  What *)
(* it does then is the application's.                                      *)
Loaded == Script /\ Handlers \subseteq harbor

(* entry: core.harbor defines the handlers in the table that Rpc made.     *)
RequireHarbor ==
  /\ Script /\ Last(acts).via = "String" /\ ~Loaded
  /\ harbor # {}
  /\ harbor' = harbor \union Handlers
  /\ UNCHANGED <<stack, acts, trackback, loop, aborted>>

SetTrackback ==
  /\ Loaded
  /\ trackback' = ~trackback
  /\ UNCHANGED <<stack, acts, harbor, loop, aborted>>

(* The script returns.  Without core.harbor, entry fails and loop, with    *)
(* nothing registered, does nothing.                                       *)
Return ==
  /\ Script /\ (Last(acts).via = "String" => Loaded)
  /\ stack' = Finish(Last(acts), Returned(Last(acts), stack))
  /\ acts' = Front(acts)
  /\ UNCHANGED <<trackback, harbor, loop, aborted>>

(* The script raises an error: only Loop looks at the answer.              *)
Error ==
  /\ Script /\ (Loaded \/ (Last(acts).via = "String" /\ harbor = {}))
  /\ stack' = Finish(Last(acts), Failed(Last(acts), stack))
  /\ acts' = Front(acts)
  /\ aborted' = IF Last(acts).via = "Global" THEN "loop" ELSE aborted
  /\ UNCHANGED <<trackback, harbor, loop>>

(* Callback: the script calls a native function, whose frame is on s_state *)
(* or, for a script in a coroutine, on a stack of its own.                 *)
Callback(native, onMain) ==
  /\ Loaded /\ Len(acts) < MaxDepth
  /\ native \in harbor
  /\ stack' = stack \o Slots("param", IF ~onMain THEN 0 ELSE IF native = "typeCall" THEN 2 ELSE 3)
  /\ acts' = Append(acts, [via |-> "Callback", traceback |-> 0, entry |-> stack])
  /\ UNCHANGED <<trackback, harbor, loop, aborted>>

(* Lua drops the frame of a native function that returns.                  *)
CallbackReturn ==
  /\ Native
  /\ stack' = SubSeq(stack, 1, Len(Last(acts).entry))
  /\ acts' = Front(acts)
  /\ UNCHANGED <<trackback, harbor, loop, aborted>>

-----------------------------------------------------------------------------
(* What may lie on the stack.                                              *)
Slot == {"package", "loaded", "module", "name", "table", "closure", "chunk", "loop", "G",
         "arg", "param", "result", "error"} \union Handlers

Acts == [via : {"Call", "String", "Global", "Callback"}, traceback : Int, entry : Seq(Slot)]

EngineTypeOK ==
  /\ stack \in Seq(Slot)
  /\ acts \in Seq(Acts)
  /\ trackback \in BOOLEAN
  /\ harbor \subseteq Natives \union Handlers
  /\ loop \in BOOLEAN
  /\ aborted \in {"", "start", "call", "loop", "buffer"}

(* What an engine call keeps on the stack while its script runs.           *)
Kept(a) ==
  (IF a.via = "Call" THEN 3 ELSE 0) + (IF a.traceback # 0 THEN 1 ELSE 0)

(* The stack as the i-th call has left it to the next.                     *)
Above(i) == IF i = Len(acts) THEN stack ELSE acts[i + 1].entry

(* Every engine call leaves the stack as it found it, however the script   *)
(* ended, whatever it did to __G__TRACKBACK__ and whatever was called in   *)
(* between: between events the stack is empty, and during a call it holds  *)
(* what the calls under way have put there, each above those around it     *)
(* (Call, ExecuteFunction).                                                *)
StackBalanced ==
  /\ acts = <<>> => stack = <<>>
  /\ \A i \in DOMAIN acts :
       /\ IsPrefix(acts[i].entry, Above(i))
       /\ acts[i].via # "Callback" => Len(Above(i)) = Len(acts[i].entry) + Kept(acts[i])
=============================================================================
