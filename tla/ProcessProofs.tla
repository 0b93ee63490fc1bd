---------------------------- MODULE ProcessProofs ----------------------------
(***************************************************************************)
(* The Lua stack is balanced, the modules start soundly and scripts are    *)
(* called only if Rpc came before the engine, for every configuration,     *)
(* every order of its modules and scripts of any kind.                     *)
(***************************************************************************)
EXTENDS Process, SequenceTheorems, FiniteSetTheorems, TLAPS

(* u is s with k more slots above it.                                      *)
Grown(s, u, k) ==
  /\ s \in Seq(Slot) /\ u \in Seq(Slot)
  /\ Len(u) = Len(s) + k
  /\ \A i \in 1 .. Len(s) : u[i] = s[i]

(* The length of a prefix.                                                 *)
LEMMA PrefixFacts ==
  ASSUME NEW S, NEW s \in Seq(S), NEW n \in 0 .. Len(s)
  PROVE  /\ SubSeq(s, 1, n) \in Seq(S) /\ Len(SubSeq(s, 1, n)) = n
         /\ \A i \in 1 .. n : SubSeq(s, 1, n)[i] = s[i]
<1>1. n \in Int /\ 1 \in Int /\ Len(s) \in Nat /\ \A i \in 1 .. n : s[i] \in S
  BY LenProperties, ElementOfSeq
<1>2. /\ SubSeq(s, 1, n) \in Seq(S)
      /\ Len(SubSeq(s, 1, n)) = IF 1 <= n THEN n - 1 + 1 ELSE 0
      /\ \A i \in 1 .. n - 1 + 1 : SubSeq(s, 1, n)[i] = s[1 + i - 1]
  BY <1>1, SubSeqProperties
<1>3. QED
  BY <1>1, <1>2

(* The suffix from position i.                                             *)
LEMMA SuffixFacts ==
  ASSUME NEW S, NEW s \in Seq(S), NEW i \in 1 .. Len(s) + 1
  PROVE  SubSeq(s, i, Len(s)) \in Seq(S) /\ Len(SubSeq(s, i, Len(s))) = Len(s) - i + 1
<1>1. i \in Int /\ Len(s) \in Int /\ Len(s) \in Nat /\ \A j \in i .. Len(s) : s[j] \in S
  BY LenProperties, ElementOfSeq
<1>2. /\ SubSeq(s, i, Len(s)) \in Seq(S)
      /\ Len(SubSeq(s, i, Len(s))) = IF i <= Len(s) THEN Len(s) - i + 1 ELSE 0
  BY <1>1, SubSeqProperties
<1>3. QED
  BY <1>1, <1>2

(* A sequence is itself with nothing above it.                             *)
LEMMA GrownZero == ASSUME NEW s \in Seq(Slot) PROVE Grown(s, s, 0)
  BY LenProperties DEF Grown

(* Pushing.                                                                *)
LEMMA GrownConcat ==
  ASSUME NEW s, NEW u, NEW k \in Nat, Grown(s, u, k), NEW v \in Seq(Slot)
  PROVE  Grown(s, u \o v, k + Len(v))
<1>1. /\ s \in Seq(Slot) /\ u \in Seq(Slot) /\ Len(u) = Len(s) + k
      /\ Len(s) \in Nat /\ Len(u) \in Nat /\ Len(v) \in Nat
  BY LenProperties DEF Grown
<1>2. /\ u \o v \in Seq(Slot) /\ Len(u \o v) = Len(u) + Len(v)
      /\ \A i \in 1 .. Len(u) + Len(v) : (u \o v)[i] = IF i <= Len(u) THEN u[i] ELSE v[i - Len(u)]
  BY <1>1, ConcatProperties
<1>3. \A i \in 1 .. Len(s) : (u \o v)[i] = u[i]
  BY <1>1, <1>2
<1>4. QED
  BY <1>1, <1>2, <1>3 DEF Grown

(* Pushing one slot.                                                       *)
LEMMA GrownAppend ==
  ASSUME NEW s, NEW u, NEW k \in Nat, Grown(s, u, k), NEW e \in Slot
  PROVE  Grown(s, Append(u, e), k + 1)
<1>1. /\ s \in Seq(Slot) /\ u \in Seq(Slot) /\ Len(u) = Len(s) + k
      /\ Len(s) \in Nat /\ Len(u) \in Nat
  BY LenProperties DEF Grown
<1>2. /\ Append(u, e) \in Seq(Slot) /\ Len(Append(u, e)) = Len(u) + 1
      /\ \A i \in 1 .. Len(u) : Append(u, e)[i] = u[i]
  BY <1>1, AppendProperties
<1>3. QED
  BY <1>1, <1>2 DEF Grown

(* Popping what lies above.                                                *)
LEMMA GrownPop ==
  ASSUME NEW s, NEW u, NEW k \in Nat, Grown(s, u, k), NEW n \in 0 .. k
  PROVE  Grown(s, Pop(u, n), k - n)
<1>1. /\ s \in Seq(Slot) /\ u \in Seq(Slot) /\ Len(u) = Len(s) + k
      /\ Len(s) \in Nat /\ Len(u) \in Nat
  BY LenProperties DEF Grown
<1>2. Len(u) - n \in 0 .. Len(u) /\ Len(s) <= Len(u) - n
  BY <1>1
<1>3. /\ Pop(u, n) \in Seq(Slot) /\ Len(Pop(u, n)) = Len(u) - n
      /\ \A i \in 1 .. Len(u) - n : Pop(u, n)[i] = u[i]
  BY <1>1, <1>2, PrefixFacts DEF Pop
<1>4. QED
  BY <1>1, <1>2, <1>3 DEF Grown

(* Popping all that lies above.                                            *)
LEMMA GrownSame == ASSUME NEW s, NEW u, Grown(s, u, 0) PROVE u = s
<1>1. /\ s \in Seq(Slot) /\ u \in Seq(Slot) /\ Len(u) = Len(s)
      /\ \A i \in 1 .. Len(u) : u[i] = s[i]
  BY LenProperties DEF Grown
<1>2. QED
  BY <1>1, SeqEqual

(* Inserting above s, as lua_insert does.                                  *)
LEMMA GrownInsert ==
  ASSUME NEW s, NEW u, NEW k \in Nat, Grown(s, u, k), NEW e \in Slot,
         NEW i \in Len(s) + 1 .. Len(u) + 1
  PROVE  Grown(s, InsertAt(u, i, e), k + 1)
<1>1. /\ s \in Seq(Slot) /\ u \in Seq(Slot) /\ Len(u) = Len(s) + k
      /\ Len(s) \in Nat /\ Len(u) \in Nat /\ i \in 1 .. Len(u) + 1 /\ i \in Nat
  BY LenProperties DEF Grown
<1>2. Grown(s, SubSeq(u, 1, i - 1), i - 1 - Len(s)) /\ i - 1 - Len(s) \in Nat
  <2>1. i - 1 \in 0 .. Len(u)
    BY <1>1
  <2>2. /\ SubSeq(u, 1, i - 1) \in Seq(Slot) /\ Len(SubSeq(u, 1, i - 1)) = i - 1
        /\ \A j \in 1 .. i - 1 : SubSeq(u, 1, i - 1)[j] = u[j]
    BY <1>1, <2>1, PrefixFacts
  <2>3. QED
    BY <1>1, <2>2 DEF Grown
<1>3. <<e>> \in Seq(Slot) /\ Len(<<e>>) = 1
  OBVIOUS
<1>4. Grown(s, SubSeq(u, 1, i - 1) \o <<e>>, i - Len(s)) /\ i - Len(s) \in Nat
  <2>1. Grown(s, SubSeq(u, 1, i - 1) \o <<e>>, (i - 1 - Len(s)) + Len(<<e>>))
    BY <1>2, <1>3, GrownConcat
  <2>2. QED
    BY <1>1, <1>3, <2>1
<1>5. SubSeq(u, i, Len(u)) \in Seq(Slot) /\ Len(SubSeq(u, i, Len(u))) = Len(u) - i + 1
  BY <1>1, SuffixFacts
<1>6. Grown(s, InsertAt(u, i, e), (i - Len(s)) + Len(SubSeq(u, i, Len(u))))
  BY <1>4, <1>5, GrownConcat DEF InsertAt
<1>7. (i - Len(s)) + Len(SubSeq(u, i, Len(u))) = k + 1
  BY <1>1, <1>5
<1>8. QED
  BY <1>6, <1>7

(* n equal slots.                                                          *)
LEMMA SlotsFacts ==
  ASSUME NEW x \in Slot, NEW n \in Nat
  PROVE  Slots(x, n) \in Seq(Slot) /\ Len(Slots(x, n)) = n
<1>1. Slots(x, n) = [i \in 1 .. n |-> x]
  BY DEF Slots
<1>2. [i \in 1 .. n |-> x] \in Seq(Slot)
  BY IsASeq
<1>3. QED
  BY <1>1, <1>2, LenProperties

(* Four and five slots.                                                    *)
LEMMA FourSlots ==
  ASSUME NEW a \in Slot, NEW b \in Slot, NEW c \in Slot, NEW d \in Slot
  PROVE  <<a, b, c, d>> \in Seq(Slot) /\ Len(<<a, b, c, d>>) = 4
  OBVIOUS

LEMMA FiveSlots ==
  ASSUME NEW a \in Slot, NEW b \in Slot, NEW c \in Slot, NEW d \in Slot, NEW e \in Slot
  PROVE  <<a, b, c, d, e>> \in Seq(Slot) /\ Len(<<a, b, c, d, e>>) = 5
  OBVIOUS

(* The names of slots.                                                     *)
LEMMA SlotNames ==
  /\ "package" \in Slot /\ "loaded" \in Slot /\ "module" \in Slot /\ "name" \in Slot
  /\ "table" \in Slot /\ "closure" \in Slot /\ "G" \in Slot /\ "error" \in Slot
  /\ "result" \in Slot /\ "arg" \in Slot /\ "param" \in Slot /\ "chunk" \in Slot
  /\ "loop" \in Slot /\ \A func \in Handlers : func \in Slot
  BY DEF Slot

(* CreateModule and AddModuleFunction leave the stack as it was.           *)
LEMMA RegisterBalanced ==
  ASSUME NEW s \in Seq(Slot)
  PROVE  CreateModule(s) = s /\ AddModuleFunction(s) = s
<1>1. CreateModule(s) = s
  <2> DEFINE v == <<"package", "loaded", "name", "table">>
  <2>1. v \in Seq(Slot) /\ Len(v) = 4
    BY SlotNames, FourSlots
  <2> HIDE DEF v
  <2>2. Grown(s, s \o v, 0 + Len(v))
    BY <2>1, GrownZero, GrownConcat
  <2>3. Grown(s, Pop(s \o v, 2), 4 - 2)
    BY <2>1, <2>2, GrownPop
  <2>4. Grown(s, Pop(Pop(s \o v, 2), 2), 2 - 2)
    BY <2>3, GrownPop
  <2>5. QED
    BY <2>4, GrownSame DEF CreateModule, v
<1>2. AddModuleFunction(s) = s
  <2> DEFINE v == <<"package", "loaded", "module", "name", "closure">>
  <2>1. v \in Seq(Slot) /\ Len(v) = 5
    BY SlotNames, FiveSlots
  <2> HIDE DEF v
  <2>2. Grown(s, s \o v, 0 + Len(v))
    BY <2>1, GrownZero, GrownConcat
  <2>3. Grown(s, Pop(s \o v, 2), 5 - 2)
    BY <2>1, <2>2, GrownPop
  <2>4. Grown(s, Pop(Pop(s \o v, 2), 3), 3 - 3)
    BY <2>3, GrownPop
  <2>5. QED
    BY <2>4, GrownSame DEF AddModuleFunction, v
<1>3. QED
  BY <1>1, <1>2

-----------------------------------------------------------------------------
(* The stack u has grown over call a's entry, by what it keeps if it is an *)
(* engine call.                                                            *)
Fits(a, u) ==
  \E k \in Nat : Grown(a.entry, u, k) /\ (a.via # "Callback" => k = Kept(a))

(* The inductive invariant: the outermost call began with an empty stack.  *)
Layout ==
  /\ stack \in Seq(Slot) /\ acts \in Seq(Acts)
  /\ acts = <<>> => stack = <<>>
  /\ acts # <<>> => acts[1].entry = <<>>
  /\ \A i \in 1 .. Len(acts) : Fits(acts[i], Above(i))

(* The invariant implies the property.                                     *)
LEMMA LayoutBalanced == Layout => StackBalanced
<1> SUFFICES ASSUME Layout PROVE StackBalanced
  OBVIOUS
<1>1. DOMAIN acts = 1 .. Len(acts)
  BY LenProperties DEF Layout
<1>2. ASSUME NEW i \in 1 .. Len(acts)
      PROVE  /\ IsPrefix(acts[i].entry, Above(i))
             /\ acts[i].via # "Callback" => Len(Above(i)) = Len(acts[i].entry) + Kept(acts[i])
  <2> DEFINE s == acts[i].entry
             u == Above(i)
  <2>1. PICK k \in Nat : Grown(s, u, k) /\ (acts[i].via # "Callback" => k = Kept(acts[i]))
    BY DEF Layout, Fits
  <2> HIDE DEF s, u
  <2>2. /\ s \in Seq(Slot) /\ u \in Seq(Slot) /\ Len(u) = Len(s) + k
        /\ Len(s) \in Nat /\ Len(u) \in Nat /\ \A j \in 1 .. Len(s) : u[j] = s[j]
    BY <2>1, LenProperties DEF Grown
  <2>3. Len(s) \in 0 .. Len(s) /\ Len(s) \in 0 .. Len(u)
    BY <2>2
  <2> DEFINE p == SubSeq(s, 1, Len(s))
             q == SubSeq(u, 1, Len(s))
  <2>4. /\ p \in Seq(Slot) /\ Len(p) = Len(s) /\ \A j \in 1 .. Len(s) : p[j] = s[j]
        /\ q \in Seq(Slot) /\ Len(q) = Len(s) /\ \A j \in 1 .. Len(s) : q[j] = u[j]
    BY <2>2, <2>3, PrefixFacts
  <2> HIDE DEF p, q
  <2>5. p = q
    <3>1. Len(p) = Len(q) /\ \A j \in 1 .. Len(p) : p[j] = q[j]
      BY <2>2, <2>4
    <3>2. QED
      BY <2>4, <3>1, SeqEqual
  <2>6. IsPrefix(s, u)
    BY <2>2, <2>5 DEF IsPrefix, p, q
  <2>7. QED
    BY <2>1, <2>2, <2>6 DEF s, u
<1>3. QED
  BY <1>1, <1>2 DEF Layout, StackBalanced

(* A step that leaves the stack and the calls alone.                       *)
LEMMA SameLayout == ASSUME Layout, UNCHANGED <<stack, acts>> PROVE Layout'
  BY DEF Layout, Above

(* A call begins.                                                          *)
LEMMA BeginLayout ==
  ASSUME Layout, NEW a \in Acts, a.entry = stack, acts' = Append(acts, a),
         stack' \in Seq(Slot), Fits(a, stack')
  PROVE  Layout'
<1>1. acts \in Seq(Acts) /\ Len(acts) \in Nat
  BY LenProperties DEF Layout
<1>2. /\ acts' \in Seq(Acts) /\ acts' # <<>> /\ Len(acts') = Len(acts) + 1
      /\ \A i \in 1 .. Len(acts) : acts'[i] = acts[i]
      /\ acts'[Len(acts) + 1] = a
  BY <1>1, AppendProperties
<1>3. acts'[1].entry = <<>>
  <2>1. CASE acts = <<>>
    BY <1>1, <1>2, <2>1 DEF Layout
  <2>2. CASE acts # <<>>
    <3>1. 1 \in 1 .. Len(acts)
      BY <1>1, <2>2, EmptySeq
    <3>2. QED
      BY <1>2, <2>2, <3>1 DEF Layout
  <2>3. QED
    BY <2>1, <2>2
<1>4. ASSUME NEW i \in 1 .. Len(acts') PROVE Fits(acts'[i], Above(i)')
  <2>1. CASE i = Len(acts) + 1
    BY <1>1, <1>2, <2>1 DEF Above
  <2>2. CASE i = Len(acts)
    <3>1. Above(i) = stack /\ Above(i)' = stack /\ i \in 1 .. Len(acts)
      BY <1>1, <1>2, <2>2 DEF Above
    <3>2. QED
      BY <1>2, <3>1 DEF Layout
  <2>3. CASE i < Len(acts)
    <3>1. i \in 1 .. Len(acts) /\ i + 1 \in 1 .. Len(acts)
      BY <1>1, <2>3
    <3>2. Above(i)' = Above(i)
      BY <1>1, <1>2, <2>3, <3>1 DEF Above
    <3>3. QED
      BY <1>2, <3>1, <3>2 DEF Layout
  <2>4. QED
    BY <1>1, <1>2, <2>1, <2>2, <2>3
<1>5. QED
  BY <1>2, <1>3, <1>4 DEF Layout

(* A call ends and leaves the stack as it was.                             *)
LEMMA EndLayout ==
  ASSUME Layout, acts # <<>>, acts' = Front(acts), stack' = Last(acts).entry
  PROVE  Layout'
<1>1. acts \in Seq(Acts) /\ Len(acts) \in Nat /\ Len(acts) >= 1
  BY LenProperties, EmptySeq DEF Layout
<1>2. Len(acts) - 1 \in 0 .. Len(acts)
  BY <1>1
<1>3. /\ acts' \in Seq(Acts) /\ Len(acts') = Len(acts) - 1
      /\ \A i \in 1 .. Len(acts) - 1 : acts'[i] = acts[i]
  BY <1>1, <1>2, PrefixFacts DEF Front
<1>4. stack' = acts[Len(acts)].entry /\ stack' \in Seq(Slot)
  <2>1. Len(acts) \in 1 .. Len(acts)
    BY <1>1
  <2>2. acts[Len(acts)] \in Acts
    BY <1>1, <2>1, ElementOfSeq
  <2>3. QED
    BY <2>2 DEF Last, Acts
<1>5. ASSUME acts' = <<>> PROVE stack' = <<>>
  <2>1. Len(acts') = 0
    BY <1>5
  <2>2. Len(acts) = 1
    BY <1>1, <1>3, <2>1
  <2>3. QED
    BY <1>4, <2>2 DEF Layout
<1>6. ASSUME acts' # <<>> PROVE acts'[1].entry = <<>>
  <2>1. Len(acts') >= 1
    BY <1>3, <1>6, EmptySeq
  <2>2. QED
    BY <1>1, <1>3, <2>1 DEF Layout
<1>7. ASSUME NEW i \in 1 .. Len(acts') PROVE Fits(acts'[i], Above(i)')
  <2>1. i \in 1 .. Len(acts) /\ acts'[i] = acts[i] /\ i # Len(acts)
    BY <1>1, <1>3
  <2>2. Above(i)' = Above(i)
    BY <1>1, <1>3, <1>4, <2>1 DEF Above
  <2>3. QED
    BY <2>1, <2>2 DEF Layout
<1>8. QED
  BY <1>3, <1>4, <1>5, <1>6, <1>7 DEF Layout

(* lua_pcall begins, with its handler below the function.                  *)
LEMMA ExecuteLayout ==
  ASSUME Layout, NEW via \in {"Call", "String", "Global"}, NEW argc \in Nat, NEW s,
         Grown(stack, s, (IF via = "Call" THEN 3 ELSE 0) + (argc + 1)),
         Execute(via, s, argc)
  PROVE  Layout'
<1> DEFINE base == IF via = "Call" THEN 3 ELSE 0
           tb == IF trackback THEN -(argc + 1) - 1 ELSE 0
           a == [via |-> via, traceback |-> tb, entry |-> stack]
           top == IF trackback THEN 1 ELSE 0
           ready == IF trackback THEN InsertAt(s, Len(s) + 1 + (-(argc + 1)), "G") ELSE s
<1>1. /\ stack \in Seq(Slot) /\ Len(stack) \in Nat /\ s \in Seq(Slot) /\ Len(s) \in Nat
      /\ Len(s) = Len(stack) + (base + (argc + 1)) /\ base \in Nat
      /\ base + (argc + 1) \in Nat /\ Grown(stack, s, base + (argc + 1))
  BY LenProperties DEF Grown
<1>2. acts' = Append(acts, a) /\ stack' = Pop(ready, argc + 1)
  BY DEF Execute
<1>3. a \in Acts /\ a.entry = stack /\ a.via # "Callback" /\ Kept(a) = base + top /\ top \in Nat
  BY <1>1 DEF Acts, Kept
<1> HIDE DEF a
<1>4. Grown(stack, ready, base + (argc + 1) + top) /\ base + (argc + 1) + top \in Nat
  <2>1. CASE trackback
    <3>1. Len(s) + 1 + (-(argc + 1)) \in Len(stack) + 1 .. Len(s) + 1
      BY <1>1
    <3>2. Grown(stack, InsertAt(s, Len(s) + 1 + (-(argc + 1)), "G"), base + (argc + 1) + 1)
      BY <1>1, <3>1, GrownInsert, SlotNames
    <3>3. QED
      BY <1>1, <2>1, <3>2
  <2>2. CASE ~trackback
    BY <1>1, <2>2
  <2>3. QED
    BY <2>1, <2>2
<1> HIDE DEF ready, base, top
<1>5. Grown(stack, stack', base + top) /\ base + top \in Nat
  <2>1. PICK k \in Nat : k = base + (argc + 1) + top
    BY <1>4
  <2>2. PICK n \in Nat : n = argc + 1
    OBVIOUS
  <2>3. n \in 0 .. k /\ k - n = base + top /\ base + top \in Nat
    BY <1>1, <1>3, <2>1, <2>2
  <2>4. Grown(stack, Pop(ready, n), k - n)
    BY <1>4, <2>1, <2>3, GrownPop
  <2>5. QED
    BY <1>2, <2>2, <2>3, <2>4
<1>6. Fits(a, stack') /\ stack' \in Seq(Slot)
  BY <1>3, <1>5 DEF Fits, Grown
<1>7. QED
  BY <1>2, <1>3, <1>6, BeginLayout

(* Call pushes the path to the function and its arguments.                 *)
LEMMA CallLayout ==
  ASSUME Layout, NEW func \in Handlers, Call(func)
  PROVE  Layout'
<1>1. CASE PrepareCall(func)
  <2> DEFINE path == <<"package", "loaded", "module", func>>
             args == Slots("arg", Argc(func))
  <2>1. path \in Seq(Slot) /\ Len(path) = 4
    BY SlotNames, FourSlots
  <2>2. Argc(func) \in Nat
    BY DEF Argc
  <2>3. args \in Seq(Slot) /\ Len(args) = Argc(func)
    BY <2>2, SlotNames, SlotsFacts
  <2> HIDE DEF path, args
  <2>4. Grown(stack, stack \o path, 0 + Len(path))
    BY <2>1, GrownZero, GrownConcat DEF Layout
  <2>5. Grown(stack, stack \o path, 4)
    BY <2>1, <2>4
  <2>6. Grown(stack, (stack \o path) \o args, 4 + Len(args))
    BY <2>3, <2>5, GrownConcat
  <2>7. 4 + Len(args) = 3 + (Argc(func) + 1)
    BY <2>2, <2>3
  <2>8. Execute("Call", stack \o path \o args, Argc(func))
    BY <1>1 DEF Call, path, args
  <2>9. QED
    BY <2>2, <2>6, <2>7, <2>8, ExecuteLayout
<1>2. CASE ~PrepareCall(func)
  BY <1>2, SameLayout DEF Call
<1>3. QED
  BY <1>1, <1>2

(* ExecuteString and ExecuteGlobalFunction push one function.              *)
LEMMA PlainLayout ==
  ASSUME Layout, NEW via \in {"String", "Global"}, NEW f \in Slot,
         Execute(via, Append(stack, f), 0)
  PROVE  Layout'
<1>1. Grown(stack, Append(stack, f), 0 + 1)
  BY GrownZero, GrownAppend DEF Layout
<1>2. (IF via = "Call" THEN 3 ELSE 0) + (0 + 1) = 0 + 1
  OBVIOUS
<1>3. QED
  BY <1>1, <1>2, ExecuteLayout

(* The stack when a script's call is the innermost.                        *)
LEMMA ScriptStack ==
  ASSUME Layout, Script
  PROVE  /\ acts # <<>> /\ Kept(Last(acts)) \in Nat
         /\ Grown(Last(acts).entry, stack, Kept(Last(acts)))
<1>1. acts \in Seq(Acts) /\ acts # <<>> /\ Len(acts) \in Nat /\ Len(acts) >= 1
  <2>1. acts \in Seq(Acts) /\ acts # <<>>
    BY DEF Layout, Script
  <2>2. QED
    BY <2>1, LenProperties, EmptySeq
<1>2. Last(acts) = acts[Len(acts)] /\ Last(acts).via # "Callback"
  BY DEF Last, Script
<1>3. Above(Len(acts)) = stack
  BY DEF Above
<1>4. Fits(Last(acts), stack)
  BY <1>1, <1>2, <1>3 DEF Layout
<1>5. Kept(Last(acts)) \in Nat
  BY DEF Kept
<1>6. QED
  BY <1>1, <1>2, <1>4, <1>5 DEF Fits

(* Call removes what it left below the function.                           *)
LEMMA FinishLayout ==
  ASSUME Layout, acts # <<>>, NEW s,
         Grown(Last(acts).entry, s, IF Last(acts).via = "Call" THEN 3 ELSE 0),
         stack' = Finish(Last(acts), s), acts' = Front(acts)
  PROVE  Layout'
<1>1. CASE Last(acts).via = "Call"
  <2>1. Grown(Last(acts).entry, Pop(s, 3), 3 - 3)
    BY <1>1, GrownPop
  <2>2. stack' = Last(acts).entry
    BY <1>1, <2>1, GrownSame DEF Finish
  <2>3. QED
    BY <2>2, EndLayout
<1>2. CASE Last(acts).via # "Call"
  <2>1. stack' = Last(acts).entry
    BY <1>2, GrownSame DEF Finish
  <2>2. QED
    BY <2>1, EndLayout
<1>3. QED
  BY <1>1, <1>2

(* The script returns.                                                     *)
LEMMA ReturnLayout == ASSUME Layout, Return PROVE Layout'
<1> DEFINE a == Last(acts)
           base == IF a.via = "Call" THEN 3 ELSE 0
           r == Slots("result", MAX_LUA_RESULT)
           read == Pop(stack \o r, MAX_LUA_RESULT)
<1>1. acts # <<>> /\ Kept(a) \in Nat /\ Grown(a.entry, stack, Kept(a))
  BY ScriptStack DEF Return
<1>2. MAX_LUA_RESULT \in Nat /\ r \in Seq(Slot) /\ Len(r) = MAX_LUA_RESULT
  BY EngineAssumption, SlotNames, SlotsFacts
<1>3. /\ stack' = Finish(a, IF a.traceback # 0 THEN Pop(read, 1) ELSE read)
      /\ acts' = Front(acts)
  BY DEF Return, Returned
<1>4. Kept(a) = base + (IF a.traceback # 0 THEN 1 ELSE 0) /\ base \in Nat
  BY DEF Kept
<1> HIDE DEF a, r
<1>5. Grown(a.entry, stack \o r, Kept(a) + Len(r))
  BY <1>1, <1>2, GrownConcat
<1>6. Grown(a.entry, stack \o r, Kept(a) + MAX_LUA_RESULT)
  BY <1>2, <1>5
<1>7. PICK k \in Nat : k = Kept(a) + MAX_LUA_RESULT
  BY <1>1, <1>2
<1>8. Grown(a.entry, read, Kept(a))
  <2>1. MAX_LUA_RESULT \in 0 .. k /\ k - MAX_LUA_RESULT = Kept(a)
    BY <1>1, <1>2, <1>7
  <2>2. Grown(a.entry, read, k - MAX_LUA_RESULT)
    BY <1>6, <1>7, <2>1, GrownPop
  <2>3. QED
    BY <2>1, <2>2
<1> HIDE DEF read
<1>9. Grown(a.entry, IF a.traceback # 0 THEN Pop(read, 1) ELSE read, base)
  <2>1. CASE a.traceback # 0
    <3>1. Kept(a) = base + 1 /\ 1 \in 0 .. Kept(a) /\ Kept(a) - 1 = base
      BY <1>4, <2>1
    <3>2. Grown(a.entry, Pop(read, 1), Kept(a) - 1)
      BY <1>1, <1>8, <3>1, GrownPop
    <3>3. QED
      BY <2>1, <3>1, <3>2
  <2>2. CASE a.traceback = 0
    BY <1>4, <1>8, <2>2
  <2>3. QED
    BY <2>1, <2>2
<1>10. QED
  BY <1>1, <1>3, <1>9, FinishLayout DEF a

(* The script raises an error.                                             *)
LEMMA ErrorLayout == ASSUME Layout, Error PROVE Layout'
<1> DEFINE a == Last(acts)
           base == IF a.via = "Call" THEN 3 ELSE 0
           raised == Append(stack, "error")
<1>1. acts # <<>> /\ Kept(a) \in Nat /\ Grown(a.entry, stack, Kept(a))
  BY ScriptStack DEF Error
<1>2. /\ stack' = Finish(a, IF a.traceback = 0 THEN Pop(raised, 1) ELSE Pop(raised, 2))
      /\ acts' = Front(acts)
  BY DEF Error, Failed
<1>3. Kept(a) = base + (IF a.traceback # 0 THEN 1 ELSE 0) /\ base \in Nat
  BY DEF Kept
<1> HIDE DEF a
<1>4. PICK k \in Nat : k = Kept(a) + 1 /\ Grown(a.entry, raised, k)
  BY <1>1, SlotNames, GrownAppend
<1> HIDE DEF raised, base
<1>5. Grown(a.entry, IF a.traceback = 0 THEN Pop(raised, 1) ELSE Pop(raised, 2), base)
  <2>1. CASE a.traceback = 0
    <3>1. k - 1 = base /\ 1 \in 0 .. k
      BY <1>3, <1>4, <2>1
    <3>2. Grown(a.entry, Pop(raised, 1), k - 1)
      BY <1>4, <3>1, GrownPop
    <3>3. QED
      BY <2>1, <3>1, <3>2
  <2>2. CASE a.traceback # 0
    <3>1. k - 2 = base /\ 2 \in 0 .. k
      BY <1>3, <1>4, <2>2
    <3>2. Grown(a.entry, Pop(raised, 2), k - 2)
      BY <1>4, <3>1, GrownPop
    <3>3. QED
      BY <2>2, <3>1, <3>2
  <2>3. QED
    BY <2>1, <2>2
<1>6. QED
  BY <1>1, <1>2, <1>5, FinishLayout DEF a, base

(* A native function begins.                                               *)
LEMMA CallbackLayout ==
  ASSUME Layout, NEW native, NEW onMain, Callback(native, onMain)
  PROVE  Layout'
<1> DEFINE n == IF ~onMain THEN 0 ELSE IF native = "typeCall" THEN 2 ELSE 3
           a == [via |-> "Callback", traceback |-> 0, entry |-> stack]
<1>1. n \in Nat /\ stack \in Seq(Slot)
  BY DEF Layout
<1>2. Slots("param", n) \in Seq(Slot) /\ Len(Slots("param", n)) = n
  BY <1>1, SlotNames, SlotsFacts
<1>3. stack' = stack \o Slots("param", n) /\ acts' = Append(acts, a)
  BY DEF Callback
<1>4. a \in Acts /\ a.entry = stack /\ a.via = "Callback"
  BY <1>1 DEF Acts
<1> HIDE DEF a, n
<1>5. Grown(stack, stack', 0 + Len(Slots("param", n))) /\ 0 + Len(Slots("param", n)) \in Nat
  BY <1>1, <1>2, <1>3, GrownZero, GrownConcat
<1>6. Fits(a, stack') /\ stack' \in Seq(Slot)
  BY <1>4, <1>5 DEF Fits, Grown
<1>7. QED
  BY <1>3, <1>4, <1>6, BeginLayout

(* A native function returns.                                              *)
LEMMA CallbackReturnLayout == ASSUME Layout, CallbackReturn PROVE Layout'
<1> DEFINE s == Last(acts).entry
<1>1. acts \in Seq(Acts) /\ acts # <<>> /\ Len(acts) \in Nat /\ Len(acts) >= 1
  <2>1. acts \in Seq(Acts) /\ acts # <<>>
    BY DEF Layout, CallbackReturn, Native
  <2>2. QED
    BY <2>1, LenProperties, EmptySeq
<1>2. PICK k \in Nat : Grown(s, stack, k)
  BY <1>1 DEF Layout, Fits, Above, Last
<1> HIDE DEF s
<1>3. /\ s \in Seq(Slot) /\ stack \in Seq(Slot) /\ Len(stack) = Len(s) + k /\ Len(s) \in Nat
      /\ Len(stack) - k = Len(s) /\ k \in 0 .. k
  BY <1>2, LenProperties DEF Grown
<1>4. Grown(s, Pop(stack, k), k - k) /\ k - k = 0
  BY <1>2, <1>3, GrownPop
<1>5. SubSeq(stack, 1, Len(s)) = s
  BY <1>3, <1>4, GrownSame DEF Pop
<1>6. QED
  BY <1>1, <1>5, EndLayout DEF CallbackReturn, s

(* Every step keeps the layout of the stack.                               *)
LEMMA NextLayout == Layout /\ [Next]_vars => Layout'
<1> SUFFICES ASSUME Layout, [Next]_vars PROVE Layout'
  OBVIOUS
<1>1. ASSUME Initialize \/ LaunchHarbor \/ LaunchMaster \/ LaunchCluster PROVE Layout'
  BY <1>1, SameLayout
     DEF Initialize, LaunchHarbor, LaunchMaster, LaunchCluster, engineVars
<1>2. ASSUME LaunchRpc PROVE Layout'
  <2>1. stack \in Seq(Slot)
    BY DEF Layout
  <2>2. AddModuleFunction(AddModuleFunction(AddModuleFunction(
          AddModuleFunction(CreateModule(stack))))) = stack
    BY <2>1, RegisterBalanced
  <2>3. UNCHANGED <<stack, acts>>
    BY <1>2, <2>2 DEF LaunchRpc
  <2>4. QED
    BY <2>3, SameLayout
<1>3. ASSUME LaunchScriptEngine PROVE Layout'
  BY <1>3, SlotNames, PlainLayout DEF LaunchScriptEngine, ExecuteScriptFile
<1>4. ASSUME NEW func \in {"onOpen", "onClose"}, NodeEvent(func) PROVE Layout'
  BY <1>4, CallLayout DEF NodeEvent, Handlers
<1>5. ASSUME NEW func \in {"onCall", "onCallNoRet", "onRespone"}, NodeMessage(func) PROVE Layout'
  BY <1>5, CallLayout DEF NodeMessage, Handlers
<1>6. ASSUME EndNet PROVE Layout'
  BY <1>6, SameLayout DEF EndNet, engineVars
<1>7. ASSUME Loop PROVE Layout'
  <2>1. CASE UNCHANGED <<stack, acts>>
    BY <2>1, SameLayout
  <2>2. CASE Execute("Global", Append(stack, "loop"), 0)
    BY <2>2, SlotNames, PlainLayout
  <2>3. QED
    BY <1>7, <2>1, <2>2 DEF Loop, ExecuteGlobalFunction, engineVars
<1>8. ASSUME NEW args \in Args, ScriptSerialize(args) PROVE Layout'
  BY <1>8, SameLayout DEF ScriptSerialize
<1>9. ASSUME NEW native \in Natives, NEW onMain \in BOOLEAN, ScriptSend(native, onMain)
      PROVE  Layout'
  BY <1>9, CallbackLayout DEF ScriptSend
<1>10. ASSUME SendCloses PROVE Layout'
  BY <1>10, CallLayout DEF SendCloses, Handlers
<1>11. ASSUME SendReturns PROVE Layout'
  BY <1>11, CallbackReturnLayout DEF SendReturns
<1>12. ASSUME ScriptError PROVE Layout'
  BY <1>12, ErrorLayout DEF ScriptError
<1>13. ASSUME ScriptStep PROVE Layout'
  <2>1. CASE Return
    BY <2>1, ReturnLayout
  <2>2. CASE RequireHarbor \/ SetTrackback
    BY <2>2, SameLayout DEF RequireHarbor, SetTrackback
  <2>3. QED
    BY <1>13, <2>1, <2>2 DEF ScriptStep
<1>14. CASE UNCHANGED vars
  BY <1>14, SameLayout DEF vars, engineVars
<1>15. QED
  BY <1>1, <1>2, <1>3, <1>4, <1>5, <1>6, <1>7, <1>8, <1>9, <1>10, <1>11, <1>12, <1>13, <1>14
     DEF Next

(* Call and ExecuteFunction leave the Lua stack as they found it, for any  *)
(* depth of nested calls, any number of results and any scripts.           *)
THEOREM EngineBalanced == Spec => []StackBalanced
<1>1. Init => Layout
  <2> SUFFICES ASSUME Init PROVE Layout
    OBVIOUS
  <2>1. stack = <<>> /\ acts = <<>>
    BY DEF Init, EngineInit
  <2>2. <<>> \in Seq(Slot) /\ <<>> \in Seq(Acts) /\ Len(<<>>) = 0
    BY EmptySeq
  <2>3. QED
    BY <2>1, <2>2 DEF Layout
<1>2. QED
  BY <1>1, NextLayout, LayoutBalanced, PTL DEF Spec

-----------------------------------------------------------------------------
(* The modules that the loop over _modules has come past.                  *)
Done == {order[i] : i \in 1 .. at - 1}

(* What the modules in M have done in Launched.                            *)
LaunchedBy(M) ==
  /\ Range(listeners) = (Modules \intersect {"Rpc"}) \union (M \intersect {"Master"})
  /\ "Cluster" \in M => "NEW_NODE" \in handlers
  /\ "Master" \in Modules /\ "Harbor" \in M => listening

(* The inductive invariant: how far the start has come.                    *)
Started ==
  /\ order \in Seq(ModuleNames)
  /\ "Harbor" \in Modules /\ ("Rpc" \in Modules => "ScriptEngine" \in Modules)
  /\ at \in 1 .. Len(order)
  /\ phase \in {"Initialize", "Launched", "Net", "Logic"}
  /\ aborted # "start"
  /\ listeners \in Seq({"Rpc", "Master"})
  /\ phase = "Initialize" =>
       initialized = Done /\ Range(listeners) = Done \intersect {"Rpc"}
  /\ phase # "Initialize" => initialized = Modules
  /\ phase = "Launched" => LaunchedBy(Done)
  /\ phase \in {"Net", "Logic"} => LaunchedBy(Modules)

(* Every order of a configuration's modules has all of them.               *)
LEMMA OrderFacts ==
  ASSUME NEW c \in Configs, NEW s \in SetToSeqs(c)
  PROVE  s \in Seq(ModuleNames) /\ Len(s) \in Nat \ {0} /\ Range(s) = c
<1> DEFINE n == Cardinality(c)
<1>1. IsFiniteSet(c) /\ c \subseteq ModuleNames
  <2>1. IsFiniteSet(ModuleNames)
    <3>1. IsFiniteSet({} \union {"Harbor"})
      BY FS_EmptySet, FS_AddElement
    <3>2. IsFiniteSet(({} \union {"Harbor"}) \union {"Master"})
      BY <3>1, FS_AddElement
    <3>3. IsFiniteSet({"Harbor", "Master"} \union {"Cluster"})
      <4>1. ({} \union {"Harbor"}) \union {"Master"} = {"Harbor", "Master"}
        OBVIOUS
      <4>2. QED
        BY <3>2, <4>1, FS_AddElement
    <3>4. IsFiniteSet(({"Harbor", "Master"} \union {"Cluster"}) \union {"ScriptEngine"})
      BY <3>3, FS_AddElement
    <3>5. IsFiniteSet((({"Harbor", "Master"} \union {"Cluster"}) \union {"ScriptEngine"})
                        \union {"Rpc"})
      BY <3>4, FS_AddElement
    <3>6. (({"Harbor", "Master"} \union {"Cluster"}) \union {"ScriptEngine"}) \union {"Rpc"}
            = ModuleNames
      BY DEF ModuleNames
    <3>7. QED
      BY <3>5, <3>6
  <2>2. c \in SUBSET ModuleNames
    BY ProcessAssumption
  <2>3. QED
    BY <2>1, <2>2, FS_Subset
<1>2. n \in Nat
  BY <1>1, FS_CardinalityType
<1>3. s \in [1 .. n -> c] /\ \A i, j \in 1 .. n : i # j => s[i] # s[j]
  BY DEF SetToSeqs
<1>4. s \in Injection(1 .. n, c)
  BY <1>3 DEF Injection, IsInjective
<1>5. Cardinality(1 .. n) = Cardinality(c)
  BY <1>2, FS_Interval
<1>6. s \in Surjection(1 .. n, c)
  BY <1>1, <1>4, <1>5, FS_Injection
<1>7. \A t \in c : \E i \in 1 .. n : s[i] = t
  BY <1>6 DEF Surjection
<1>8. Range(s) = c
  BY <1>3, <1>7 DEF Range
<1>9. s \in Seq(ModuleNames) /\ Len(s) = n
  BY <1>1, <1>2, <1>3, IsASeq, LenProperties
<1>10. n # 0
  BY <1>2, <1>7, ConfigAssumption
<1>11. QED
  BY <1>2, <1>8, <1>9, <1>10

(* The initial states.                                                     *)
LEMMA InitStarted == Init => Started
<1> SUFFICES ASSUME Init PROVE Started
  OBVIOUS
<1>1. PICK c \in Configs : order \in SetToSeqs(c)
  BY DEF Init
<1>2. order \in Seq(ModuleNames) /\ Len(order) \in Nat \ {0} /\ Modules = c
  BY <1>1, OrderFacts DEF Modules
<1>3. at = 1 /\ Done = {} /\ at \in 1 .. Len(order)
  BY <1>2 DEF Init, Done
<1>4. Range(<<>>) = {} /\ <<>> \in Seq({"Rpc", "Master"})
  BY EmptySeq DEF Range
<1>5. QED
  BY <1>2, <1>3, <1>4, ConfigAssumption DEF Init, EngineInit, Started

(* One turn of a loop over _modules.                                       *)
LEMMA AdvanceFacts ==
  ASSUME Started, Advance, order' = order
  PROVE  /\ at' \in 1 .. Len(order) /\ Module \in Modules
         /\ \/ at < Len(order) /\ phase' = phase /\ Done' = Done \union {Module}
            \/ /\ at = Len(order) /\ Done' = {} /\ Done \union {Module} = Modules
               /\ phase' = IF phase = "Initialize" THEN "Launched" ELSE "Net"
<1>1. /\ order \in Seq(ModuleNames) /\ Len(order) \in Nat /\ at \in 1 .. Len(order)
      /\ at' = (at % Len(order)) + 1
      /\ phase' = IF at < Len(order) THEN phase
                  ELSE IF phase = "Initialize" THEN "Launched" ELSE "Net"
  BY LenProperties DEF Started, Advance
<1>2. Modules = {order[i] : i \in 1 .. Len(order)}
  BY <1>1, RangeEquality DEF Modules
<1>3. CASE at < Len(order)
  <2>1. at % Len(order) = at
    BY <1>1, <1>3
  <2>2. at' = at + 1
    BY <1>1, <2>1
  <2>3. Done' = Done \union {Module}
    BY <1>1, <2>2 DEF Done, Module
  <2>4. QED
    BY <1>1, <1>2, <1>3, <2>2, <2>3 DEF Module
<1>4. CASE at = Len(order)
  <2>1. at % Len(order) = 0
    BY <1>1, <1>4
  <2>2. at' = 1
    BY <1>1, <2>1
  <2>3. Done' = {}
    BY <2>2 DEF Done
  <2>4. Done \union {Module} = Modules
    BY <1>1, <1>2, <1>4 DEF Done, Module
  <2>5. QED
    BY <1>1, <1>2, <1>4, <2>2, <2>3, <2>4 DEF Module
<1>5. QED
  BY <1>1, <1>3, <1>4

(* A listener registers.                                                   *)
LEMMA RangeAppend ==
  ASSUME NEW S, NEW s \in Seq(S), NEW e \in S
  PROVE  Append(s, e) \in Seq(S) /\ Range(Append(s, e)) = Range(s) \union {e}
<1>1. /\ Append(s, e) \in Seq(S) /\ Len(Append(s, e)) = Len(s) + 1 /\ Len(s) \in Nat
      /\ \A i \in 1 .. Len(s) : Append(s, e)[i] = s[i]
      /\ Append(s, e)[Len(s) + 1] = e
  BY AppendProperties, LenProperties
<1>2. /\ Range(s) = {s[i] : i \in 1 .. Len(s)}
      /\ Range(Append(s, e)) = {Append(s, e)[i] : i \in 1 .. Len(s) + 1}
  BY <1>1, RangeEquality
<1>3. QED
  BY <1>1, <1>2

(* A step after the start, or inside a script.                             *)
LEMMA LaterStarted ==
  ASSUME Started, UNCHANGED startVars, aborted' # "start",
         \/ UNCHANGED <<phase, at>>
         \/ /\ phase \in {"Net", "Logic"} /\ phase' \in {"Net", "Logic"}
            /\ at' \in 1 .. Len(order)
  PROVE  Started'
<1>1. /\ order' = order /\ initialized' = initialized /\ listeners' = listeners
      /\ handlers' = handlers /\ listening' = listening
  BY DEF startVars
<1>2. Modules' = Modules /\ (LaunchedBy(Modules) => LaunchedBy(Modules)')
  BY <1>1 DEF Modules, LaunchedBy
<1>3. CASE UNCHANGED <<phase, at>>
  <2>1. Done' = Done /\ (LaunchedBy(Done) => LaunchedBy(Done)')
    BY <1>1, <1>2, <1>3 DEF Done, LaunchedBy
  <2>2. QED
    BY <1>1, <1>2, <1>3, <2>1 DEF Started
<1>4. CASE phase \in {"Net", "Logic"} /\ phase' \in {"Net", "Logic"} /\ at' \in 1 .. Len(order)
  BY <1>1, <1>2, <1>4 DEF Started
<1>5. QED
  BY <1>3, <1>4

(* A module is initialised.                                                *)
LEMMA InitializeStarted == ASSUME Started, Initialize PROVE Started'
<1>1. /\ phase = "Initialize" /\ order' = order /\ Modules' = Modules
      /\ initialized = Done /\ Range(listeners) = Done \intersect {"Rpc"}
      /\ initialized' = Done \union {Module} /\ aborted' = aborted
      /\ listeners \in Seq({"Rpc", "Master"})
      /\ listeners' = IF Module = "Rpc" THEN Append(listeners, "Rpc") ELSE listeners
  BY DEF Initialize, Started, Modules, engineVars
<1>2. /\ at' \in 1 .. Len(order) /\ Module \in Modules
      /\ \/ at < Len(order) /\ phase' = phase /\ Done' = Done \union {Module}
         \/ /\ at = Len(order) /\ Done' = {} /\ Done \union {Module} = Modules
            /\ phase' = IF phase = "Initialize" THEN "Launched" ELSE "Net"
  BY <1>1, AdvanceFacts DEF Initialize
<1>3. /\ listeners' \in Seq({"Rpc", "Master"})
      /\ Range(listeners') = (Done \union {Module}) \intersect {"Rpc"}
  <2>1. CASE Module = "Rpc"
    <3>1. listeners' \in Seq({"Rpc", "Master"}) /\ Range(listeners') = Range(listeners) \union {"Rpc"}
      BY <1>1, <2>1, RangeAppend
    <3>2. QED
      BY <1>1, <2>1, <3>1
  <2>2. CASE Module # "Rpc"
    BY <1>1, <2>2
  <2>3. QED
    BY <2>1, <2>2
<1>4. CASE phase' = phase /\ Done' = Done \union {Module}
  BY <1>1, <1>2, <1>3, <1>4 DEF Started
<1>5. CASE /\ Done' = {} /\ Done \union {Module} = Modules /\ phase' = "Launched"
  <2>1. LaunchedBy(Done)'
    BY <1>1, <1>3, <1>5 DEF LaunchedBy
  <2>2. QED
    BY <1>1, <1>2, <1>3, <1>5, <2>1 DEF Started
<1>6. QED
  BY <1>1, <1>2, <1>4, <1>5

(* A module is launched: what it leaves to the next.                       *)
LEMMA LaunchStarted ==
  ASSUME Started, NEW m, Launch(m), aborted' # "start",
         listeners' \in Seq({"Rpc", "Master"}),
         Range(listeners') = Range(listeners) \union ({m} \intersect {"Master"}),
         handlers \subseteq handlers', m = "Cluster" => "NEW_NODE" \in handlers',
         m = "Harbor" => ("Master" \in Modules => listening'),
         m # "Harbor" => listening' = listening
  PROVE  Started'
<1>1. /\ phase = "Launched" /\ order' = order /\ Modules' = Modules /\ Module = m
      /\ initialized' = Modules /\ LaunchedBy(Done)
  BY DEF Launch, Started, Modules
<1>2. /\ at' \in 1 .. Len(order)
      /\ \/ at < Len(order) /\ phase' = phase /\ Done' = Done \union {m}
         \/ /\ at = Len(order) /\ Done' = {} /\ Done \union {m} = Modules
            /\ phase' = IF phase = "Initialize" THEN "Launched" ELSE "Net"
  BY <1>1, AdvanceFacts DEF Launch
<1>3. /\ Range(listeners') =
           (Modules \intersect {"Rpc"}) \union ((Done \union {m}) \intersect {"Master"})
      /\ "Cluster" \in Done \union {m} => "NEW_NODE" \in handlers'
      /\ "Master" \in Modules /\ "Harbor" \in Done \union {m} => listening'
  BY <1>1 DEF LaunchedBy
<1>4. CASE phase' = phase /\ Done' = Done \union {m}
  <2>1. LaunchedBy(Done)'
    BY <1>1, <1>3, <1>4 DEF LaunchedBy
  <2>2. QED
    BY <1>1, <1>2, <1>4, <2>1 DEF Started
<1>5. CASE Done \union {m} = Modules /\ phase' = "Net"
  <2>1. LaunchedBy(Modules)'
    BY <1>1, <1>3, <1>5 DEF LaunchedBy
  <2>2. QED
    BY <1>1, <1>2, <1>5, <2>1 DEF Started
<1>6. QED
  BY <1>1, <1>2, <1>4, <1>5

(* Every step keeps to the order of the start.                             *)
LEMMA NextStarted == Started /\ [Next]_vars => Started'
<1> SUFFICES ASSUME Started, [Next]_vars PROVE Started'
  OBVIOUS
<1>0. /\ aborted # "start" /\ listeners \in Seq({"Rpc", "Master"})
      /\ phase # "Initialize" => initialized = Modules
      /\ "Harbor" \in Modules /\ ("Rpc" \in Modules => "ScriptEngine" \in Modules)
  BY DEF Started
<1>1. CASE Initialize
  BY <1>1, InitializeStarted
<1>2. CASE LaunchHarbor
  <2>1. /\ Launch("Harbor") /\ phase # "Initialize" /\ UNCHANGED <<aborted, listeners, handlers>>
        /\ listening' = IF "Master" \in Modules THEN "Master" \in initialized ELSE PortArg
    BY <1>2 DEF LaunchHarbor, Launch, engineVars
  <2>2. QED
    BY <1>0, <2>1, LaunchStarted
<1>3. CASE LaunchMaster
  <2>1. /\ Launch("Master") /\ UNCHANGED <<aborted, handlers, listening>>
        /\ listeners' = Append(listeners, "Master")
    BY <1>3 DEF LaunchMaster, engineVars
  <2>2. /\ listeners' \in Seq({"Rpc", "Master"})
        /\ Range(listeners') = Range(listeners) \union {"Master"}
    BY <1>0, <2>1, RangeAppend
  <2>3. QED
    BY <1>0, <2>1, <2>2, LaunchStarted
<1>4. CASE LaunchCluster
  <2>1. /\ Launch("Cluster") /\ phase # "Initialize" /\ UNCHANGED <<listeners, listening>>
        /\ aborted' = IF "Harbor" \in initialized THEN aborted ELSE "start"
        /\ handlers' = handlers \union {"NEW_NODE"}
    BY <1>4 DEF LaunchCluster, Launch
  <2>2. QED
    BY <1>0, <2>1, LaunchStarted
<1>5. CASE LaunchRpc
  <2>1. /\ Launch("Rpc") /\ phase # "Initialize" /\ UNCHANGED <<listeners, handlers, listening>>
        /\ "ScriptEngine" \in initialized => aborted' = aborted
    BY <1>5 DEF LaunchRpc, Launch
  <2>2. "Rpc" \in Modules
    BY <2>1, AdvanceFacts DEF Launch
  <2>3. QED
    BY <1>0, <2>1, <2>2, LaunchStarted
<1>6. CASE LaunchScriptEngine
  <2>1. /\ Launch("ScriptEngine") /\ UNCHANGED <<aborted, listeners, handlers, listening>>
    BY <1>6 DEF LaunchScriptEngine, ExecuteScriptFile
  <2>2. QED
    BY <1>0, <2>1, LaunchStarted
<1>7. ASSUME NEW func, NodeEvent(func) \/ NodeMessage(func) PROVE Started'
  <2>1. UNCHANGED <<startVars, phase, at>> /\ aborted' # "start"
    BY <1>0, <1>7 DEF NodeEvent, NodeMessage, Call
  <2>2. QED
    BY <2>1, LaterStarted
<1>8. CASE EndNet
  <2>1. /\ UNCHANGED startVars /\ at' = at /\ aborted' # "start"
        /\ phase = "Net" /\ phase' = "Logic" /\ at \in 1 .. Len(order)
    BY <1>0, <1>8 DEF EndNet, engineVars, Started
  <2>2. QED
    BY <2>1, LaterStarted
<1>9. CASE Loop
  <2>1. /\ UNCHANGED startVars /\ aborted' # "start" /\ Advance /\ phase = "Logic"
    BY <1>0, <1>9 DEF Loop, ExecuteGlobalFunction, engineVars
  <2>2. at' \in 1 .. Len(order) /\ phase' \in {"Net", "Logic"}
    BY <2>1, AdvanceFacts DEF startVars
  <2>3. QED
    BY <2>1, <2>2, LaterStarted
<1>10. ASSUME NEW args \in Args, ScriptSerialize(args) PROVE Started'
  <2>1. UNCHANGED mainVars /\ aborted' # "start"
    BY <1>0, <1>10 DEF ScriptSerialize
  <2>2. QED
    BY <2>1, LaterStarted DEF mainVars
<1>11. ASSUME NEW native, NEW onMain, ScriptSend(native, onMain) PROVE Started'
  BY <1>0, <1>11, LaterStarted DEF ScriptSend, Callback, mainVars
<1>12. CASE SendCloses \/ SendReturns
  <2>1. UNCHANGED mainVars /\ aborted' # "start"
    BY <1>0, <1>12 DEF SendCloses, Call, SendReturns, CallbackReturn
  <2>2. QED
    BY <2>1, LaterStarted DEF mainVars
<1>13. CASE ScriptError \/ ScriptStep
  <2>1. UNCHANGED mainVars /\ aborted' # "start"
    BY <1>0, <1>13 DEF ScriptError, Error, ScriptStep, RequireHarbor, SetTrackback, Return
  <2>2. QED
    BY <2>1, LaterStarted DEF mainVars
<1>14. CASE UNCHANGED vars
  BY <1>0, <1>14, LaterStarted DEF vars, engineVars
<1>15. QED
  BY <1>1, <1>2, <1>3, <1>4, <1>5, <1>6, <1>7, <1>8, <1>9, <1>10, <1>11, <1>12, <1>13, <1>14
     DEF Next

(* In whatever order the hash table gives the modules of a configuration,  *)
(* LogicMgr::Initialize leaves each with what it needs of the others, and  *)
(* no event is handled before all have registered.                         *)
THEOREM StartInAnyOrder == Spec => []StartSound
<1>1. Started => StartSound
  <2> SUFFICES ASSUME Started PROVE StartSound
    OBVIOUS
  <2>1. /\ aborted # "start" /\ "Harbor" \in Modules
        /\ phase \in {"Net", "Logic"} => initialized = Modules /\ LaunchedBy(Modules)
    BY DEF Started
  <2>2. QED
    BY <2>1 DEF StartSound, LaunchedBy
<1>2. QED
  BY <1>1, InitStarted, NextStarted, PTL DEF Spec
-----------------------------------------------------------------------------
(* The modules whose Launched has run.                                     *)
Past == IF phase = "Initialize" THEN {} ELSE IF phase = "Launched" THEN Done ELSE Modules

(* The script file entry runs.                                             *)
InEntry == acts # <<>> /\ acts[1].via = "String"

(* What the calls under way say of harbor.                                 *)
Calls ==
  \A i \in 1 .. Len(acts) :
    /\ acts[i].via = "String" =>
         /\ i = 1 /\ "ScriptEngine" \in Past
         /\ harbor # {} => Before("Rpc", "ScriptEngine")
    /\ acts[i].via = "Callback" => Handlers \subseteq harbor

(* The inductive invariant: what entry found when it ran decides what the  *)
(* table of Rpc holds ever after.                                          *)
Scripts ==
  /\ \A i, j \in 1 .. Len(order) : order[i] = order[j] => i = j
  /\ harbor # {} <=> "Rpc" \in Past
  /\ Handlers \subseteq harbor => Before("Rpc", "ScriptEngine")
  /\ handlers \intersect {"RPC", "RPCNR", "RESPONE"} # {} => "Rpc" \in Modules
  /\ Calls
  /\ "ScriptEngine" \in Past /\ ~InEntry /\ Before("Rpc", "ScriptEngine") =>
       Handlers \subseteq harbor
  /\ aborted = "call" => Before("ScriptEngine", "Rpc")

(* Who precedes whom.                                                      *)
LEMMA BeforeFacts ==
  ASSUME Started, \A i, j \in 1 .. Len(order) : order[i] = order[j] => i = j
  PROVE  /\ \A m \in Done : m \in Modules /\ Before(m, Module)
         /\ \A m : Before(m, Module) => m \in Done
         /\ \A m : \A n \in Done : Before(m, n) => m \in Done
         /\ \A m : \A n \in Modules : Before(m, n) => m \in Modules
         /\ \A m, n \in Modules : m = n \/ Before(m, n) \/ Before(n, m)
         /\ \A m, n : ~(Before(m, n) /\ Before(n, m))
<1>1. /\ order \in Seq(ModuleNames) /\ Len(order) \in Nat /\ at \in 1 .. Len(order)
      /\ DOMAIN order = 1 .. Len(order)
  BY LenProperties DEF Started
<1>2. Modules = {order[i] : i \in 1 .. Len(order)}
  BY <1>1, RangeEquality DEF Modules
<1>3. \A m \in Done : m \in Modules /\ Before(m, Module)
  BY <1>1, <1>2 DEF Done, Module, Before
<1>4. \A m : Before(m, Module) => m \in Done
  BY <1>1 DEF Done, Module, Before
<1>5. \A m : \A n \in Done : Before(m, n) => m \in Done
  BY <1>1 DEF Done, Before
<1>6. \A m : \A n \in Modules : Before(m, n) => m \in Modules
  BY <1>1, <1>2 DEF Before
<1>7. \A m, n \in Modules : m = n \/ Before(m, n) \/ Before(n, m)
  BY <1>1, <1>2 DEF Before
<1>8. \A m, n : ~(Before(m, n) /\ Before(n, m))
  BY <1>1 DEF Before
<1>9. QED
  BY <1>3, <1>4, <1>5, <1>6, <1>7, <1>8

(* A module is launched: it joins those whose Launched has run.            *)
LEMMA LaunchPast ==
  ASSUME Started, NEW m, Launch(m)
  PROVE  /\ Past = Done /\ Past' = Past \union {m} /\ Modules' = Modules
         /\ m \in Modules /\ m = Module /\ acts = <<>> /\ aborted = ""
         /\ \A x, y : Before(x, y)' <=> Before(x, y)
<1>1. /\ phase = "Launched" /\ order' = order /\ Modules' = Modules /\ Module = m /\ Advance
      /\ acts = <<>> /\ aborted = ""
  BY DEF Launch, Modules, Idle
<1>2. /\ Module \in Modules
      /\ \/ phase' = phase /\ Done' = Done \union {Module}
         \/ Done \union {Module} = Modules /\ phase' = "Net"
  BY <1>1, AdvanceFacts
<1>3. Past = Done /\ Past' = Past \union {m}
  BY <1>1, <1>2 DEF Past
<1>4. \A x, y : Before(x, y)' <=> Before(x, y)
  BY <1>1 DEF Before
<1>5. QED
  BY <1>1, <1>2, <1>3, <1>4

(* A step of the main loop leaves these alone.                             *)
LEMMA SamePast ==
  ASSUME Started, order' = order,
         \/ UNCHANGED <<phase, at>>
         \/ phase \in {"Net", "Logic"} /\ phase' \in {"Net", "Logic"}
  PROVE  /\ Past' = Past /\ Modules' = Modules
         /\ \A x, y : Before(x, y)' <=> Before(x, y)
<1>1. Modules' = Modules /\ (UNCHANGED at => Done' = Done)
  BY DEF Modules, Done
<1>2. \A x, y : Before(x, y)' <=> Before(x, y)
  BY DEF Before
<1>3. Past' = Past
  BY <1>1 DEF Past
<1>4. QED
  BY <1>1, <1>2, <1>3

(* An engine or native call begins.                                        *)
LEMMA PushCalls ==
  ASSUME acts \in Seq(Acts), NEW a \in Acts, acts' = Append(acts, a),
         a.via # "String", a.via = "Callback" => Handlers \subseteq harbor,
         UNCHANGED harbor, Past' = Past,
         \A x, y : Before(x, y)' <=> Before(x, y), Calls
  PROVE  Calls' /\ (~InEntry' => ~InEntry)
<1>1. /\ Len(acts) \in Nat /\ Len(acts') = Len(acts) + 1
      /\ \A i \in 1 .. Len(acts) : acts'[i] = acts[i]
      /\ acts'[Len(acts) + 1] = a
  BY AppendProperties, LenProperties
<1>2. acts # <<>> => Len(acts) >= 1 /\ acts' # <<>>
  BY <1>1, EmptySeq
<1>3. Calls'
  <2> SUFFICES ASSUME NEW i \in 1 .. Len(acts')
               PROVE  /\ acts'[i].via = "String" =>
                           /\ i = 1 /\ "ScriptEngine" \in Past'
                           /\ harbor' # {} => Before("Rpc", "ScriptEngine")'
                      /\ acts'[i].via = "Callback" => Handlers \subseteq harbor'
    BY DEF Calls
  <2>1. CASE i \in 1 .. Len(acts)
    BY <1>1, <2>1 DEF Calls
  <2>2. CASE i = Len(acts) + 1
    BY <1>1, <2>2
  <2>3. QED
    BY <1>1, <2>1, <2>2
<1>4. InEntry => InEntry'
  BY <1>1, <1>2 DEF InEntry
<1>5. QED
  BY <1>3, <1>4

(* The innermost call ends.                                                *)
LEMMA PopCalls ==
  ASSUME acts \in Seq(Acts), acts # <<>>, acts' = Front(acts),
         UNCHANGED harbor, Past' = Past,
         \A x, y : Before(x, y)' <=> Before(x, y), Calls
  PROVE  /\ Calls'
         /\ InEntry /\ ~InEntry' => Last(acts).via = "String"
<1>0. Len(acts) \in Nat /\ Len(acts) >= 1 /\ Len(acts) - 1 \in 0 .. Len(acts)
  BY LenProperties, EmptySeq
<1>1. /\ Len(acts) \in Nat /\ Len(acts) >= 1 /\ acts' \in Seq(Acts)
      /\ Len(acts') = Len(acts) - 1
      /\ \A i \in 1 .. Len(acts) - 1 : acts'[i] = acts[i]
  BY <1>0, PrefixFacts DEF Front
<1>2. Calls'
  BY <1>1 DEF Calls
<1>3. InEntry /\ ~InEntry' => Last(acts).via = "String"
  <2>1. CASE Len(acts) = 1
    BY <2>1 DEF InEntry, Last
  <2>2. CASE Len(acts) > 1
    <3>1. acts' # <<>>
      BY <1>1, <2>2, EmptySeq
    <3>2. QED
      BY <1>1, <2>2, <3>1 DEF InEntry
  <2>3. QED
    BY <1>1, <2>1, <2>2
<1>4. QED
  BY <1>2, <1>3

(* A step outside the start: a call begins or ends, or nothing of the kind. *)
LEMMA LaterScripts ==
  ASSUME Started, Scripts, acts \in Seq(Acts), UNCHANGED <<order, harbor, handlers>>,
         \/ UNCHANGED <<phase, at>>
         \/ phase \in {"Net", "Logic"} /\ phase' \in {"Net", "Logic"},
         aborted' = "call" => Before("ScriptEngine", "Rpc"),
         \/ acts' = acts
         \/ \E a \in Acts : /\ acts' = Append(acts, a) /\ a.via # "String"
                            /\ a.via = "Callback" => Handlers \subseteq harbor
         \/ /\ acts # <<>> /\ acts' = Front(acts)
            /\ Last(acts).via = "String" => Handlers \subseteq harbor \/ harbor = {}
  PROVE  Scripts'
<1>1. /\ Past' = Past /\ Modules' = Modules
      /\ \A x, y : Before(x, y)' <=> Before(x, y)
  BY SamePast
<1>2. /\ Calls /\ \A i, j \in 1 .. Len(order) : order[i] = order[j] => i = j
  BY DEF Scripts
<1>3. "ScriptEngine" \in Past /\ Before("Rpc", "ScriptEngine") => harbor # {}
  <2>1. \A m : \A n \in Done : Before(m, n) => m \in Done
    BY <1>2, BeforeFacts
  <2>2. \A m : \A n \in Modules : Before(m, n) => m \in Modules
    BY <1>2, BeforeFacts
  <2>3. "ScriptEngine" \in Past /\ Before("Rpc", "ScriptEngine") => "Rpc" \in Past
    BY <2>1, <2>2 DEF Past
  <2>4. QED
    BY <2>3 DEF Scripts
<1>4. /\ Calls'
      /\ InEntry /\ ~InEntry' => Handlers \subseteq harbor \/ harbor = {}
  <2>1. CASE acts' = acts
    BY <1>1, <1>2, <2>1 DEF Calls, InEntry
  <2>2. CASE \E a \in Acts : /\ acts' = Append(acts, a) /\ a.via # "String"
                             /\ a.via = "Callback" => Handlers \subseteq harbor
    BY <1>1, <1>2, <2>2, PushCalls
  <2>3. CASE /\ acts # <<>> /\ acts' = Front(acts)
             /\ Last(acts).via = "String" => Handlers \subseteq harbor \/ harbor = {}
    <3>1. Calls' /\ (InEntry /\ ~InEntry' => Last(acts).via = "String")
      BY <1>1, <1>2, <2>3, PopCalls
    <3>2. QED
      BY <2>3, <3>1
  <2>4. QED
    BY <2>1, <2>2, <2>3
<1>5. "ScriptEngine" \in Past /\ ~InEntry' /\ Before("Rpc", "ScriptEngine") =>
        Handlers \subseteq harbor
  BY <1>3, <1>4 DEF Scripts
<1>6. QED
  BY <1>1, <1>4, <1>5 DEF Scripts

(* The innermost call.                                                     *)
LEMMA Innermost ==
  ASSUME acts \in Seq(Acts), acts # <<>>
  PROVE  Len(acts) \in 1 .. Len(acts) /\ Last(acts) = acts[Len(acts)]
<1>1. Len(acts) \in Nat /\ Len(acts) # 0
  BY LenProperties, EmptySeq
<1>2. QED
  BY <1>1 DEF Last

(* ExecuteFunction adds a call under way.                                  *)
LEMMA ExecuteActs ==
  ASSUME Layout, NEW via \in {"Call", "String", "Global"}, NEW argc \in Nat, NEW s,
         Execute(via, s, argc)
  PROVE  \E a \in Acts : acts' = Append(acts, a) /\ a.via = via
<1> DEFINE tb == IF trackback THEN -(argc + 1) - 1 ELSE 0
           a == [via |-> via, traceback |-> tb, entry |-> stack]
<1>1. acts' = Append(acts, a)
  BY DEF Execute
<1>2. tb \in Int
  OBVIOUS
<1> HIDE DEF tb
<1>3. a \in Acts /\ a.via = via
  BY <1>2 DEF Acts, Layout
<1> HIDE DEF a
<1>4. QED
  BY <1>1, <1>3

(* Call from the main loop.                                                *)
LEMMA CallScripts ==
  ASSUME Started, Layout, Scripts, NEW func \in Handlers, Call(func), UNCHANGED mainVars,
         aborted = "", phase \in {"Net", "Logic"},
         \/ acts = <<>> /\ "Rpc" \in Modules
         \/ Native
  PROVE  Scripts'
<1>1. acts \in Seq(Acts) /\ stack \in Seq(Slot) /\ UNCHANGED <<order, handlers, phase, at>>
  BY DEF Layout, mainVars, startVars
<1>2. CASE PrepareCall(func)
  <2>1. UNCHANGED <<harbor, aborted>> /\ Argc(func) \in Nat
    BY <1>2 DEF Call, Argc
  <2>2. \E a \in Acts : acts' = Append(acts, a) /\ a.via = "Call"
    BY <1>2, <2>1, ExecuteActs DEF Call
  <2>3. QED
    BY <1>1, <2>1, <2>2, LaterScripts
<1>3. CASE ~PrepareCall(func)
  <2>1. aborted' = "call" /\ UNCHANGED <<acts, harbor>> /\ func \notin harbor
    BY <1>3 DEF Call, PrepareCall
  <2>2. ~Native
    <3> SUFFICES ASSUME Native PROVE FALSE
      OBVIOUS
    <3>1. acts # <<>> /\ Last(acts).via = "Callback"
      BY DEF Native
    <3>3. Len(acts) \in 1 .. Len(acts) /\ acts[Len(acts)].via = "Callback"
      BY <1>1, <3>1, Innermost
    <3>4. QED
      BY <2>1, <3>3 DEF Scripts, Calls
  <2>3. "Rpc" \in Modules /\ "ScriptEngine" \in Modules /\ Past = Modules /\ ~InEntry
    BY <2>2 DEF Started, Past, InEntry
  <2>4. ~Before("Rpc", "ScriptEngine")
    BY <2>1, <2>3 DEF Scripts
  <2>5. \A m, n \in Modules : m = n \/ Before(m, n) \/ Before(n, m)
    BY BeforeFacts DEF Scripts
  <2>6. Before("ScriptEngine", "Rpc")
    BY <2>3, <2>4, <2>5
  <2>7. QED
    BY <1>1, <2>1, <2>6, LaterScripts
<1>4. QED
  BY <1>2, <1>3

(* A module other than the engine and Rpc is launched, or is initialised.  *)
LEMMA OtherScripts ==
  ASSUME Started, Scripts, NEW m, Launch(m), m \notin {"Rpc", "ScriptEngine"},
         UNCHANGED <<acts, harbor>>, aborted' # "call",
         handlers' \subseteq handlers \union {"NEW_NODE"}
  PROVE  Scripts'
<1>1. /\ Past' = Past \union {m} /\ Modules' = Modules /\ order' = order
      /\ acts = <<>>
      /\ \A x, y : Before(x, y)' <=> Before(x, y)
  BY LaunchPast DEF Launch
<1>2. Calls' /\ ~InEntry /\ ~InEntry'
  BY <1>1, EmptySeq DEF Calls, InEntry
<1>3. handlers' \intersect {"RPC", "RPCNR", "RESPONE"} # {} =>
        handlers \intersect {"RPC", "RPCNR", "RESPONE"} # {}
  OBVIOUS
<1>4. QED
  BY <1>1, <1>2, <1>3 DEF Scripts

LEMMA InitializeScripts == ASSUME Started, Scripts, Initialize PROVE Scripts'
<1>1. /\ phase = "Initialize" /\ order' = order /\ Advance /\ acts = <<>> /\ aborted = ""
      /\ UNCHANGED <<acts, harbor, aborted>>
      /\ handlers' = IF Module = "Rpc" THEN handlers \union {"RPC", "RPCNR", "RESPONE"} ELSE handlers
  BY DEF Initialize, Idle, engineVars
<1>2. /\ Module \in Modules /\ Modules' = Modules
      /\ \A x, y : Before(x, y)' <=> Before(x, y)
  BY <1>1, AdvanceFacts DEF Modules, Before
<1>3. Past = {} /\ Past' = {}
  BY <1>1, AdvanceFacts DEF Past
<1>4. Calls' /\ ~InEntry /\ ~InEntry'
  <2>1. acts = <<>> /\ acts' = <<>> /\ Len(<<>>) = 0
    BY <1>1, EmptySeq
  <2>2. QED
    BY <2>1 DEF Calls, InEntry
<1>5. QED
  BY <1>1, <1>2, <1>3, <1>4 DEF Scripts

(* Rpc makes its table: entry has run without it, or will find it.         *)
LEMMA LaunchRpcScripts == ASSUME Started, Scripts, LaunchRpc PROVE Scripts'
<1>0. Launch("Rpc")
  BY DEF LaunchRpc
<1>1. /\ Past = Done /\ Past' = Past \union {"Rpc"} /\ Modules' = Modules /\ order' = order
      /\ acts = <<>> /\ "Rpc" \in Modules /\ Module = "Rpc" /\ aborted = ""
      /\ \A x, y : Before(x, y)' <=> Before(x, y)
  BY <1>0, LaunchPast DEF Launch
<1>2. /\ harbor' = Natives /\ UNCHANGED <<acts, aborted, handlers>>
  BY <1>0, <1>1 DEF LaunchRpc, Started, Launch
<1>3. Calls' /\ ~InEntry /\ ~InEntry'
  <2>1. acts = <<>> /\ acts' = <<>> /\ Len(<<>>) = 0
    BY <1>1, <1>2, EmptySeq
  <2>2. QED
    BY <2>1 DEF Calls, InEntry
<1>4. "ScriptEngine" \in Past => ~Before("Rpc", "ScriptEngine")
  <2>1. /\ \A m \in Done : Before(m, Module)
        /\ \A m, n : ~(Before(m, n) /\ Before(n, m))
    BY BeforeFacts DEF Scripts
  <2>2. QED
    BY <1>1, <2>1
<1>5. Natives # {} /\ ~(Handlers \subseteq Natives)
  BY DEF Natives, Handlers
<1>6. QED
  BY <1>1, <1>2, <1>3, <1>4, <1>5 DEF Scripts

(* The engine runs entry.                                                  *)
LEMMA LaunchEngineScripts ==
  ASSUME Started, Layout, Scripts, LaunchScriptEngine PROVE Scripts'
<1>0. Launch("ScriptEngine")
  BY DEF LaunchScriptEngine
<1>1. /\ Past = Done /\ Past' = Past \union {"ScriptEngine"} /\ Modules' = Modules
      /\ order' = order /\ acts = <<>> /\ Module = "ScriptEngine" /\ aborted = ""
      /\ \A x, y : Before(x, y)' <=> Before(x, y)
  BY <1>0, LaunchPast DEF Launch
<1>2. UNCHANGED <<harbor, aborted, handlers>>
  BY DEF LaunchScriptEngine, ExecuteScriptFile
<1>3. PICK a \in Acts : acts' = Append(acts, a) /\ a.via = "String"
  BY ExecuteActs DEF LaunchScriptEngine, ExecuteScriptFile
<1>4. Len(acts') = 1 /\ acts'[1] = a /\ acts' # <<>>
  <2>1. acts \in Seq(Acts) /\ Len(acts) = 0
    BY <1>1, EmptySeq DEF Layout
  <2>2. Len(acts') = 0 + 1 /\ acts'[0 + 1] = a
    BY <1>3, <2>1, AppendProperties
  <2>3. QED
    BY <2>2, EmptySeq
<1>5. harbor # {} => Before("Rpc", "ScriptEngine")
  <2>1. \A m \in Done : Before(m, Module)
    BY BeforeFacts DEF Scripts
  <2>2. QED
    BY <1>1, <2>1 DEF Scripts
<1>6. Calls' /\ InEntry'
  <2>1. \A i \in 1 .. Len(acts') : i = 1 /\ acts'[i].via = "String"
    BY <1>3, <1>4
  <2>2. "ScriptEngine" \in Past' /\ (harbor' # {} => Before("Rpc", "ScriptEngine")')
    BY <1>1, <1>2, <1>5
  <2>3. Calls'
    BY <2>1, <2>2 DEF Calls
  <2>4. QED
    BY <1>3, <1>4, <2>3 DEF InEntry
<1>7. QED
  BY <1>1, <1>2, <1>6 DEF Scripts

(* entry requires core.harbor.                                             *)
LEMMA RequireScripts ==
  ASSUME Started, Layout, Scripts, RequireHarbor, UNCHANGED mainVars PROVE Scripts'
<1>1. /\ UNCHANGED <<order, handlers, phase, at, acts, aborted>>
      /\ harbor # {} /\ harbor' = harbor \union Handlers
      /\ acts \in Seq(Acts) /\ acts # <<>> /\ Last(acts).via = "String"
  BY DEF RequireHarbor, Script, mainVars, startVars, Layout
<1>2. Len(acts) \in 1 .. Len(acts) /\ acts[Len(acts)].via = "String"
  BY <1>1, LenProperties, EmptySeq DEF Last
<1>3. Before("Rpc", "ScriptEngine")
  BY <1>1, <1>2 DEF Scripts, Calls
<1>4. /\ Past' = Past /\ Modules' = Modules
      /\ \A x, y : Before(x, y)' <=> Before(x, y)
  BY <1>1, SamePast
<1>5. Calls'
  BY <1>1, <1>3, <1>4 DEF Scripts, Calls
<1>6. harbor' # {} /\ Handlers \subseteq harbor'
  BY <1>1
<1>7. QED
  BY <1>1, <1>3, <1>4, <1>5, <1>6 DEF Scripts

(* Every step keeps the invariant.                                         *)
LEMMA NextScripts == Started /\ Layout /\ Scripts /\ [Next]_vars => Scripts'
<1> SUFFICES ASSUME Started, Layout, Scripts, [Next]_vars PROVE Scripts'
  OBVIOUS
<1>0. acts \in Seq(Acts) /\ (aborted = "call" => Before("ScriptEngine", "Rpc"))
  BY DEF Layout, Scripts
<1>1. CASE Initialize
  BY <1>1, InitializeScripts
<1>2. CASE LaunchHarbor \/ LaunchMaster
  <2>1. PICK m \in {"Harbor", "Master"} : Launch(m)
    BY <1>2 DEF LaunchHarbor, LaunchMaster
  <2>2. UNCHANGED <<acts, harbor, aborted, handlers>> /\ aborted = ""
    BY <1>2, <2>1 DEF LaunchHarbor, LaunchMaster, engineVars, Launch, Idle
  <2>3. QED
    BY <2>1, <2>2, OtherScripts
<1>3. CASE LaunchCluster
  <2>1. /\ Launch("Cluster") /\ UNCHANGED <<acts, harbor>> /\ aborted' # "call"
        /\ handlers' = handlers \union {"NEW_NODE"}
    BY <1>3 DEF LaunchCluster, Launch, Idle
  <2>2. QED
    BY <2>1, OtherScripts
<1>4. CASE LaunchRpc
  BY <1>4, LaunchRpcScripts
<1>5. CASE LaunchScriptEngine
  BY <1>5, LaunchEngineScripts
<1>6. ASSUME NEW func \in {"onOpen", "onClose"}, NodeEvent(func) PROVE Scripts'
  <2>1. /\ acts = <<>> /\ aborted = "" /\ phase = "Net" /\ "Rpc" \in Range(listeners)
        /\ Call(func) /\ UNCHANGED mainVars
    BY <1>6 DEF NodeEvent, Idle, mainVars
  <2>2. "Rpc" \in Modules
    BY <2>1 DEF Started, LaunchedBy
  <2>3. func \in Handlers
    BY DEF Handlers
  <2>4. QED
    BY <2>1, <2>2, <2>3, CallScripts
<1>7. ASSUME NEW func \in {"onCall", "onCallNoRet", "onRespone"}, NodeMessage(func)
      PROVE  Scripts'
  <2>1. /\ acts = <<>> /\ aborted = "" /\ phase = "Net" /\ Proto(func) \in handlers
        /\ Call(func) /\ UNCHANGED mainVars
    BY <1>7 DEF NodeMessage, Idle, mainVars
  <2>2. Proto(func) \in {"RPC", "RPCNR", "RESPONE"}
    BY DEF Proto
  <2>3. "Rpc" \in Modules /\ func \in Handlers
    BY <2>1, <2>2 DEF Scripts, Handlers
  <2>4. QED
    BY <2>1, <2>3, CallScripts
<1>8. CASE EndNet
  <2>1. /\ UNCHANGED <<acts, harbor, aborted, order, handlers>>
        /\ phase = "Net" /\ phase' = "Logic"
    BY <1>8 DEF EndNet, engineVars, startVars
  <2>2. QED
    BY <1>0, <2>1, LaterScripts
<1>9. CASE Loop
  <2>1. UNCHANGED <<harbor, order, handlers>> /\ aborted' # "call" /\ phase = "Logic" /\ Advance
    BY <1>9 DEF Loop, ExecuteGlobalFunction, engineVars, startVars, Idle
  <2>2. phase' \in {"Net", "Logic"}
    BY <2>1, AdvanceFacts
  <2>3. acts' = acts \/ \E a \in Acts : acts' = Append(acts, a) /\ a.via = "Global"
    <3>1. acts' = acts \/ Execute("Global", Append(stack, "loop"), 0)
      BY <1>9 DEF Loop, ExecuteGlobalFunction, engineVars
    <3>2. QED
      BY <3>1, ExecuteActs
  <2>4. QED
    BY <1>0, <2>1, <2>2, <2>3, LaterScripts
<1>10. ASSUME NEW args \in Args, ScriptSerialize(args) PROVE Scripts'
  <2>1. /\ UNCHANGED <<acts, harbor, order, handlers, phase, at>>
        /\ aborted' = "call" => aborted = "call"
    BY <1>10 DEF ScriptSerialize, mainVars, startVars
  <2>2. QED
    BY <1>0, <2>1, LaterScripts
<1>11. ASSUME NEW native \in Natives, NEW onMain \in BOOLEAN, ScriptSend(native, onMain)
       PROVE  Scripts'
  <2>1. /\ UNCHANGED <<harbor, order, handlers, phase, at, aborted>> /\ Handlers \subseteq harbor
        /\ acts' = Append(acts, [via |-> "Callback", traceback |-> 0, entry |-> stack])
    BY <1>11 DEF ScriptSend, Callback, Loaded, mainVars, startVars
  <2>2. [via |-> "Callback", traceback |-> 0, entry |-> stack] \in Acts
    BY DEF Acts, Layout
  <2>3. \E a \in Acts : acts' = Append(acts, a) /\ a.via = "Callback"
    BY <2>1, <2>2
  <2>4. QED
    BY <1>0, <2>1, <2>3, LaterScripts
<1>12. CASE SendCloses
  <2>1. /\ Native /\ aborted = "" /\ phase \in {"Net", "Logic"} /\ UNCHANGED mainVars
        /\ Call("onClose") /\ "onClose" \in Handlers
    BY <1>12 DEF SendCloses, Native, Handlers
  <2>2. QED
    BY <2>1, CallScripts
<1>13. CASE SendReturns
  <2>1. /\ UNCHANGED <<harbor, order, handlers, phase, at, aborted>>
        /\ acts # <<>> /\ acts' = Front(acts) /\ Last(acts).via # "String"
    BY <1>13 DEF SendReturns, CallbackReturn, Native, mainVars, startVars
  <2>2. QED
    BY <1>0, <2>1, LaterScripts
<1>14. CASE ScriptError
  <2>1. /\ UNCHANGED <<harbor, order, handlers, phase, at>>
        /\ aborted' = "call" => aborted = "call"
        /\ acts # <<>> /\ acts' = Front(acts) /\ (Handlers \subseteq harbor \/ harbor = {})
    BY <1>14 DEF ScriptError, Error, Script, Loaded, mainVars, startVars
  <2>2. QED
    BY <1>0, <2>1, LaterScripts
<1>15. CASE ScriptStep /\ Return
  <2>1. /\ UNCHANGED <<harbor, order, handlers, phase, at, aborted>>
        /\ acts # <<>> /\ acts' = Front(acts)
        /\ Last(acts).via = "String" => Handlers \subseteq harbor
    BY <1>15 DEF ScriptStep, Return, Script, Loaded, mainVars, startVars
  <2>2. QED
    BY <1>0, <2>1, LaterScripts
<1>16. CASE ScriptStep /\ SetTrackback
  <2>1. UNCHANGED <<acts, harbor, order, handlers, phase, at, aborted>>
    BY <1>16 DEF ScriptStep, SetTrackback, mainVars, startVars
  <2>2. QED
    BY <1>0, <2>1, LaterScripts
<1>17. CASE ScriptStep /\ RequireHarbor
  BY <1>17, RequireScripts DEF ScriptStep
<1>18. CASE UNCHANGED vars
  <2>1. UNCHANGED <<acts, harbor, order, handlers, phase, at, aborted>>
    BY <1>18 DEF vars, engineVars, startVars
  <2>2. QED
    BY <1>0, <2>1, LaterScripts
<1>19. ScriptStep => Return \/ SetTrackback \/ RequireHarbor
  BY DEF ScriptStep
<1>20. QED
  BY <1>1, <1>2, <1>3, <1>4, <1>5, <1>6, <1>7, <1>8, <1>9, <1>10, <1>11, <1>12, <1>13, <1>14,
     <1>15, <1>16, <1>17, <1>18, <1>19 DEF Next

(* The initial states.                                                     *)
LEMMA InitScripts == Init => Scripts
<1> SUFFICES ASSUME Init PROVE Scripts
  OBVIOUS
<1>1. PICK c \in Configs : order \in SetToSeqs(c)
  BY DEF Init
<1>2. \A i, j \in 1 .. Len(order) : order[i] = order[j] => i = j
  BY <1>1, OrderFacts, LenProperties DEF SetToSeqs
<1>3. /\ harbor = {} /\ Past = {} /\ handlers = {} /\ aborted # "call"
      /\ acts = <<>> /\ Len(<<>>) = 0
  BY EmptySeq DEF Init, EngineInit, Past
<1>4. Calls /\ ~(Handlers \subseteq harbor)
  BY <1>3 DEF Calls, Handlers
<1>5. QED
  BY <1>2, <1>3, <1>4 DEF Scripts

(* Scripts can be called in the main loop exactly if Rpc precedes the      *)
(* engine in the hash table's order, and only the other order lets an      *)
(* event end the process, for every configuration and every script.        *)
THEOREM ScriptsAfterRpc == Spec => []ScriptsReady
<1>1. Started /\ Scripts => ScriptsReady
  <2> SUFFICES ASSUME Started, Scripts PROVE ScriptsReady
    OBVIOUS
  <2>1. ASSUME phase \in {"Net", "Logic"}, acts = <<>>, "Rpc" \in Modules
        PROVE  Handlers \subseteq harbor <=> Before("Rpc", "ScriptEngine")
    <3>1. Past = Modules /\ "ScriptEngine" \in Past /\ ~InEntry
      BY <2>1 DEF Past, Started, InEntry
    <3>2. QED
      BY <3>1 DEF Scripts
  <2>2. QED
    BY <2>1 DEF ScriptsReady, Scripts
<1>2. Init => Layout
  <2> SUFFICES ASSUME Init PROVE Layout
    OBVIOUS
  <2>1. stack = <<>> /\ acts = <<>>
    BY DEF Init, EngineInit
  <2>2. <<>> \in Seq(Slot) /\ <<>> \in Seq(Acts) /\ Len(<<>>) = 0
    BY EmptySeq
  <2>3. QED
    BY <2>1, <2>2 DEF Layout
<1>3. QED
  BY <1>1, <1>2, InitStarted, InitScripts, NextStarted, NextLayout, NextScripts, PTL DEF Spec
=============================================================================
