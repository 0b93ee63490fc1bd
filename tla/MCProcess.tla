------------------------------ MODULE MCProcess ------------------------------
(* Instances of Process for TLC.                                           *)
EXTENDS Process

TheConfigs == {{"Harbor", "Master"}, {"Harbor", "Cluster", "ScriptEngine", "Rpc"}}

Yes      == [t |-> "boolean", v |-> "true"]
One      == [t |-> "int", v |-> "1"]
Half     == [t |-> "double", v |-> "0.5"]
Empty    == [t |-> "string", v |-> "", n |-> 0]
Name     == [t |-> "string", v |-> "abc", n |-> 3]
Fun      == [t |-> "function"]
NoTable  == [t |-> "table", kv |-> <<>>]
Array    == [t |-> "table", kv |-> <<<<One, Yes>>>>]
Nested   == [t |-> "table", kv |-> <<<<Yes, NoTable>>, <<Name, Yes>>>>]
WithFun  == [t |-> "table", kv |-> <<<<Yes, Fun>>>>]

TheValues == {Nil, Yes, One, Half, Empty, Name, Fun, NoTable, Array, Nested, WithFun}

Pairs == {One, Name, Fun, Array, Nested}

TheArgs == {<<>>} \union {<<v>> : v \in TheValues} \union (Pairs \X Pairs)
             \union {<<Empty, Half, Nil>>, <<Name, Name, Yes>>}
=============================================================================
