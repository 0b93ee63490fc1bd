------------------------------ MODULE Serialize ------------------------------
(***************************************************************************)
(* string.serialize and string.unserialize, the encoding in which scripts  *)
(* send arguments and results (scriptengine/serialize.cpp).                *)
(*                                                                         *)
(* A Lua value is a record with its type t and, for a scalar, a name v for *)
(* which value it is; a string has its length n, a table the sequence kv   *)
(* of its entries in the order of lua_next.  The buffer is the sequence of *)
(* the fields written to it, each with its size in bytes.                  *)
(***************************************************************************)
EXTENDS Naturals, FiniteSetsExt, SequencesExt

CONSTANTS
  Values,     \* Lua values, with the keys and values of every table among them
  BUFF_SIZE   \* bytes in the buffer of serialize

ASSUME SerializeAssumption == BUFF_SIZE \in Nat

Nil == [t |-> "nil"]

Tag(x)     == [tag |-> x, size |-> 1]
Raw(x, n)  == [raw |-> x, size |-> n]
Length(n)  == [len |-> n, size |-> 4]
Text(x, n) == [text |-> x, size |-> n]

(* A value of any other type: not written, an error is raised.             *)
Unsupport == [unsupport |-> TRUE, size |-> 0]

(* pack_number.                                                            *)
NumberTag(v) == IF v.t = "int" THEN "INT" ELSE "DOUBLE"

(* pack_one and the functions it selects.                                  *)
pack_one[v \in Values] ==
  CASE v.t = "nil"               -> <<Tag("NIL")>>
    [] v.t = "boolean"           -> <<Tag("BOOLEAN"), Raw(v.v, 1)>>
    [] v.t \in {"int", "double"} -> <<Tag(NumberTag(v)), Raw(v.v, 8)>>
    [] v.t = "string"            -> <<Tag("STRING"), Length(v.n), Text(v.v, v.n)>>
    [] v.t = "table"             ->
         <<Tag("TABLE")>>
           \o FlattenSeq([i \in DOMAIN v.kv |-> pack_one[v.kv[i][1]] \o pack_one[v.kv[i][2]]])
           \o <<Tag("NIL")>>
    [] v.t = "function"          -> <<Unsupport>>

Offset(fields, i) == FoldLeft(LAMBDA sum, f : sum + f.size, 0, SubSeq(fields, 1, i))

(* Mutant: the last byte of the buffer is not used.                        *)
StopsEarly(fields) ==
  {i \in DOMAIN fields : "unsupport" \in DOMAIN fields[i] \/ Offset(fields, i) >= BUFF_SIZE}

(* SerializeStream::write refuses a field that passes the end.             *)
Stops(fields) ==
  {i \in DOMAIN fields : "unsupport" \in DOMAIN fields[i] \/ Offset(fields, i) > BUFF_SIZE}

(* l_serialize of the arguments vs.  writeString copies the characters of  *)
(* a string without that test, and what happens beyond the end of the      *)
(* buffer is undefined.                                                    *)
l_serialize(vs) ==
  LET fields == FlattenSeq([i \in DOMAIN vs |-> pack_one[vs[i]]])
  IN  [args |-> vs, fields |-> fields,
       result |-> IF Stops(fields) = {} THEN "string"
                  ELSE IF "text" \in DOMAIN fields[Min(Stops(fields))] THEN "undefined"
                  ELSE "error"]

(* push_value and push_table: what is read from position o, and the        *)
(* position after it.  A table ends with a key that is nil.                *)
Push(fields) ==
  LET push[x \in {"one", "entries"} \X (1 .. Len(fields) + 1)] ==
        LET o == x[2]
            tag == fields[o].tag
            key == push["one", o]
            value == push["one", key.next]
            rest == push["entries", value.next]
            entries == push["entries", o + 1]
        IN  IF x[1] = "entries"
            THEN IF key.v = Nil THEN [kv |-> <<>>, next |-> key.next]
                 ELSE [kv |-> <<<<key.v, value.v>>>> \o rest.kv, next |-> rest.next]
            ELSE CASE tag = "NIL"     -> [v |-> Nil, next |-> o + 1]
                   [] tag = "BOOLEAN" -> [v |-> [t |-> "boolean", v |-> fields[o + 1].raw], next |-> o + 2]
                   [] tag = "INT"     -> [v |-> [t |-> "int", v |-> fields[o + 1].raw], next |-> o + 2]
                   [] tag = "DOUBLE"  -> [v |-> [t |-> "double", v |-> fields[o + 1].raw], next |-> o + 2]
                   [] tag = "STRING"  -> [v |-> [t |-> "string", v |-> fields[o + 2].text,
                                                 n |-> fields[o + 1].len], next |-> o + 3]
                   [] tag = "TABLE"   -> [v |-> [t |-> "table", kv |-> entries.kv],
                                          next |-> entries.next]
  IN  push

(* l_unserialize of a string that l_serialize has made: values are pushed  *)
(* until no type can be read.                                              *)
l_unserialize(fields) ==
  LET all[o \in 1 .. Len(fields) + 1] ==
        IF o = Len(fields) + 1 THEN <<>>
        ELSE <<Push(fields)["one", o].v>> \o all[Push(fields)["one", o].next]
  IN  all[1]

-----------------------------------------------------------------------------
(* Reference definitions: the bytes a value takes, and what can be sent.   *)
Width[v \in Values] ==
  CASE v.t = "nil"               -> 1
    [] v.t = "boolean"           -> 2
    [] v.t \in {"int", "double"} -> 9
    [] v.t = "string"            -> 5 + v.n
    [] v.t = "table"             -> 2 + FoldLeft(LAMBDA sum, e : sum + Width[e[1]] + Width[e[2]], 0, v.kv)
    [] OTHER                     -> 0

Plain[v \in Values] ==
  /\ v.t # "function"
  /\ v.t = "table" => \A i \in DOMAIN v.kv : Plain[v.kv[i][1]] /\ Plain[v.kv[i][2]]

(* Arguments come back as they were sent, and are refused only if one is   *)
(* of a type that has no encoding or they are larger than the buffer; what *)
(* is larger is not sent.                                                  *)
Faithful(text) ==
  LET width == FoldLeft(LAMBDA sum, v : sum + Width[v], 0, text.args)
      plain == \A i \in DOMAIN text.args : Plain[text.args[i]]
  IN  /\ text.result = "string" =>
           plain /\ width <= BUFF_SIZE /\ l_unserialize(text.fields) = text.args
      /\ text.result = "error" => ~plain \/ width > BUFF_SIZE
=============================================================================
