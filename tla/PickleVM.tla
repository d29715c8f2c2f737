------------------------------- MODULE PickleVM ------------------------------
(***************************************************************************)
(* detail::Unpickler (src/weights/pickle_vm.hpp): the interpreter that     *)
(* reads one pickle of a checkpoint, one action for each kind of opcode.   *)
(*                                                                         *)
(* The bytes of a file are kept as tokens: an opcode with its argument.    *)
(* Opcodes that differ only in how they encode the same argument are one   *)
(* (BINUNICODE stands for the four string opcodes, BINPUT for LONG_BINPUT, *)
(* BINGET for LONG_BINGET); the integers, whose widths matter, are not.    *)
(***************************************************************************)
EXTENDS Integers, Sequences, FiniteSets, TLC

CONSTANTS Base,        \* the values of a byte: 256 in the program
          Decimal(_)   \* std::to_string

ASSUME BaseAssumption == Base \in Nat /\ Base >= 2 /\ Base % 2 = 0

VARIABLES buf,       \* the tokens of the file, or of its data.pkl
          pos,       \* the next token
          stack, memo,
          storages,  \* storage key -> dtype, from every persistent id
          status     \* "off", "run", "stop", "failed"

vmvars == <<buf, pos, stack, memo, storages, status>>

-----------------------------------------------------------------------------
(* Values *)

Simple(k)       == [kind |-> k]           \* None, Bool, Mark, Opaque
Str(s)          == [kind |-> "Str", s |-> s]
IntVal(n)       == [kind |-> "Int", i |-> n]
Tuple(items)    == [kind |-> "Tuple", items |-> items]
Dict(entries)   == [kind |-> "Dict", entries |-> entries]
Global(name)    == [kind |-> "Global", s2 |-> name]
Storage(k, dt)  == [kind |-> "Storage", s |-> k, dt |-> dt]
TensorVal(st, off, shape, stride) ==
  [kind |-> "Tensor", s |-> st.s, dt |-> st.dt, i |-> off,
   shape |-> shape, stride |-> stride]

\* StorageDType
DTypeOf == [FloatStorage |-> "F32", DoubleStorage |-> "F64",
            HalfStorage |-> "F16", BFloat16Storage |-> "BF16",
            LongStorage |-> "I64", IntStorage |-> "I32",
            ShortStorage |-> "I16", CharStorage |-> "I8",
            ByteStorage |-> "U8", BoolStorage |-> "Bool"]

\* The numbers of so many bytes, up to those of an int64.
Power == LET p[n \in 0 .. 8] == IF n = 0 THEN 1 ELSE Base * p[n - 1] IN p

\* The value of a little-endian number, unsigned and in two's complement.
Unsigned(bytes) ==
  LET u[k \in 0 .. Len(bytes)] ==
        IF k = 0 THEN 0 ELSE u[k - 1] + bytes[k] * Power[k - 1]
  IN  u[Len(bytes)]
Signed(bytes) ==
  IF bytes # <<>> /\ bytes[Len(bytes)] >= Base \div 2
  THEN Unsigned(bytes) - Power[Len(bytes)] ELSE Unsigned(bytes)

IntOfSigned(op, bytes) == IF op = "LONG1" /\ Len(bytes) > 8 THEN 0 ELSE Signed(bytes)

\* BININT1 and BININT2 are unsigned; LONG1 of more than 8 bytes is only skipped.
IntOf(op, bytes) == IF op \in {"BININT1", "BININT2"} THEN Unsigned(bytes)
                    ELSE IF op = "LONG1" /\ Len(bytes) > 8 THEN 0
                    ELSE Signed(bytes)

-----------------------------------------------------------------------------
(* The stack *)

Top == stack[Len(stack)]
Below(k) == SubSeq(stack, 1, Len(stack) - k)
Arg(k) == stack[Len(stack) - k]      \* Arg(0) is the top

StringOf(v) == IF v.kind \in {"Str", "Storage", "Tensor"} THEN v.s ELSE ""
IsMark(v) == v.kind = "Mark"
Marks == {k \in DOMAIN stack : IsMark(stack[k])}
LastMark == CHOOSE k \in Marks : \A l \in Marks : l <= k
PoppedToMark == SubSeq(stack, LastMark + 1, Len(stack))
BelowMark == SubSeq(stack, 1, LastMark - 1)

TopIs(s, kind) == s # <<>> /\ s[Len(s)].kind = kind

\* The items that a container on top of s gains; any other value drops them.
WithItems(s, items) ==
  IF TopIs(s, "Tuple")
  THEN [s EXCEPT ![Len(s)] = Tuple(@.items \o items)] ELSE s

Entries(kv) == [k \in 1 .. Len(kv) \div 2 |-> <<kv[2 * k - 1], kv[2 * k]>>]
WithEntries(s, kv) ==
  IF TopIs(s, "Dict")
  THEN [s EXCEPT ![Len(s)] = Dict(@.entries \o Entries(kv))] ELSE s

-----------------------------------------------------------------------------
(* Opcodes. At(op) is an opcode whose demands on the stack are met. *)

Token == buf[pos]
At(op) == status = "run" /\ pos <= Len(buf) /\ Token.op = op

Become(s) == /\ stack' = s /\ pos' = pos + 1
             /\ UNCHANGED <<buf, memo, storages, status>>
Push(v) == Become(Append(stack, v))

Proto    == At("PROTO") /\ Become(stack)
MarkOp   == At("MARK") /\ Push(Simple("Mark"))
Constant == \/ At("NEWTRUE") /\ Push(Simple("True"))
            \/ At("NEWFALSE") /\ Push(Simple("False"))
            \/ At("NONE") /\ Push(Simple("None"))
            \/ At("BINFLOAT") /\ Push(Simple("Opaque"))
Empty    == \/ At("EMPTY_DICT") /\ Push(Dict(<<>>))
            \/ At("EMPTY_TUPLE") /\ Push(Tuple(<<>>))
            \/ At("EMPTY_LIST") /\ Push(Tuple(<<>>))
String   == At("BINUNICODE") /\ Push(Str(Token.arg))
Integer  == \E op \in {"BININT1", "BININT2", "BININT", "LONG1"} :
              At(op) /\ Push(IntVal(IntOf(op, Token.arg)))
\* The name of a function or type; only the last part of it is looked at.
GlobalOp == \/ At("GLOBAL") /\ Push(Global(Token.arg))
            \/ /\ At("STACK_GLOBAL") /\ Len(stack) >= 2
               /\ Become(Append(Below(2), Global(StringOf(Top))))

\* The memo keeps a copy of the top as it is now.
BinPut == /\ At("BINPUT")
          /\ memo' = IF stack = <<>> THEN memo ELSE (Token.arg :> Top) @@ memo
          /\ pos' = pos + 1 /\ UNCHANGED <<buf, stack, storages, status>>
BinGet == At("BINGET") /\ Token.arg \in DOMAIN memo /\ Push(memo[Token.arg])

TupleToMark == /\ At("TUPLE") /\ Marks # {}
               /\ Become(Append(BelowMark, Tuple(PoppedToMark)))
TupleN == \E n \in 1..3 :
  /\ At(<<"TUPLE1", "TUPLE2", "TUPLE3">>[n]) /\ Len(stack) >= n
  /\ Become(Append(Below(n), Tuple(SubSeq(stack, Len(stack) - n + 1, Len(stack)))))

NewObj == At("NEWOBJ") /\ Len(stack) >= 2 /\ Become(Append(Below(2), Simple("Opaque")))
BuildOp == At("BUILD") /\ stack # <<>> /\ Become(Below(1))

AppendOp  == At("APPEND") /\ stack # <<>> /\ Become(WithItems(Below(1), <<Top>>))
Appends   == At("APPENDS") /\ Marks # {} /\ Become(WithItems(BelowMark, PoppedToMark))
SetItem   == At("SETITEM") /\ Len(stack) >= 2
             /\ Become(WithEntries(Below(2), <<Arg(1), Arg(0)>>))
SetItems  == /\ At("SETITEMS") /\ Marks # {} /\ TopIs(BelowMark, "Dict")
             /\ Become(WithEntries(BelowMark, PoppedToMark))

\* DoPersid: ("storage", type, key, location, numel, ..)
IsPersid(t) ==
  /\ t.kind = "Tuple" /\ Len(t.items) >= 5
  /\ t.items[1] = Str("storage")
  /\ t.items[2].kind = "Global" /\ t.items[2].s2 \in DOMAIN DTypeOf

StorageKey(v) == IF v.kind = "Str" THEN v.s
                 ELSE IF v.kind = "Int" THEN Decimal(v.i) ELSE ""

BinPersid ==
  /\ At("BINPERSID") /\ stack # <<>> /\ IsPersid(Top)
  /\ LET st == Storage(StorageKey(Top.items[3]), DTypeOf[Top.items[2].s2])
     IN  /\ storages' = (st.s :> st.dt) @@ storages
         /\ stack' = Append(Below(1), st)
  /\ pos' = pos + 1 /\ UNCHANGED <<buf, memo, status>>

\* DoReduce: nothing is called; a tensor's arguments become its description.
IntOrZero(v) == IF v.kind = "Int" THEN v.i ELSE 0
Ints(v) == IF v.kind = "Tuple" THEN [k \in DOMAIN v.items |-> IntOrZero(v.items[k])]
           ELSE <<>>

IsRebuild(fn) == fn \in {Global("_rebuild_tensor_v2"), Global("_rebuild_tensor")}
CanRebuild(a) == /\ a.kind = "Tuple" /\ Len(a.items) >= 4
                 /\ a.items[1].kind = "Storage"

Reduced(fn, a) ==
  IF IsRebuild(fn)
  THEN TensorVal(a.items[1], IntOrZero(a.items[2]), Ints(a.items[3]), Ints(a.items[4]))
  ELSE IF /\ fn = Global("_rebuild_parameter")
          /\ a.kind = "Tuple" /\ a.items # <<>> /\ a.items[1].kind = "Tensor"
       THEN a.items[1]
       ELSE IF fn = Global("OrderedDict") THEN Dict(<<>>) ELSE Simple("Opaque")

Reduce == /\ At("REDUCE") /\ Len(stack) >= 2
          /\ IsRebuild(Arg(1)) => CanRebuild(Arg(0))
          /\ Become(Append(Below(2), Reduced(Arg(1), Arg(0))))

Stop == /\ At("STOP") /\ stack # <<>>
        /\ status' = "stop" /\ pos' = pos + 1
        /\ UNCHANGED <<buf, stack, memo, storages>>

Execute == \/ Proto \/ MarkOp \/ Constant \/ Empty \/ String \/ Integer
           \/ GlobalOp \/ BinPut \/ BinGet \/ TupleToMark \/ TupleN
           \/ NewObj \/ BuildOp \/ AppendOp \/ Appends \/ SetItem \/ SetItems
           \/ BinPersid \/ Reduce \/ Stop

\* The end of the bytes, an opcode it does not know, or one whose demands are
\* not met.
Fail == /\ status = "run"
        /\ ~ENABLED Execute
        /\ status' = "failed"
        /\ UNCHANGED <<buf, pos, stack, memo, storages>>

\* A new Unpickler at token k of b.
Start(b, k) == /\ buf' = b /\ pos' = k /\ stack' = <<>> /\ memo' = << >>
               /\ storages' = << >> /\ status' = "run"
=============================================================================
