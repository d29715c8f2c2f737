------------------------------ MODULE MCPthFile ------------------------------
(***************************************************************************)
(* What is saved: state dictionaries for SavePth, and files as torch.save  *)
(* writes them (modern and legacy), plain or inside a training checkpoint. *)
(***************************************************************************)
EXTENDS PthFile, SequencesExt

Plain(key, dt, shape) == RawTensor(dt, shape, BytesOf(key, dt, Product(shape)))

\* Scalars, empty and size-1 axes, and sizes of every integer width (Base 4).
Shapes == {<<>>, <<3>>, <<2, 1, 2>>, <<0, 130>>, <<17>>}

OwnDicts ==
  {<<>>} \cup {<<<<"w", Plain("a", dt, s)>>>> : dt \in {"U8", "F16"}, s \in Shapes}
  \cup {<<<<"w", Plain("a", "F16", s)>>, <<"b", Plain("b", "U8", <<2>>)>>>> : s \in Shapes}

OwnObjects == {[by |-> "SavePth", sd |-> sd] : sd \in OwnDicts}

-----------------------------------------------------------------------------
(* torch.save. A tensor: [name, key, dt, off, shape, stride, total]. *)

Tens(name, key, dt, off, shape, stride, total) ==
  [name |-> name, key |-> key, dt |-> dt, off |-> off,
   shape |-> shape, stride |-> stride, total |-> total]

TorchTuple(s) ==
  IF s = <<>> THEN <<Op("EMPTY_TUPLE")>>
  ELSE [k \in DOMAIN s |-> PutInt(s[k])] \o <<Op(<<"TUPLE1", "TUPLE2", "TUPLE3">>[Len(s)])>>

NewDict == <<OpArg("GLOBAL", "OrderedDict"), Op("EMPTY_TUPLE"), Op("REDUCE")>>

\* Strings and globals are memoized the first time and fetched afterwards.
TorchTensor(t, first, legacy) ==
  (IF first THEN <<OpArg("GLOBAL", "_rebuild_tensor_v2"), OpArg("BINPUT", 2)>>
            ELSE <<OpArg("BINGET", 2)>>)
  \o <<Op("MARK"), Op("MARK")>>
  \o (IF first THEN <<OpArg("BINUNICODE", "storage"), OpArg("BINPUT", 1)>>
               ELSE <<OpArg("BINGET", 1)>>)
  \o <<OpArg("GLOBAL", StorageTypeName(t.dt)),
       IF legacy THEN PutInt(t.key) ELSE OpArg("BINUNICODE", Decimal(t.key)),
       OpArg("BINUNICODE", "cpu"), PutInt(t.total)>>
  \o (IF legacy THEN <<Op("NONE")>> ELSE <<>>)
  \o <<Op("TUPLE"), Op("BINPERSID"), PutInt(t.off)>>
  \o TorchTuple(t.shape) \o TorchTuple(t.stride)
  \o <<Op("NEWFALSE")>> \o NewDict \o <<Op("TUPLE"), Op("REDUCE")>>

\* nn.Parameter wraps its tensor; a later protocol takes names off the stack.
TorchParameter(t, first, legacy) ==
  (IF legacy THEN <<OpArg("GLOBAL", "_rebuild_parameter")>>
   ELSE <<OpArg("BINUNICODE", "torch._utils"), OpArg("BINUNICODE", "_rebuild_parameter"),
          Op("STACK_GLOBAL")>>) \o TorchTensor(t, first, legacy)
  \o <<Op("NEWTRUE")>> \o NewDict \o <<Op("TUPLE3"), Op("REDUCE")>>

Item(t, first, legacy) ==
  <<OpArg("BINUNICODE", t.name)>>
  \o (IF first THEN TorchParameter(t, first, legacy) ELSE TorchTensor(t, first, legacy))

\* A module's state_dict, memoized at 0, with the _metadata attribute.
TorchDict(ts, legacy) ==
  NewDict \o <<OpArg("BINPUT", 0)>>
  \o (IF Len(ts) = 1 THEN Item(ts[1], TRUE, legacy) \o <<Op("SETITEM")>>
      ELSE <<Op("MARK")>> \o FlattenSeq([k \in DOMAIN ts |-> Item(ts[k], k = 1, legacy)])
           \o <<Op("SETITEMS")>>)
  \o <<Op("EMPTY_DICT"), OpArg("BINUNICODE", "_metadata"), Op("NONE"), Op("SETITEM"),
       Op("BUILD")>>

\* A training checkpoint: settings, then the weights under two names; the
\* second is the same object and fetched from the memo.
Wrapped(ts, one, two, legacy) ==
  <<Op("EMPTY_DICT"), Op("MARK"),
    OpArg("BINUNICODE", "lr"), Op("BINFLOAT"),
    OpArg("BINUNICODE", "args"), OpArg("GLOBAL", "Namespace"), Op("EMPTY_TUPLE"),
    Op("NEWOBJ"), Op("EMPTY_DICT"), Op("BUILD"),
    OpArg("BINUNICODE", "drops"), Op("EMPTY_LIST"), PutInt(1), Op("APPEND"),
    OpArg("BINUNICODE", one)>> \o TorchDict(ts, legacy)
  \o <<OpArg("BINUNICODE", two), OpArg("BINGET", 0), Op("SETITEMS")>>

Root(ts, shape, legacy) ==
  CASE shape = "plain"     -> TorchDict(ts, legacy)
    [] shape = "model"     -> Wrapped(ts, "model", "ema", legacy)
    [] shape = "ema_first" -> Wrapped(ts, "ema", "state_dict", legacy)
    [] shape = "not_dict"  -> <<Op("NONE")>>

TorchExpect(ts, shape) ==
  IF shape = "not_dict" \/ \E k \in DOMAIN ts : ~IsContiguous(ts[k].shape, ts[k].stride)
  THEN NoResult
  ELSE [k \in DOMAIN ts |->
         <<ts[k].name,
           RawTensor(ts[k].dt, ts[k].shape,
             [b \in 1 .. Product(ts[k].shape) * DTypeSize(ts[k].dt) |->
               <<Decimal(ts[k].key), ts[k].off * DTypeSize(ts[k].dt) + b>>])>>]

StorageKeys(ts) == SetToSortSeq({ts[k].key : k \in DOMAIN ts}, LAMBDA x, y : x < y)
Of(ts, key) == CHOOSE t \in Range(ts) : t.key = key

ModernFile(ts, shape) ==
  ZipFile([e \in {"data.pkl", "version", "byteorder"} \cup {Decimal(t.key) : t \in Range(ts)} |->
        IF e = "data.pkl" THEN <<Op("PROTO")>> \o Root(ts, shape, FALSE) \o <<Op("STOP")>>
        ELSE IF e = "version" THEN "3" ELSE IF e = "byteorder" THEN "little"
        ELSE LET t == CHOOSE t \in Range(ts) : Decimal(t.key) = e
             IN  BytesOf(e, t.dt, t.total)], TRUE)

LegacyBytes(ts, shape, little) ==
  <<Op("PROTO"), OpArg("LONG1", [d \in 1..10 |-> 3]), Op("STOP"),
    Op("PROTO"), PutInt(9), Op("STOP"),
    Op("PROTO"), Op("EMPTY_DICT"), OpArg("BINUNICODE", "little_endian"),
    Op(IF little THEN "NEWTRUE" ELSE "NEWFALSE"), Op("SETITEM"), Op("STOP"),
    Op("PROTO")>> \o Root(ts, shape, TRUE) \o <<Op("STOP"),
    Op("PROTO"), Op("EMPTY_LIST"), Op("MARK")>>
  \o [k \in DOMAIN StorageKeys(ts) |->
       IF shape = "plain" THEN PutInt(StorageKeys(ts)[k])
       ELSE OpArg("BINUNICODE", Decimal(StorageKeys(ts)[k]))]
  \o <<Op("APPENDS"), Op("STOP")>>
  \o FlattenSeq([k \in DOMAIN StorageKeys(ts) |->
       LET t == Of(ts, StorageKeys(ts)[k])
       IN  <<[numel |-> t.total]>> \o BytesOf(Decimal(t.key), t.dt, t.total)])

LegacyFile(ts, shape, little) == [kind |-> "legacy", bytes |-> LegacyBytes(ts, shape, little)]

TorchObject(f, expect, whole) ==
  [by |-> "torch", file |-> f, expect |-> expect, whole |-> whole]

\* One tensor; two that share a storage at different offsets; two storages;
\* one that is not contiguous.
TensorLists ==
  {<<Tens("w", 5, "F16", 0, <<2>>, <<1>>, 2)>>,
   <<Tens("w", 5, "F16", 0, <<2, 1>>, <<1, 7>>, 4), Tens("b", 5, "F16", 2, <<2>>, <<1>>, 4)>>,
   <<Tens("w", 7, "U8", 1, <<>>, <<>>, 3), Tens("b", 6, "F16", 0, <<0, 2>>, <<2, 1>>, 1)>>,
   <<Tens("w", 5, "U8", 0, <<2, 2>>, <<1, 2>>, 4)>>}

Wraps == {"plain", "model", "ema_first", "not_dict"}

TorchObjects ==
  {TorchObject(ModernFile(ts, w), TorchExpect(ts, w), TRUE) : ts \in TensorLists, w \in Wraps}
  \cup {TorchObject(LegacyFile(ts, w, TRUE), TorchExpect(ts, w), TRUE) :
          ts \in TensorLists, w \in Wraps}
  \cup {TorchObject(LegacyFile(ts, "plain", FALSE), NoResult, TRUE) : ts \in TensorLists}

\* Legacy files that end early, anywhere.
Torn ==
  LET ts == <<Tens("w", 5, "F16", 0, <<2, 1>>, <<1, 7>>, 4), Tens("b", 5, "F16", 2, <<2>>, <<1>>, 4)>>
      all == LegacyBytes(ts, "model", TRUE)
  IN  {TorchObject([kind |-> "legacy", bytes |-> SubSeq(all, 1, n)], TorchExpect(ts, "model"), FALSE) :
         n \in 0 .. Len(all) - 1}

MCObjects == OwnObjects \cup TorchObjects \cup Torn
=============================================================================
