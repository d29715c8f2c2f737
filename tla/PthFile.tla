------------------------------- MODULE PthFile -------------------------------
(***************************************************************************)
(* Checkpoint files: SavePth and LoadPth (src/weights/pth.cpp), the legacy *)
(* loader (legacy_pickle.cpp) and the archive under them (zip.cpp), with   *)
(* the pickle interpreter of PickleVM run token by token.                  *)
(*                                                                         *)
(* A file is written by SavePth, entry by entry, any of which may fail or  *)
(* be the last one of the process, or by torch.save in one of its two      *)
(* formats; the bytes of a storage are tokens <<storage, position>>.       *)
(***************************************************************************)
EXTENDS PickleVM, Selections, StateDicts

CONSTANTS Objects,   \* what is saved, and by whom: see IsObject
          NoFile, NoResult

VARIABLES obj,      \* the object that is saved
          file,
          phase,    \* "write", "saved", "save_failed", "gone",
                    \* "pickle", "payload", "tensors", "loaded", "refused"
          entry,    \* SavePth: the entry that is added next
          archive,  \* the pickle of the file that is read: 1 to 5 for legacy
          main,     \* its root
          keys,     \* legacy: the storages whose payload is still to come
          types,    \* legacy: storages() of the fourth pickle
          store,    \* storage key -> bytes
          pending,     \* the tensors still to be cut out of their storages
          result    \* the StateDict of the load: <<name, tensor>> in order

pthvars == <<vmvars, obj, file, phase, entry, archive, main, keys, types, store,
          pending, result>>
filevars == <<obj, file, entry>>
loadvars == <<archive, main, keys, types, store, pending, result>>

-----------------------------------------------------------------------------
(* Shapes and elements *)

DTypeSize(dt) == CASE dt \in {"F64", "I64"} -> 8
                   [] dt \in {"F32", "I32"} -> 4
                   [] dt \in {"F16", "BF16", "I16"} -> 2
                   [] dt \in {"I8", "U8", "Bool"} -> 1

\* The product of all axes after the k-th, from the last one.
Spans(shape) ==
  LET acc[k \in 0 .. Len(shape)] ==
        IF k = Len(shape) THEN 1 ELSE shape[k + 1] * acc[k + 1]
  IN  acc
Product(shape) == Spans(shape)[0]

\* C-contiguous strides, and the test of them that ignores axes of size 1.
Strides(shape) == [k \in DOMAIN shape |-> Spans(shape)[k]]

IsContiguous(shape, stride) ==
  /\ Len(shape) = Len(stride)
  /\ \A k \in DOMAIN shape : shape[k] # 1 => stride[k] = Spans(shape)[k]

RawTensor(dt, shape, data) == [dt |-> dt, shape |-> shape, data |-> data]

\* The bytes of a storage of n elements, and a slice of bytes.
BytesOf(key, dt, n) == [b \in 1 .. n * DTypeSize(dt) |-> <<key, b>>]
SliceFromStart(bytes, begin, n) == SubSeq(bytes, 1, n)
Slice(bytes, begin, n) == SubSeq(bytes, begin + 1, begin + n)

\* What a tensor to be saved is: its shape and strides are int64, and its bytes
\* those of its elements.
IsRawTensor(t) ==
  /\ t = RawTensor(t.dt, t.shape, t.data)
  /\ t.dt \in Range(DTypeOf)
  /\ IsList(t.shape)
  /\ \A k \in DOMAIN t.shape : t.shape[k] \in Nat /\ t.shape[k] < Power[8] \div 2
  /\ \A k \in 0 .. Len(t.shape) : Spans(t.shape)[k] < Power[8] \div 2
  /\ IsList(t.data) /\ Len(t.data) = Product(t.shape) * DTypeSize(t.dt)

\* A StateDict has a list of names that differ.
IsStateDict(sd) ==
  /\ IsList(sd)
  /\ \A i \in DOMAIN sd : sd[i] = <<sd[i][1], sd[i][2]>> /\ IsRawTensor(sd[i][2])
  /\ \A i, j \in DOMAIN sd : sd[i][1] = sd[j][1] => i = j

\* Different numbers have different decimals, and no other entry is named so.
DecimalsDiffer(n) ==
  /\ \A i, j \in 0 .. n - 1 : Decimal(i) = Decimal(j) => i = j
  /\ \A i \in 0 .. n - 1 : Decimal(i) \notin {"data.pkl", "version", "byteorder"}

ASSUME SavedDicts ==
  \A o \in Objects : o.by = "SavePth" => IsStateDict(o.sd) /\ DecimalsDiffer(Len(o.sd))

-----------------------------------------------------------------------------
(* SavePth: the pickle, with nothing memoized. *)

Op(op) == [op |-> op]
OpArg(op, a) == [op |-> op, arg |-> a]

\* The n lowest digits of a number in two's complement.
Digits(k, n) == [d \in 1..n |-> ((k % Power[n]) \div Power[d - 1]) % Base]

\* The fewest of eight bytes whose top bit still says that k is not negative.
LongBytes(k) == IF k < 0 THEN 8
                ELSE CHOOSE n \in 1..8 : /\ k < Power[n] \div 2
                                         /\ n = 1 \/ k >= Power[n - 1] \div 2

PutInt(k) ==
  IF k \in 0 .. Base - 1 THEN OpArg("BININT1", Digits(k, 1))
  ELSE IF k \in 0 .. Power[2] - 1 THEN OpArg("BININT2", Digits(k, 2))
  ELSE IF k \in -(Power[4] \div 2) .. Power[4] \div 2 - 1 THEN OpArg("BININT", Digits(k, 4))
  ELSE OpArg("LONG1", Digits(k, LongBytes(k)))

PutInts(shape) ==
  <<Op("MARK")>> \o [k \in DOMAIN shape |-> PutInt(shape[k])] \o <<Op("TUPLE")>>

StorageTypeName(dt) == CHOOSE name \in DOMAIN DTypeOf : DTypeOf[name] = dt

PutTensor(name, t, i) ==
  <<OpArg("BINUNICODE", name), OpArg("GLOBAL", "_rebuild_tensor_v2"),
    Op("MARK"), Op("MARK"), OpArg("BINUNICODE", "storage"),
    OpArg("GLOBAL", StorageTypeName(t.dt)), OpArg("BINUNICODE", Decimal(i)),
    OpArg("BINUNICODE", "cpu"), PutInt(Product(t.shape)), Op("TUPLE"),
    Op("BINPERSID"), PutInt(0)>>
  \o PutInts(t.shape) \o PutInts(Strides(t.shape))
  \o <<Op("NEWFALSE"), Op("EMPTY_DICT"), Op("TUPLE"), Op("REDUCE")>>

\* What pw.out is before each turn of the loop over the keys.
Pickled(sd) ==
  LET out[i \in 0 .. Len(sd)] ==
        IF i = 0 THEN <<Op("PROTO"), Op("EMPTY_DICT"), Op("MARK")>>
        ELSE out[i - 1] \o PutTensor(sd[i][1], sd[i][2], i - 1)
  IN  out
DataPkl(sd) == Pickled(sd)[Len(sd)] \o <<Op("SETITEMS"), Op("STOP")>>

\* The entries in the order they are added: data.pkl, the storages, two marks.
EntryOf(sd, e) ==
  IF e = 0 THEN [name \in {"data.pkl"} |-> DataPkl(sd)]
  ELSE IF e <= Len(sd) THEN [name \in {Decimal(e - 1)} |-> sd[e][2].data]
  ELSE [version |-> "3", byteorder |-> "little"]

\* A name that is added again is the new one.
Over(new, old) ==
  [name \in DOMAIN new \cup DOMAIN old |-> IF name \in DOMAIN new THEN new[name] ELSE old[name]]

LastEntry == Len(obj.sd) + 1

ZipFile(entries, final) == [kind |-> "zip", entries |-> entries, final |-> final]

Idle == /\ buf = <<>> /\ pos = 1 /\ stack = <<>> /\ memo = << >>
        /\ storages = << >> /\ status = "off"
        /\ archive = 0 /\ main = NoResult /\ keys = <<>> /\ types = << >>
        /\ store = << >> /\ pending = <<>> /\ result = <<>>

PthInit ==
  /\ obj \in Objects
  /\ file = IF obj.by = "SavePth" THEN NoFile ELSE obj.file
  /\ phase = IF obj.by = "SavePth" THEN "write" ELSE "saved"
  /\ entry = 0
  /\ Idle

\* ZipWriter::Create
CreateFile == /\ phase = "write" /\ file = NoFile
              /\ \/ file' = ZipFile(<< >>, FALSE) /\ UNCHANGED phase
                 \/ phase' = "save_failed" /\ UNCHANGED file
              /\ UNCHANGED <<obj, entry, loadvars, vmvars>>

\* ZipWriter::Add. After a failure the destructor still finalizes the archive.
AddEntry ==
  /\ phase = "write" /\ file # NoFile /\ entry <= LastEntry
  /\ \/ /\ file' = ZipFile(Over(EntryOf(obj.sd, entry), file.entries), FALSE)
        /\ entry' = entry + 1 /\ UNCHANGED phase
     \/ /\ file' = ZipFile(file.entries, TRUE)
        /\ phase' = "save_failed" /\ UNCHANGED entry
  /\ UNCHANGED <<obj, loadvars, vmvars>>

\* ZipWriter::Finish; the destructor tries again when it failed.
Finish ==
  /\ phase = "write" /\ file # NoFile /\ entry > LastEntry
  /\ \/ file' = ZipFile(file.entries, TRUE) /\ phase' = "saved"
     \/ file' \in {file, ZipFile(file.entries, TRUE)} /\ phase' = "save_failed"
  /\ UNCHANGED <<obj, entry, loadvars, vmvars>>

\* The process ends in the middle of a save.
Crash == /\ phase = "write" /\ phase' = "gone"
         /\ UNCHANGED <<filevars, loadvars, vmvars>>

-----------------------------------------------------------------------------
(* LoadPth *)

Written == phase \in {"saved", "save_failed", "gone"}

Refuse == phase' = "refused"

\* A file, and an archive that has a central directory with data.pkl in it.
Opens == /\ file # NoFile
         /\ file.kind = "zip" => file.final /\ "data.pkl" \in DOMAIN file.entries

OpenFails ==
  /\ Written /\ ~Opens
  /\ Refuse /\ UNCHANGED <<filevars, loadvars, vmvars>>

\* The first bytes tell the two formats apart.
OpenModern ==
  /\ Written /\ Opens /\ file.kind = "zip"
  /\ Start(file.entries["data.pkl"], 1)
  /\ phase' = "pickle" /\ archive' = 4
  /\ UNCHANGED <<filevars, main, keys, types, store, pending, result>>

OpenLegacy ==
  /\ Written /\ Opens /\ file.kind = "legacy"
  /\ Start(file.bytes, 1)
  /\ phase' = "pickle" /\ archive' = 1
  /\ UNCHANGED <<filevars, main, keys, types, store, pending, result>>

RunPickle == /\ phase = "pickle" /\ Execute
             /\ UNCHANGED <<filevars, phase, loadvars>>

FailPickle == /\ phase = "pickle" /\ Fail
              /\ Refuse /\ UNCHANGED <<filevars, loadvars>>

\* NamedTensors
NamedTensors(d) ==
  Among(d.entries, {k \in DOMAIN d.entries :
                      d.entries[k][1].kind = "Str" /\ d.entries[k][2].kind = "Tensor"})

Nested(d) == Among(d.entries, {k \in DOMAIN d.entries : d.entries[k][2].kind = "Dict"})

Canonical(e) == /\ e[1] \in {Str("model"), Str("state_dict"), Str("model_state_dict")}
                /\ NamedTensors(e[2]) # <<>>

\* The dictionary that holds the weights: the root, else the first canonical
\* one, else the first of the richest.
Richest(es) ==
  IF es = <<>> THEN <<>>
  ELSE LET size(k) == Len(NamedTensors(es[k][2]))
           best == CHOOSE k \in DOMAIN es : \A l \in DOMAIN es :
                     size(k) > size(l) \/ (size(k) = size(l) /\ k <= l)
       IN  NamedTensors(es[best][2])

PickTensors(root) ==
  IF NamedTensors(root) # <<>> THEN NamedTensors(root)
  ELSE LET nested == Nested(root)
           canonical == Among(nested, {k \in DOMAIN nested : Canonical(nested[k])})
       IN  IF canonical # <<>> THEN NamedTensors(canonical[1][2]) ELSE Richest(nested)

\* LoadModern: its storages are read from the archive.
ModernRoot ==
  /\ phase = "pickle" /\ status = "stop" /\ file.kind = "zip"
  /\ status' = "off"
  /\ IF Top.kind # "Dict" \/ PickTensors(Top) = <<>>
     THEN Refuse /\ UNCHANGED <<pending, store>>
     ELSE /\ phase' = "tensors" /\ pending' = PickTensors(Top)
          /\ store' = [k \in DOMAIN file.entries \ {"data.pkl", "version", "byteorder"}
                         |-> file.entries[k]]
  /\ UNCHANGED <<filevars, archive, main, keys, types, result,
                 buf, pos, stack, memo, storages>>

\* sys_info that says the bytes are big-endian.
BigEndian(v) == /\ v.kind = "Dict"
                /\ \E k \in DOMAIN v.entries :
                     v.entries[k] = <<Str("little_endian"), Simple("False")>>

ItemsOf(v) == IF v.kind = "Tuple" THEN v.items ELSE <<>>
KeyList(v) == [k \in DOMAIN ItemsOf(v) |-> StorageKey(v.items[k])]
KeysOk(v) == \A k \in DOMAIN ItemsOf(v) : v.items[k].kind \in {"Str", "Int"}

\* LoadLegacyPthBytes: magic, protocol, sys_info, the weights, the storage keys.
NextArchive ==
  /\ phase = "pickle" /\ status = "stop" /\ file.kind = "legacy" /\ archive < 5
  /\ IF (archive = 3 /\ BigEndian(Top)) \/ (archive = 4 /\ Top.kind # "Dict")
     THEN Refuse /\ status' = "off"
          /\ UNCHANGED <<buf, pos, stack, memo, storages, archive, main, types>>
     ELSE /\ Start(buf, pos)
          /\ archive' = archive + 1
          /\ main' = IF archive = 4 THEN Top ELSE main
          /\ types' = IF archive = 4 THEN storages ELSE types
          /\ UNCHANGED phase
  /\ UNCHANGED <<filevars, keys, store, pending, result>>

LastArchive ==
  /\ phase = "pickle" /\ status = "stop" /\ file.kind = "legacy" /\ archive = 5
  /\ status' = "off"
  /\ IF KeysOk(Top)
     THEN phase' = "payload" /\ keys' = KeyList(Top) /\ pending' = PickTensors(main)
     ELSE Refuse /\ UNCHANGED <<keys, pending>>
  /\ UNCHANGED <<filevars, archive, main, types, store, result,
                 buf, pos, stack, memo, storages>>

\* The next storage: its number of elements, then its bytes.
StorageFits == LET nbytes == Token.numel * DTypeSize(types[keys[1]])
               IN  pos + nbytes <= Len(buf)

ReadStorage ==
  /\ phase = "payload" /\ keys # <<>>
  /\ IF pos <= Len(buf) /\ keys[1] \in DOMAIN types /\ StorageFits
     THEN LET nbytes == Token.numel * DTypeSize(types[keys[1]])
          IN  /\ store' = (keys[1] :> SubSeq(buf, pos + 1, pos + nbytes)) @@ store
              /\ pos' = pos + 1 + nbytes /\ keys' = Tail(keys) /\ UNCHANGED phase
     ELSE Refuse /\ UNCHANGED <<store, pos, keys>>
  /\ UNCHANGED <<filevars, archive, main, types, pending, result,
                 buf, stack, memo, storages, status>>

StoragesRead == /\ phase = "payload" /\ keys = <<>>
                /\ phase' = "tensors"
                /\ UNCHANGED <<filevars, loadvars, vmvars>>

\* One tensor: a slice of its storage, once its shape and extent are checked
\* (the cap of 10^9 elements is not reached).
Extent(t) == Product(t.shape) * DTypeSize(t.dt)
TensorFits(t) ==
  /\ IsContiguous(t.shape, t.stride)
  /\ \A k \in DOMAIN t.shape : t.shape[k] >= 0
  /\ t.s \in DOMAIN store
  /\ t.i * DTypeSize(t.dt) + Extent(t) <= Len(store[t.s])

TakeTensor ==
  /\ phase = "tensors" /\ pending # <<>>
  /\ LET name == pending[1][1].s
         t == pending[1][2]
     IN  IF TensorFits(t)
         THEN /\ result' = Set(result, name,
                   RawTensor(t.dt, t.shape,
                             Slice(store[t.s], t.i * DTypeSize(t.dt), Extent(t))))
              /\ pending' = Tail(pending) /\ UNCHANGED phase
         ELSE Refuse /\ UNCHANGED <<result, pending>>
  /\ UNCHANGED <<filevars, archive, main, keys, types, store, vmvars>>

\* A legacy file without any tensor is refused only here.
Return == /\ phase = "tensors" /\ pending = <<>>
          /\ phase' = IF result = <<>> THEN "refused" ELSE "loaded"
          /\ UNCHANGED <<filevars, loadvars, vmvars>>

Save == CreateFile \/ AddEntry \/ Finish \/ Crash

Load == \/ OpenFails \/ OpenModern \/ OpenLegacy \/ RunPickle \/ FailPickle
        \/ ModernRoot \/ NextArchive \/ LastArchive \/ ReadStorage
        \/ StoragesRead \/ TakeTensor \/ Return

PthNext == Save \/ Load

PthSpec == PthInit /\ [][PthNext]_pthvars

-----------------------------------------------------------------------------
(* Properties *)

\* What the weights of the file are; NoResult when it must be refused.
Expected == IF obj.by = "SavePth" THEN obj.sd ELSE obj.expect

\* Whatever was interrupted, failed, memoized, shared or wrapped: a load that
\* succeeds returns exactly the tensors that were saved, in their order. Half
\* a checkpoint is never taken for a whole one.
LoadedIsSaved == phase = "loaded" => result = Expected

\* Every byte of the weights is in the file.
Whole == IF obj.by = "SavePth"
         THEN /\ file # NoFile
              /\ file.final
              /\ \A e \in 0 .. Len(obj.sd) : DOMAIN EntryOf(obj.sd, e) \subseteq DOMAIN file.entries
         ELSE obj.whole

\* A file that holds all the weights, in either format, is never refused,
\* whatever widths its integers needed.
WholeFilesLoad == phase = "refused" => (~Whole) \/ Expected \in {<<>>, NoResult}
=============================================================================
