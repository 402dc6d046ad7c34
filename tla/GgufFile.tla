------------------------------- MODULE GgufFile -------------------------------
(***************************************************************************)
(* The GGUF reader.  A file is read twice: read_gguf_file makes an index   *)
(* of its metadata and tensors, GgufMappedData::open maps it again later   *)
(* for the tensors' bytes.  On disk a file is a record                     *)
(*   [version, metadata, tensors, indexEnd, size]                          *)
(* with metadata a function from keys to values, tensors a sequence of     *)
(* [name, shape, type, offset] and indexEnd the bytes before the data.     *)
(*                                                                         *)
(* ProductWrapping is a mistake the code could contain; no definition uses *)
(* it.                                                                     *)
(***************************************************************************)
EXTENDS Integers, Sequences, FiniteSetsExt, TLC

CONSTANTS
  MaxWord,            \* the largest 64-bit value
  Invalid             \* what a failed check returns

ASSUME WordAssumption == MaxWord \in Nat /\ Invalid \notin Int

DefaultAlignment == 32

(* ggml_type_layout: elements and bytes of a block of each tensor type.     *)
TypeLayout ==
  [type \in {0, 1, 8, 12, 13, 14, 30} |->
     CASE type = 0 -> [block |-> 1, bytes |-> 4]
       [] type = 8 -> [block |-> 32, bytes |-> 34]
       [] type = 12 -> [block |-> 256, bytes |-> 144]
       [] type = 13 -> [block |-> 256, bytes |-> 176]
       [] type = 14 -> [block |-> 256, bytes |-> 210]
       [] OTHER -> [block |-> 1, bytes |-> 2]]

(* The number of elements of a shape in unbounded arithmetic.               *)
Elements(shape) ==
  LET p[i \in 0..Len(shape)] == IF i = 0 THEN 1 ELSE p[i - 1] * shape[i]
  IN p[Len(shape)]

ProductWrapping(shape) ==
  LET p[i \in 0..Len(shape)] ==
        IF i = 0 THEN 1 ELSE (p[i - 1] * shape[i]) % (MaxWord + 1)
  IN p[Len(shape)]

(* product: the dimensions are multiplied one by one, each multiplication   *)
(* checked against the word before it is made.                              *)
Product(shape) ==
  LET p[i \in 0..Len(shape)] ==
        IF i = 0 THEN 1
        ELSE IF p[i - 1] = Invalid THEN Invalid
        ELSE IF shape[i] # 0 /\ p[i - 1] > MaxWord \div shape[i] THEN Invalid
        ELSE p[i - 1] * shape[i]
  IN p[Len(shape)]

(* tensor_nbytes *)
ByteSize(tensor) ==
  LET elements == Product(tensor.shape)
      layout == TypeLayout[tensor.type]
      blocks == elements \div layout.block
  IN IF tensor.type \notin DOMAIN TypeLayout \/ elements = Invalid THEN Invalid
     ELSE IF elements % layout.block # 0 \/ blocks > MaxWord \div layout.bytes
     THEN Invalid
     ELSE blocks * layout.bytes

AlignUp(value, alignment) ==
  LET padding == (alignment - (value % alignment)) % alignment
  IN IF alignment = 0 \/ value > MaxWord - padding THEN Invalid ELSE value + padding

(* An absent key, or one whose value has another type, leaves the default.  *)
Meta(metadata, key, default) ==
  IF key \in DOMAIN metadata THEN metadata[key] ELSE default

DataOffset(file) ==
  AlignUp(file.indexEnd, Meta(file.metadata, "general.alignment", DefaultAlignment))

(* The checks of a tensor's place: first its offset, then its bytes.        *)
InsideFile(file, tensor) ==
  LET data == DataOffset(file)
      bytes == ByteSize(tensor)
  IN /\ tensor.offset <= file.size - data
     /\ bytes # 0 => bytes <= file.size - (data + tensor.offset)

Readable(file) ==
  /\ file.version \in 2..3
  /\ \A i \in DOMAIN file.tensors :
       /\ Len(file.tensors[i].shape) \in 1..4
       /\ ByteSize(file.tensors[i]) # Invalid
  /\ DataOffset(file) # Invalid
  /\ DataOffset(file) <= file.size
  /\ \A i \in DOMAIN file.tensors : InsideFile(file, file.tensors[i])

(* find_gguf_tensor, and the indexes by name, keep the first of a name.     *)
FirstOfName(tensors) ==
  [name \in {tensors[i].name : i \in DOMAIN tensors} |->
     Min({i \in DOMAIN tensors : tensors[i].name = name})]

(* read_gguf_file *)
Index(file) ==
  [metadata |-> file.metadata,
   size |-> file.size,
   named |-> FirstOfName(file.tensors),
   tensors |->
     [i \in DOMAIN file.tensors |->
        LET t == file.tensors[i]
        IN [name |-> t.name, shape |-> t.shape, type |-> t.type,
            bytes |-> ByteSize(t), at |-> DataOffset(file) + t.offset]]]

Tensor(index, name) == index.tensors[index.named[name]]

HasTensor(index, name) == name \in DOMAIN index.named

HasShape(index, name, shape) ==
  HasTensor(index, name) /\ Tensor(index, name).shape = shape

(* GgufMappedData::open: the file that is mapped has the size of the index. *)
Mappable(index, onDisk) == onDisk.size > 0 /\ onDisk.size = index.size

(* GgufMappedData::tensor_bytes *)
BytesInside(tensor, size) ==
  tensor.at <= size /\ tensor.bytes <= size - tensor.at

=============================================================================
