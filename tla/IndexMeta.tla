-------------------------------- MODULE IndexMeta --------------------------------
(***************************************************************************)
(* What an index is made of, from the options of CREATE INDEX to the       *)
(* metadata that later sessions read (meta_page.rs, options.rs,            *)
(* vector_type.rs, storage.rs), in the current format and in those of      *)
(* older versions.  What may fail has a set for its result: one member, or *)
(* none where the code raises an error.                                    *)
(***************************************************************************)
EXTENDS Integers

CONSTANTS
  NoPointer,    \* an invalid ItemPointer
  NoRoots,      \* start_nodes is None
  MinNeighbors,     \* the fewest neighbors the options allow (10)
  UsualNeighbors    \* how many there are without the option (50)

MaxDimension      == 16000  \* MAX_DIMENSION
MaxDimensionPlain == 2000   \* MAX_DIMENSION_NO_SBQ
CurrentVersion    == 3      \* TSV_VERSION

\* Sentinels of the options: "use the default".
DefaultNeighbors  == -1
DefaultDimensions == 0
DefaultBits       == 0

\* StorageType::from_str; no layout given means memory_optimized.
StorageOf(layout) ==
  CASE layout = "plain" -> {"Plain"}
    [] layout \in {"default", "memory_optimized", "bq_compression"} -> {"SbqCompression"}
    [] OTHER -> {}

\* The byte that stands for it on the page; 1 was another layout.
StorageByte(storage) == IF storage = "Plain" THEN 0 ELSE 2

\* StorageType::from_u8
StorageOfByte(byte) == CASE byte = 0 -> {"Plain"} [] byte = 2 -> {"SbqCompression"} [] OTHER -> {}

\* dimension_from_typmod
Dimensions(typmod) == {d \in {typmod} : d >= 1 /\ d <= MaxDimension}

\* ensure_valid_dimensions
ValidDimensions(all, indexed) ==
  /\ all >= 1 /\ all <= MaxDimension
  /\ indexed >= 1 /\ indexed <= all

--------------------------------------------------------------------------------
(***************************************************************************)
(* CREATE INDEX                                                            *)
(***************************************************************************)

\* get_num_neighbors and calculate_num_neighbors
NeighborsOf(option) ==
  IF option = DefaultNeighbors THEN {UsualNeighbors} ELSE {n \in {option} : n >= MinNeighbors}

DimensionsToIndex(option, all) == IF option = DefaultDimensions THEN all ELSE option

BitsOf(option, storage, indexed) ==
  IF option # DefaultBits THEN option
  ELSE IF storage = "SbqCompression" /\ indexed < 900 THEN 2 ELSE 1

\* The checks of create, before it writes the page.
Storable(storage, all, indexed, bits) ==
  /\ ValidDimensions(all, indexed)
  /\ bits > 1 => indexed <= 930 /\ storage = "SbqCompression"

\* The checks of get_meta_page, before and after.
Supported(column, storage, indexed) ==
  storage = "Plain" =>
    /\ column.distance # "InnerProduct"
    /\ indexed <= MaxDimensionPlain
    /\ ~column.labels

\* create without a look at the dimensions to index.
CreateUnchecked(column, option) ==
  {[version |-> CurrentVersion, storage |-> StorageByte(s), distance |-> column.distance,
    dims |-> d, indexed |-> DimensionsToIndex(option.dims, d),
    bits |-> BitsOf(option.bits, s, DimensionsToIndex(option.dims, d)),
    neighbors |-> n, labels |-> column.labels, roots |-> NoRoots, quantizer |-> NoPointer] :
     s \in StorageOf(option.layout), d \in Dimensions(column.typmod), n \in NeighborsOf(option.neighbors)}

\* get_meta_page with create: an error in either ends CREATE INDEX.
Create(column, option) ==
  {m \in CreateUnchecked(column, option) :
     \A s \in StorageOfByte(m.storage) :
       Storable(s, m.dims, m.indexed, m.bits) /\ Supported(column, s, m.indexed)}

--------------------------------------------------------------------------------
(***************************************************************************)
(* Page 0                                                                  *)
(***************************************************************************)

\* store: the current format, whatever format the metadata was read in.
StoredMeta(m) == [type |-> "Meta", meta |-> m]

\* From<&MetaPageV1>: one kind of index, with no quantizer of its own.
OfV1(page) ==
  {m \in {[version |-> CurrentVersion, storage |-> StorageByte("Plain"), distance |-> "L2",
           dims |-> page.dims, indexed |-> page.dims, bits |-> 1, neighbors |-> page.neighbors,
           labels |-> FALSE, roots |-> page.root, quantizer |-> NoPointer]} : ~page.pq}

\* From<MetaPageV2>: no labels yet, and one root.
OfV2(page) ==
  {[version |-> CurrentVersion, storage |-> page.storage, distance |-> page.distance,
    dims |-> page.dims, indexed |-> page.indexed, bits |-> page.bits, neighbors |-> page.neighbors,
    labels |-> FALSE, roots |-> page.root, quantizer |-> page.quantizer]}

\* fetch
Fetch(page) ==
  {m \in (CASE page.type = "MetaV1" -> OfV1(page.meta)
            [] page.type = "MetaV2" -> OfV2(page.meta)
            [] page.type = "Meta"   -> {page.meta}
            [] OTHER -> {}) :
     ValidDimensions(m.dims, m.indexed)}

\* get_quantizer_metadata_pointer
QuantizerPointer(m) ==
  {p \in {m.quantizer} : p # NoPointer /\ StorageOfByte(m.storage) = {"SbqCompression"}}
================================================================================
