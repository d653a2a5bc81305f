# Verification of jeff-mlir

TLA+ models of `jeff-mlir`, an MLIR dialect for quantum programs: its
translation to and from the `jeff` exchange format (Cap'n Proto), the
conversions to and from the native dialects of MLIR, its custom syntax, its
canonicalization, the storage of metadata and the files programs are kept in.

All of it is sequential; a call runs to its end in one thread. What is hard is
bookkeeping over long walks: indices handed out on first use, tables that are
written after what fills them, results that are numbered in one order and bound
in another, failures that must survive the rest of the walk, and the agreement
of two programs about one representation: writer and reader about the message
and its fields, printer and parser about what a text leaves out, two passes
about the types of their values, getters and setters about attributes that
anyone can write, a load about what a save has left behind when it died.

## Inventory

| Component | State | Operations | What makes it correct | Status |
|---|---|---|---|---|
| Writer, `serialize` | `SerializationContext`: `values`, `funcs`, `stringIds`, `strings`, `result`; the message | module, function, region, operation, value table, metadata | indices dense and defined before use; names and calls resolve; failures reported; the call ends and does not abort | modelled, proved |
| Reader, `deserialize` | `DeserializationContext`: `values`, `funcs`, `strings`, `jeffValues`, `result`; the module under construction, the insertion point | signatures, bodies, blocks, operations, metadata, verification | operands, calls and metadata are those of the message, from any producer; the call ends | modelled, proved |
| Gate handlers | loop counters, collected operands | well-known, custom, Pauli product gates | the groups of operands are found again | modelled, proved |
| Qubit, register, int, float, array handlers | - | one handler per kind and direction | values keep their types | partly: payloads of constants left out; proved |
| Type encoding | - | `serializeType`, `deserializeType` | types keep base, width, length | modelled, proved |
| Metadata storage (`Metadata.cpp`) | attribute arrays on operations | `getMetadata`, `setMetadata` of operations, regions, results, arguments | one owner's entries never disturb another's; invalid storage is refused | modelled, proved |
| Metadata payloads (`Metadata.cpp`) | the payloads of a list, the string table | framing, unpacking, text payloads, name indices | a list keeps its meaning or is refused | modelled, proved |
| Verifiers (`JeffOps.cpp`, `.td`) | - | `verify`, `verifyRegions`, gate interfaces | accept what the docs allow | partly: generated ones as the types they allow |
| Parsers, printers, verifiers of switch, for, while | parser state | `parse`, `print`, `verifyRegions` | printing and parsing agree | modelled, proved |
| Type syntax of the dialect | - | `QuregType::parse`, `print` | the text of a type is read as that type | partly: registration has no state |
| Canonicalization (xor to not) | use lists | one rewrite under the greedy driver | keeps the value computed, leaves no dangling operand, ends | modelled, proved |
| Conversions native to jeff and back | rewriter, type converter | one pattern per operation | keep values; refuse what does not fit; what they make fits together | modelled, proved |
| Files and buffers | the file, the buffer | open, write, size check, load | no program is read that was not stored; failures are reported | modelled, proved |
| `jeff-opt` | - | - | - | not modelled: no logic of its own |

How they interact: `serialize` calls the handlers through `serializeOperation`,
the handlers call `getValueId` and, for operations with regions,
`serializeOperation` again; metadata is fetched through `getMetadata` and
encoded through `Metadata.cpp` with the string table of the context.
`deserialize` mirrors this through `setValue` and `getValue`; it ends with
`mlir::verify`, so the verifiers decide which rebuilt modules are returned.
`serializeToFile` encodes in memory, then opens, then writes;
`deserializeFromFile` maps whatever it finds. Conversions, canonicalization and
syntax meet each other and the translation only in the modules they produce or
consume; `jeff-opt` runs any of them in any order.

The hazards of this code, with the line of each and the properties that would
notice it, are in `PROJECT.json`.

## Modules

| Module | Models |
|---|---|
| `Numbering` | numbering by first use, in closed form: `getValueId` and the registration of names |
| `JeffFormat` | the two representations: items of a walk, functions, messages |
| `Serialize` | the writer; extends `JeffFormat` |
| `Deserialize` | the reader; extends `JeffFormat` |
| `Exchange` | abstract: a module that is sent is delivered unchanged |
| `RoundTrip` | writer and reader composed; implements `Exchange` |
| `Gates` | one gate through the gate handlers of both sides |
| `Instructions` | straight-line code and the types of its values through the other handlers |
| `TypeEncoding` | one type through file and text, any number of times |
| `MetadataMap` | abstract: a map from owners to lists of entries |
| `MetadataStorage` | getters and setters over attributes; implements `MetadataMap` |
| `MetadataPayload` | one list of entries through a message, any number of times; its string table is a `Numbering` |
| `Metadata` | storage and payload side by side |
| `Arithmetic` | typed values and what operations compute, for the next four |
| `NativePatterns` | the patterns of `native-to-jeff` as functions of the operands |
| `NativeToJeff` | the pass on any straight-line native program |
| `JeffToNative` | the opposite pass on any jeff program, and `native-to-jeff` on its result |
| `Canonicalize` | the rewrite of xor to not under a driver with any order |
| `RegionSyntax` | text and verification of switch, for and while |
| `FileStore` | abstract: a path that holds a program or none |
| `FileExchange` | files and buffers, with failures and death at any step; implements `FileStore` |
| `NumberingProofs` | lemmas about `Numbering` |
| `SerializeProofs` | theorems about `Serialize` |
| `DeserializeProofs` | theorems about `Deserialize`; lemmas about what it makes of a message of the writer |
| `RoundTripProofs` | theorems about `RoundTrip` |
| `FormatProofs` | theorems about `Gates`, `TypeEncoding`, `FileExchange`, `Instructions` |
| `MetadataProofs` | theorems about `Metadata` |
| `ArithmeticProofs` | lemmas about `Arithmetic` and `NativePatterns` |
| `PassesProofs` | theorems about `JeffToNative`, `NativeToJeff`, `RegionSyntax`, `Canonicalize` |
| `MC...` | instances for TLC |
| `MCFormat`, `MCPasses` | components that share no state, side by side |

`Metadata`, `MCFormat` and `MCPasses` put components next to each other that do
not interact while they run: a behaviour is one of one component, chosen by
`active`, while the others rest in a state of their own. `Metadata` holds the
storage and the encoding of metadata, `MCFormat` what a message is made of and the
file it is kept in, `MCPasses` what `jeff-opt` can be asked to do.

### How state and actions correspond to the code

*Walk order.* Writer and reader traverse a function depth first. A body is
therefore a sequence of items in walk order: `"enter"` (block arguments,
region metadata), operations, `"leave"` (terminator). An SSA value is
`<<f, i, k>>`, the k-th definition of item i of function f.

*Serialize.* The body of the module is chosen while it is visited: the next
operation is any shape of the constant `OpShapes` over operands that are
visible (regions are isolated from above) and well typed, which is what the
verifier guarantees of the module handed to `serialize`. `program` records the
choice, `message` what is written. One action is one handler up to its next
recursive call: `SerializeModule`, `BeginFunction`, `EnterRegion`,
`SerializeFlatOp`, `SerializeCustom`, `SerializeCall`, `SerializeScf` (inputs
and results of an operation with regions; its regions follow), `LeaveRegion`,
`SerializeValue` (one entry of the value table), `FinishModule`. The aborts are
actions too: `FunctionNameMissing`, `CustomNameMissing` (`report_fatal_error`,
status `"fatal"`) and `EnterAbsentRegion` (`region.front()` of a region without
a block, status `"undefined"`). `SerializeMetadata` models
`SerializationContext::serializeMetadata` with its early returns: nothing after
a failure, no names from malformed storage, names registered before a payload
turns out unsound. Here malformed storage is one model value and a payload a
boolean; what they stand for is in `MetadataStorage` and `MetadataPayload`.

*Deserialize.* The message is a constant, any value of the set `Files`. Its
bodies are trees in walk order (`WellNested`), for a region is part of its
operation in the message; everything else about it is free. The
checks of each handler are listed in the order the code makes them; the first
that fails decides whether the call throws (`"rejected"`) or uses an index it
did not check (`"undefined"`: Cap'n Proto list access and `getArgument` check
in debug builds only). Otherwise the action builds the operation, binds the
outputs and attaches metadata, with `ctx.result` as in the code. `verifies`
accumulates what `mlir::verify` will say: operands visible and of the right
types, yields of a switch (not of for and while, whose verifiers do not look),
returns, unique symbols. `FinishScf` is the end of the handlers of switch, for
and while: results are bound after the blocks, and the operation found at
`std::prev(getInsertionPoint())` gets the metadata.

*Gates.* An operand is its group and place. `ReadControl` and `BindControl` are
one turn of the two loops; the counter of a well-known gate is `% U8`.

*Instructions.* The types an operation may have are tables translated from the
operation definitions (`QuregResults`, ...); the types the reader gives are the
operators `...Rebuilt`. A 17-valued tag that both sides map one to one is one
kind.

*TypeEncoding.* `SerializeType` and `DeserializeType` are the functions of the
same names, `PrintQureg` and `ParseQureg` the custom syntax. A width is stored
modulo `WidthLimit`, a length modulo `LengthLimit`.

*MetadataStorage.* The five attributes are fields of `attrs`; an array that is
empty stands for one of empty lists, as in the code. Each overload of
`setMetadata` is an action that reads the array, replaces an element and writes
back, removes an attribute that has become empty, or fails without writing;
`called` and `failed` record the owner and the list of the call and its result.
`Get` is what the overloads of `getMetadata` return, failure included. The
refinement maps every owner to what `Get` says of it.

*MetadataPayload.* A payload is what the code can tell apart about its bytes:
whether they are a whole number of words, whether the framed message is sound,
its segments, words after it, its root. `SerializeMetadata` and
`DeserializeMetadata` are one trip; `StoreText` is a caller that sets an entry to a text payload, and
`given` remembers the texts that were set.

*NativePatterns, NativeToJeff, JeffToNative.* A pattern is an operator from
adaptor operands to an outcome: replaced by a value of a type, refused,
`"invalid"` (the verifier after the pass reports it) or `"undefined"`. A value of
the program is a tuple of what it was and what stands in its place, so that one
behaviour runs both programs. The dialect relates neither the operands of select,
`set_index` and `create` nor their results to each other: operands that differ are
modelled (the native operation is `"invalid"`), results that do not follow from
the first operand are not, as the native operations infer theirs. Actions pick any next operation over the values so
far, as long as the source program has no undefined behaviour. Integers have
their width; floats are terms, as no pattern computes with them.

*Canonicalize.* `results` are the values of the block in an execution, before any
rewrite. `XorToNot(i)` is `matchAndRewrite` for operation i: create the
not, replace all uses, erase the constant if that was its last use. `EraseDead`
is the driver's, for constants, the only operations of these that are `Pure`; the
order of visits is free.

*RegionSyntax.* A value is its type. `PrintOperation` leaves out of the text what
the printers leave out (argument types, terminators without operands, the
default of a switch in another place); `ParseText` puts it back or refuses;
`Verify` is `verify` and `verifyRegions`. The starting point is any text, or any
operation the generic syntax can state.

*FileExchange.* `Save` is the call, `SerializeToFile` one step of it: encode,
open (which truncates), one write of any number of bytes or a failure. `Die` ends
the process between any two. Bytes know where they come from, so that a file is a
message exactly if all its bytes are there.

## Runs

| Run | Shows | Bounds |
|---|---|---|
| `serialize` | indices are dense, defined before use, unique, complete in the value table; string and function indices resolve; failure is reported exactly for flawed metadata; the walk ends | two functions, 3 operations: a region in a region, a value used in both functions, repeated, missing and added strings, callees before and after, flaws at module, function, operation and result; `U16 = 4`, so that tables fill up |
| `serialize_aborts` | *finding 1* | the second family of modules of `serialize` |
| `serialize_default` | *finding 2* | a switch without default |
| `deserialize` | operands, metadata, calls of a returned module are those of the message; reading ends | two well-formed messages (calls; nested loops) and every message that differs in a single field, one with more functions than indices (`U16 = 2`) |
| `deserialize_yields` | *finding 3* | as above |
| `round_trip` | the string table is stable; `RoundTrip` implements `Exchange`: what is written is accepted and comes back unchanged | 2 operations with metadata at every kind of owner, two orders of functions, two string lists |
| `format` | operands and results of a gate are restored; types of straight-line code are restored and the block is accepted, and where results do not follow from operands values keep their classes; a type that fits is kept, whatever a type becomes is stable; `FileExchange` implements `FileStore`, flawed modules leave the file alone, saves end | all gates with up to 3 targets, 3 controls, 3 parameters, `U8 = 4`; 2 operations over 7 arguments of all base types; types below, at and beyond the limits of their fields; three programs of 4 to 6 bytes, contents of other producers |
| `gates_wrap` | *finding 4* | the gates of `format` |
| `metadata` | storage implements a map from owners to lists, call by call, and keeps its form; nothing is unread; the text stored is the text read; a list keeps its meaning, is refused if malformed, and settles after one trip | a loop, a function and a flat operation with every form of each attribute; lists of up to 2 entries with payloads of every form, string tables of up to 2 |
| `metadata_invalid` | *finding 5* | the operations of `metadata` |
| `passes` | conversions keep values and types, and one undoes the other; text and operation agree; canonicalization keeps values and operands and ends | native programs of 5 values, jeff programs of 8, i32 of 3 bits and i64 and index of 4; switches with up to 2 cases, loops with up to one carried value; blocks with three xors |
| `native_mixed_casts` | *finding 6* | native programs of 4 values with casts from i64 |

Why the bounds are enough: numbering depends on first and repeated use, on
order and on nesting, all of which happen with three operations and two
functions; the string table with its four names can repeat, miss, add and
overflow; a type inferred from an inferred type needs two operations. The
widths (`U16`, `U8`, `WidthLimit`, `LengthLimit`) are parameters; small values
put the limits within reach. `Memory` bounds the vector of controls so that the
run of finding 4 is finite. `round_trip` uses the real `U16`: overflow is the
business of `serialize`.

A conversion pattern sees its operands only, so programs need no more values
than the longest chain in which a type or a constant is passed on: a constant, a
cast, an operation on both. With 3 and 4 bits there are values that fit one
width and not the other, negative ones, and shifts beyond a width. A setter
touches one array, so two owners per array show whether one disturbs the other.
Text has a first, a middle and a last case or none, and operands with and without
results of that type. A rewrite needs a constant used twice, two xors of one
constant, and an xor of an xor. A message of two words of two bytes can be cut
within and between words.

In `serialize`, each of two families of modules meets the operations meant for
it (`FamilySpec`): one nests regions, the other varies names and flaws.

Deadlock is not checked: all of these systems end, by design.

*Liveness and fairness.* `Terminates`, `ReaderTerminates`, `GateRead` and the
delivery in `ImplementsExchange` assume weak fairness of the next-state
relation: a call that has been made keeps running. `SavesEnd` assumes it of
`SerializeToFile`: the saving process runs on, and the operating system answers
each write with at least a byte or a failure; nothing is assumed of `Die` or of
other calls. `Canonical` assumes that the greedy driver goes on while a pattern
applies or an operation is dead. In the runs that put components side by side,
fairness is that of the component that is active.

Every property of a passing run has a mutant in `PROJECT.json`, a plausible slip
in the code modelled (an index taken after the insertion, a table not cleared, a
file opened without truncation, swapped operands), that violates it.

## Findings

1. `getStringId` ends the process (`report_fatal_error`) when a name is not in
   `jeff.strings`, while `Serialize.hpp` promises success or a diagnosed
   failure. The CHANGELOG of 0.4.0 removed such an abort elsewhere "for the same
   reason" it applies here.
2. A switch without a default region is legal, and is what the reader makes of a
   message without one, but `serializeSwitch` writes the default
   unconditionally and takes the first block of an empty region.
3. The documentation of `jeff.for` says its yield matches `in_values`; no
   verifier checks it, so such a module is returned by `deserialize`. The while
   loop is alike.
4. The control loops of well-known gates count in a `uint8_t` up to
   `1 + numControls`; at 255 controls (254 for a swap) they do not end.
5. `Metadata.hpp` says of the setter of an operation that invalid storage is
   diagnosed and yields failure; the code does not look at what is there and
   overwrites an attribute that is not an array. The setter of function
   arguments does the same; those of regions, results and block arguments refuse.
6. `NativeToJeff.td` says that the created operations are compatible with each
   other; an index cast from a type other than i32 is dropped like one from i32,
   and an operation on its result and an index constant has operands of two
   types.

Seen while modelling, and not stated as properties:

- the results of `select`, `get_index`, `set_index` and array `create` are not
  constrained by the dialect, but inferred by the reader from operands (hence
  the hypothesis `ResultsFollow`); reading an array created from no element
  reads `inputs[0]`;
- a Pauli number outside 0..3 aborts the writer; metadata of terminators is not
  written; the width of an integer type is written in 8 bits (i264 as i8);
- index constants below the range of int32 are cut, not refused
  (`NativeToJeff.cpp:96`), and casts between index and other integer types lose
  their extension or truncation (`NativeToJeff.cpp:522`), hence the hypothesis of
  `ValuesKept` that indices fit;
- the comparisons `ne`, `sgt`, `sge`, `ugt`, `uge` and `tensor.cast` are refused,
  although `NativeToJeff.td:14` and `:65` list them as supported;
- a jeff comparison of two widths becomes an `arith.cmpi` the verifier refuses
  (`JeffToNative.cpp:137`); an array created from
  no elements makes a `tensor.from_elements` whose builder takes its type from
  the first operand (`JeffToNative.cpp:454`);
- the yields of a while are not verified (`JeffOps.cpp:631`), and the verifier of
  a for reads the first block argument of a body that, in generic syntax, may
  have none (`JeffOps.cpp:467`).

## Proofs

Every theorem holds for all values of the constants, under the assumptions named
in the modules (`ConstantsAssumption`, `FormatAssumption`, `SignatureAssumption`,
`SymbolsAssumption`, `FilesAssumption`, `TablesAssumption`, `VerifiedAssumption`, `GatesAssumption`,
`InstructionsAssumption`, `ProgramsAssumption`, `OthersAssumption`,
`TypesAssumption`, `AtomsAssumption`, `ArgumentsAssumption`,
`OperationsAssumption`, `RootsAssumption`, `EntriesAssumption`,
`MessagesAssumption`, `SyntaxAssumption`, `WidthAssumption`,
`ParametersAssumption`, `KindsAssumption`, `ExecutionsAssumption`), which say no more than what kind of thing a constant is,
that values which stand for different things differ and that widths are not
degenerate, with seven exceptions. `SymbolsAssumption`: the functions of a module handed to
`serialize` have different names, for a `ModuleOp` is a symbol table and its
verifier sees to it. `FilesAssumption`: the items of a function of a message are
those of a tree in walk order, which is what a Cap'n Proto message is by its form.
`VerifiedAssumption`: the operations `serialize` meets have the operands, results
and block arguments their definitions and verifiers demand, and a gate and a call
are the only ones that name something.
`OperationsAssumption`: an operation is a `func.func`, with one region, as many
argument attributes as that has arguments, and no results, or it has no argument
attributes, for `setArgAttr` is a method of functions only.
`ParametersAssumption`: the arguments of a jeff program have values of their
types, and sizes an index can count. `ExecutionsAssumption`: operands come before
their users and have the width of the xor that uses them, as the verifier demands,
and the values of a block satisfy its operations. `WidthAssumption` states, next to the order
of the widths, the equation 2^(k + 1) = 2 * 2^k up to the larger one: it holds of
every number, but exponentiation has no definition the provers know, and this is
the one fact about it the proofs need. TLC evaluates all of them.

### The writer

- `IndicesDense`: `Spec => []ValueIdsDense`. The loop that turns `ctx.values`
  into an array fills every slot once.
- `TypeCorrect`: `Spec => []TypeOK`, which says more than it seems: that every
  input of an item has an index, that a string or function index is within its
  width, and that a value is found for every index of the value table.
- `FailuresReported`: `Spec => []FailureReported`. A call that runs to its end
  returns failure if, and only if, some metadata is flawed.
- `MessagesReadable`: `Spec => []MessageReadable`. An index is defined once,
  before it is used, and the value table has exactly the indices defined.
- `NamesResolved`: `Spec => []IndicesResolve`. In a complete message every string
  index leads to the string meant, every call index to the function called.

The heart of the first is `NumberingProofs`. The rank of a new element, the
number of new elements met before it, is below the number of new elements
(`RankBelow`, a proper subset is smaller), grows with the place (`RankGrows`),
and is therefore one to one and, between finite sets of one size, onto
(`RankBijective`); so entering a list into a dense table, starting at its size,
leaves it dense (`EnterDense`). `ValueIdsDense` alone is inductive only where
the operands are lists; the invariant `Inv` adds this (`Walk`: what is visited
and what is to be visited are of their kinds) and that the table is finite.

`TypeOK` is not inductive: that an entry of the value table has a type depends
on its value being defined. `FullInv` adds that values with an index and values
visible in a block are defined by an item of the program (`Scoped`), that every
function of the module has an index once the walk has begun (`FuncTable`), and
that the message has a function for each one visited and no more table entries
than indices (`Encoding`).

`FailureReported` is about the end of the walk, and the metadata of a result is
met only with the value table, after the whole body of its function. `Reporting`
therefore says, next to `FullInv`, what is known on the way: a failure comes from
a flaw already visited; without one, all functions before the current one are
sound, so are the items of the current one, and so are the values whose index is
below the length of the table (`TabledSound`). As every result has an index
(`ResultsNumbered`) and the indices are dense, a full table leaves no result out
(`TableComplete`).

`MessageReadable` needs the link between the message and the program while it is
written: `Mirrored` says that the outputs of item i of the current function are
the indices its results have now and that its inputs were defined by earlier
items, `Visible` that whatever an operation may use has an index. Indices of
different values differ, so an index is defined once (`CurrentReadable`); they
are dense, so a full table has exactly those that are defined
(`CurrentComplete`); and functions that are complete are not touched again.

`IndicesResolve` looks at the finished message and its finished string table,
while each index was handed out with a table that was shorter. `Spelling` says it
of every part of the message as soon as it is written, with the table as it is
then: what was given a place keeps it (`Extends`, `SpellsKept`) because strings
are only appended (`TableGrows`), a name that is entered gets a place that leads
to it, a function named by a call is the one whose name it is (`FunctionIndex`,
unique by `SymbolsAssumption`). All of it under the proviso that the strings fit
16 bits: beyond, indices wrap. The metadata of a result is due only when the
value table has reached its index (`ItemSpelled`), and the functions of the
message fit 16 bits too, since each of them has a name in the table
(`FewFunctions`).

### The reader

`DeserializeProofs` proves, for every set of messages from any producer, whatever
their indices, any number of functions, any nesting of regions and any width of
the indices:

- `ReaderTypeCorrect`: `Spec => []ReaderTypeOK`. What is bound is a value of the
  module, what has a function index is a function.
- `OperandsResolved`: `Spec => []OperandsResolve`. An operand is the definition
  that carries its index, in the same function and before the use.
- `MetadataInPlace`: `Spec => []MetadataPlaced`. Every owner in a returned module
  carries the metadata of the message.
- `CallsResolved`: `Spec => []CallsResolve`. A returned module is complete, and
  its calls call what the message calls.

The last two speak of the module that is returned; what is known before, and is
inductive, is `ReaderInv`. `Signatures` says that functions are rebuilt in order
and that function f + 1 is the one with index f, because `setFunc` refuses the
first index that wraps. `Place` says where the walk is: functions before the
current one are complete, those after it are empty, and the regions still to
come, block by block, are what the items read so far leave open. That is where
the tree comes in: `Nesting` describes the function that `WellNested` defines, so
the reader is at an `"enter"` item exactly when it expects a block, and a body
whose blocks are all closed is at its end (`NextItem`, `BodyComplete`). `Stack`
says that an operation whose regions are read is the last of its block, so the
operation at `std::prev(getInsertionPoint())` is the one whose results are bound
(`ScfFinished`). `Binding` says that an index leads to the definition that
carries it: `setValue` refuses an index that is taken, and the results of an
operation with regions are bound after its regions. `Placed` says that metadata
is in place everywhere but at open regions and unfinished operations, as long as
no metadata failed. For every handler a lemma says what its checks let through
(`FlatPassed`, `SwitchPassed`, ...); where a check is missing, the invariant must
do without, and the actions that leave the language are in `StopInBody`.

### The round trip

`RoundTripProofs` composes writer and reader, for modules of any size, any nesting
of regions, any signature of the flat operations and any metadata:

- `ModuleUnchanged`: `RoundTripSpec /\ []FewStrings => TheExchange!ExchangeSafety`,
  the safety part of `ImplementsExchange`. Whatever module `deserialize` returns
  is the one `serialize` walked: functions, nested operations, operands, calls,
  names, types, metadata of every owner. A flawed module yields no message.
- `StringTableStable`: `RoundTripSpec /\ []FewStrings => []StringsStable`. The names
  of the module are where they were, and no name that occurs is missing.

`FewStrings` says that the strings of a complete message can be counted with the
16 bits of an index. Where a name is registered, its position is narrowed to them
without a check (`Serialize.cpp:74` and `:86`, in the model `% U16`), so beyond
that two names share an index and neither theorem holds; values and functions need no such hypothesis, for `setValue` and
`setFunc` refuse an index that comes back, and then no module is returned. In
`RoundTrip.cfg` every behaviour satisfies `FewStrings`.

Neither side knows the other's state, so there are two halves with one interface,
a message that says of each item which one was written:

- *The writer.* What it has copied at any point is what it has walked (`Copied`):
  each item has the types of its operation and indices for its values and names.
  `Framed` relates its stack of frames to the regions that are open, and
  `Spelling` says that an index written for a name leads to it in the string table
  now and later, which is `NumberingProofs` again. A complete message `Encodes`
  the module (`MessageEncodes`).
- *The reader.* `Expects` gives the types a handler takes from the value table or
  the instruction, so a message that `Encodes` a module predicts each item that
  is rebuilt; `RebuildStep` shows that a step of the reader which goes on adds the
  predicted one. Operands are those of the module because the definition that
  carries an index is unique (`Binding`, from `ReaderInv`). At the end all of it
  is there (`ModuleRebuilt`).

`Carried` is the invariant of the composition: `FullInv` of the writer; until the
message is complete, the reader has not begun; from then on, `ReaderInv` for the
set of files that holds just this message, and `Rebuilt`. That the message is such
a file, a tree in walk order with indices in their ranges, is itself a consequence
of the writer's invariant (`SameReader` carries the theorems about the reader over).
That the reader accepts what the writer made is stated by the fairness of
`ExchangeSpec` and stays with TLC.

### The gates

`FormatProofs` proves, for every set of gates the verifier accepts, every counter
width `U8` above 2 and every `Memory`:

- `GatesRestored`: `Spec => []GateRestored`. A gate read to its end is the gate
  written.
- `FittingImportsReturn`: `Spec => []ImportReturns`, if every gate satisfies
  `ControlsFit`. This is the exact complement of finding 4.

`GateRestored` speaks of the end of the walk only and is not inductive. The
invariant `GateInv` adds what is known on the way: the message is the encoding
of the gate (`GateWritten`); if the counter has room, the controls collected are the
first `next - targets` ones and `next` has not passed the last place
(`Collecting`), otherwise `next` never leaves its type and the loop is not left
(lemma `NeverLeft`); in the second loop the results below `next` are bound
(`Binding`). Lemmas say where the operands are (`ControlPlace`), that the reader
computes the same places (`ReaderCounts`), and that counting in a narrow type is
counting while it fits (`Counting`, `ModSmall`).

### Instructions

`FormatProofs` proves, for all types of arguments, all lengths and widths
and any number of operations:

- `TypesAreRestored`: `BlockSpec => []TypesRestored`. Where results follow from
  operands, every value gets the type it was written with.
- `BlocksAccepted`: `BlockSpec => []BlockAccepted`. Such a block is accepted.
- `ClassesAreKept`: `BlockSpec => []ClassesKept`. Also where inference changes a
  type, through any number of operations, a value keeps its kind, a qubit stays
  a qubit and a register keeps its length.

The reader finds the types of registers in the table, at the place of the value
it defines, and it defines values in the order of the table: the two stay in step
only if every operation read defines as many results as the one written. The
invariant `BlockInv` therefore carries a layout, the number of values defined
before each operation, and says of operation i that its operands are among those
`b[i]` values and its results are the next ones (`Laid`); that all of the block
was written with types the verifier accepts (`Written`); and, while reading, that
the types rebuilt so far are those of the table if results follow, and of their
classes in any case (`Restored`). `ResultsRebuilt` shows, family
by family and kind by kind, that the reader infers the types written from
operands of the types written, `RebuiltAlike` that it infers types of the classes
written from operands of the classes written, `RebuiltCounted` that it makes the right number of
them from operands of any types.

### Types

`FormatProofs` proves, for every set of types and all limits:

- `FittingKeeps`: `TripSpec => []FittingTypesKept`.
- `TypesDoSettle`: `TripSpec => TypesSettle`. The first trip may change a type
  that does not fit, no later one does, and none refuses it.

The invariant `TypeInv` says where a type is on its way and, once it has been read, that it
is `Stable`: it fits, the writer takes it and the reader knows what is written.
`ReadStable` shows that whatever the reader makes of a record is stable,
`ReadKeeps` and `TextKept` that a stable type survives file and text,
`FittingKept` that a fitting one survives its first trip.

### Files

`FormatProofs` proves, for all programs, sizes and contents:

- `FilesImplementStore`: `FileSpec => ImplementsStore`, by refinement.
- `FlawedKeeps`: `FileSpec => FlawedKeepsFile`.

The invariant `FileInv` has three parts: the file is absent, foreign, a message or the
first bytes of one (`OnFile`), the buffer likewise (`InMemory`), and a save that
is writing has put exactly `offset` bytes of its message there (`Saving`). A part
of a message is a message only if it is all of it (`PartIsMessage`,
`ProgramOfPart`, `MessageInPart`), so a step that writes more either stutters or
stores the program (`PartGrows`), and a load finds what is stored
(`LoadsStored`).

### Metadata

`MetadataProofs` proves, for operations of any shape, with any number of results,
regions and arguments, with attributes of any form to start with and callers that
store any metadata:

- `StorageTypeCorrect`: `Spec => []TypeOK`. Attributes stay what they were, a
  list, a row of lists or a table of rows, or something that is no array.
- `StorageImplementsMap`: `Spec => ImplementsMap`, by refinement. Every call
  stores the list it was given for the owner it was given and leaves all other
  owners as they were, or fails and stores nothing; it fails only for a flawed
  list or because that owner cannot be read.
- `EverythingIsRead`: `Spec => []NothingUnread`. If all getters succeed, every
  list stored is one of those they give.

and, for all payloads, string tables and messages of other producers:

- `MeaningIsKept`: `PayloadSpec => MeaningKept`. A list that is written and read
  has the names and the roots it had, in order.
- `PayloadsDoSettle`: `PayloadSpec => PayloadsSettle`. What this library has
  framed it never refuses and never changes again.
- `TextIsKept`: `PayloadSpec => []TextKept`. What was stored last as the text of
  an entry is what a reader of text finds there, under the same name, after any
  number of trips and stores in other entries.
- `MetadataTypeCorrect`: `MetadataSpec => []MetadataTypeOK`, for the composition.

The storage is about arrays within arrays, each of which may be missing, empty,
of a wrong length or no array at all. `Slot` and `Cell` are what a getter makes
of an array of lists and of a table of rows; `SlotReplaced` and `CellReplaced`
say what `ReplaceElement` does to them: the slot gets what is stored, all others
keep what a getter made of them, whether the array was there or not, is there
afterwards or has become empty and is removed. A setter that replaces an element
of an array of a wrong length fails, so what no getter can read stays as it is.
The getter of an operation looks at all the attributes: `InOrder` is what it
finds, and no setter changes it from in order to out of order. With these, one
lemma per overload (`SetsOperation`, `SetsResult`, ...) shows that the step
`Does` to the map what `MetadataMap` says (`DoesOne`, `DoesNothing`, or
`DoesKeep`, when what is stored for an owner cannot be read for another reason).
The invariant `StorageInv` adds to `TypeOK` that the argument attributes of a
function are as many as its arguments. `AllRead` takes the attributes one by one.

`PayloadInv` says that a payload framed by this library is a root that is not
corrupt, well framed (`Library`), and that a message written from such a list is
that list, entry by entry (`SameList`). `NamesAreRegistered` is where the string
table comes in: names are registered before the first entry is written, so each
has an index, the index leads to it (`IndexLeads`), and the entries before the
table grew keep theirs. It rests on `NumberingProofs`, like the value tables.

### Syntax

`PassesProofs` proves, for operations with any number of cases, arguments,
carried values and results, of any types, and for any text:

- `PrintedIsAccepted`: `SyntaxSpec => []PrintedAccepted`. What was verified once
  and printed is parsed and verified again.
- `PrintingRoundTrips`: `SyntaxSpec => RoundTrips`. It is parsed as the operation
  it was, if its yields carry its values.
- `TextDoesSettle`: `SyntaxSpec => TextSettles`. Its text is never changed again.

The invariant `SyntaxInv` says that what was printed is `Sound`, accepted by the
verifier, and that its text is the one at hand. `SoundReturns` is the argument:
printing and parsing a sound operation gives a sound one with the same text, kind
by kind (`SwitchReturns`, `ForReturns`, `WhileReturns`). Not always the same one:
the verifier does not look at the yields of for and while, and one that has
operands where the operation has none is not printed (`FilledRegion`).

### Conversions

`ArithmeticProofs` has what the two passes rest on: a number of w bits is the
number of its bits (`BitsAndBack`), so xor with all ones is the complement
(`XorWithOnes`); operations give numbers of their width (`BinaryTyped`); and on
numbers that fit i32, with results that fit, an operation gives the same at the
width of i32 and at that of index (`NarrowBinary`), which is why indices may
become i32. Facts about all numbers of bits need induction; the theorems of the
library that offer it take an operator, so `SetInduction` proves it for a set
from the fact that a set of natural numbers has a smallest element.

`PassesProofs` proves, for every width of i32 and i64 and programs of any length:

- `NativeIsKept`: `Spec => []NativeKept`. `jeff-to-native` keeps every type and
  value, as far as it makes a native program that is valid and defined. Operands
  may have any types; results have those that the first operand implies.
- `RoundTripIsKept`: `Spec => []RoundTripKept`. So does `native-to-jeff` after it,
- `RoundTripDoesConvert`: `Spec => []RoundTripConverts`, and it refuses nothing
  but the zeros of an array of bits or floats of fixed size.

The invariant `PassInv` says of every value that it has its type, that the native
one is equal and that the one made from it is, too, or was refused for that
reason. `OpKeeps` reduces an operation to its two patterns, one lemma per
operation shows what they do. Jeff values have the widths the dialect allows
(`JeffType`): an array is indexed by an i32 that is extended to an index, and
must not change by it (`IndexExtended`).

For native programs, again of any length, it proves:

- `ValuesAreKept`: `I32Programs` implies `NativeSpec => []ValuesKept`.
- `TypesAreCompatible`: `I32Programs` implies `NativeSpec => []CompatibleTypes`.

`I32Programs` is the hypothesis, not an assumption of the module, because finding
6 is about a program that does not satisfy it: the parameters are well typed and
no indices, index constants fit an index, and indices are cast from and to i32
only. `MCPasses` assumes it of the programs of `passes` (`NativeAssumption`), so
TLC evaluates it. `NativeInv` adds to the two properties that native values are
well typed, elements of a tensor that nobody has written excepted, and that an
array is a sequence on both sides. `DefineKeeps` says what a pattern must give:
no operation the verifier refuses, whatever the indices, and the same value if
all indices of the program fit, the new one included.

### Canonicalization

`PassesProofs` proves, for blocks of any size, every width and any order of visits:

- `OperandsAreLeft`: `RewriteSpec => []OperandsLeft`.
- `ResultsAreKept`: `RewriteSpec => []ResultsKept`.

The value of an operation is defined by those of its operands, which would take a
recursive operator; instead a block comes with the values it has in an execution,
and what is shown is that they satisfy every operation that is left. Operands
precede their users, so no other values do. The invariant `RewriteInv` is that,
together with operands that are left and of one width: without the width,
all ones of the constant would not be all ones of the xor. `XorToNot` is two
steps, each a lemma: the xor becomes a not (`ReplacingKeeps`), what has no uses
goes (`ErasingKeeps`), the second also for `EraseDead`.

### Only model-checked

Liveness: that calls, saves and rewrites end, and in `ImplementsExchange` that
what was sent is delivered, so that the reader accepts every message of the writer.
Temporal proofs under fairness need `ENABLED`, which is out of the prover's reach.
Every invariant and every action property the runs check is a theorem,
`ImplementsExchange` and `StringsStable` as far as `FewStrings` goes.

## Not modelled

- `jeff-opt`, dialect registration and the generated accessors: no logic of their
  own. Verifiers generated from the operation definitions appear as the types
  these allow.
- Payloads of constants in the translation, the fields copied from module
  attributes (entry point, tool, versions), locations, the wording of
  diagnostics.
- Cap'n Proto: its bounds checks in debug builds only make `"undefined"` a throw;
  its limits of depth and traversal are the set `Readable`. What a metadata
  payload holds below its root is its business too.
- MLIR: the parser of tokens, attribute dictionaries, SSA names, the conversion
  and pattern drivers beyond the order in which they may visit operations, and
  the verifier beyond what is said above.
- Floating-point arithmetic: no pattern folds it, values are terms.
- Control flow in the conversions: both passes leave `scf` and `func` to others,
  so their programs are straight-line code.

## Plan

1. The reader accepts every message of the writer whose indices did not wrap: no
   check of `Deserialize` fails on it. `Carried` gives the state it is in; what is
   missing is one lemma per check.
2. The other direction of the round trip, message to module to message: the
   second message is stable although indices of the first were arbitrary.
3. Passes one after another, and between import and export: a module that has
   been converted back and forth is written like the original.
