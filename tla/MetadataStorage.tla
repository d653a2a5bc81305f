---- MODULE MetadataStorage ----
(***************************************************************************)
(* The storage of metadata, lib/Translation/Metadata.cpp.                  *)
(*                                                                         *)
(* Metadata of an operation is kept in attributes of that operation: its   *)
(* own list in "jeff.metadata", the lists of its results and regions in    *)
(* one array each, the lists of the arguments of its regions in an array   *)
(* of arrays, and the lists of the arguments of a function in the          *)
(* attribute dictionaries of the arguments.  An array that is empty stands *)
(* for one of empty lists.  Attributes can be written by anyone, so every  *)
(* getter and setter may meet storage of a wrong form.                     *)
(*                                                                         *)
(* The actions are the overloads of setMetadata, for operations, regions,  *)
(* results and arguments; what the overloads of getMetadata return is the  *)
(* operator Get.                                                           *)
(***************************************************************************)
EXTENDS Naturals, Sequences

CONSTANTS
    Dicts,       \* entries checkMetadata accepts
    Flawed,      \* any entry it refuses
    Scalar,      \* any attribute that is not an array
    Null,        \* the null attribute
    Failure,     \* what a call that fails yields
    NoCall,      \* no setter was called yet
    Arguments,   \* the metadata callers pass to a setter
    Operations   \* the operations, each with the storage it starts with

Entry == Dicts \cup {Flawed}
List  == Seq(Entry)
Row   == Seq(List \cup {Scalar})
Table == Seq(Row \cup {Scalar})

\* func: is a func.func; results: their number; regions: the number of arguments of each region
\* (0 for a region without a block).
Shape == [func: BOOLEAN, results: Nat, regions: Seq(Nat)]

\* The attributes; args are the "jeff.metadata" attributes of the arguments of a function.
Storage == [own: List \cup {Null, Scalar}, results: Row \cup {Null, Scalar},
            regions: Row \cup {Null, Scalar}, arguments: Table \cup {Null, Scalar},
            args: Seq(List \cup {Null, Scalar})]

ASSUME AtomsAssumption ==
    /\ Null # Scalar /\ Null # Failure /\ Scalar # Failure
    /\ \A a \in {Null, Scalar, Failure} : a \notin List /\ a \notin Row /\ a \notin Table
    /\ Flawed \notin Dicts
ASSUME ArgumentsAssumption == \A m \in Arguments : m = Null \/ m \in List
ASSUME OperationsAssumption ==
    \A x \in Operations :
        /\ x.shape \in Shape /\ x.storage \in Storage
        /\ x.shape.func =>
               /\ x.shape.results = 0
               /\ Len(x.shape.regions) = 1
               /\ Len(x.storage.args) = x.shape.regions[1]
        /\ ~x.shape.func => x.storage.args = <<>>

VARIABLES
    shape,       \* the operation
    attrs,       \* its attributes
    called,      \* the owner and the list the last setter was called with
    failed       \* it failed

vars == <<shape, attrs, called, failed>>

----------------------------------------------------------------------------
\* Helpers.  A failure passes through: every caller returns at once when it meets one.

Missing(array) == array \in {Null, <<>>}

GetArray(a) == IF a = Scalar THEN Failure ELSE a

SizeFits(array, size) == Missing(array) \/ Len(array) = size

GetElement(array, index, size) ==
    IF array = Failure THEN Failure
    ELSE IF Missing(array) THEN Null
    ELSE IF Len(array) = size THEN GetArray(array[index])
    ELSE Failure

\* The mutant starts from a new array each time.
ReplaceElementAlone(array, index, size, element) ==
    IF array = Failure \/ element = Failure \/ ~SizeFits(array, size) THEN Failure
    ELSE [[k \in 1..size |-> <<>>] EXCEPT ![index] = element]
ReplaceElement(array, index, size, element) ==
    IF array = Failure \/ element = Failure \/ ~SizeFits(array, size) THEN Failure
    ELSE [(IF Missing(array) THEN [k \in 1..size |-> <<>>] ELSE array) EXCEPT ![index] = element]

CheckMetadata(m) == m = Null \/ \A k \in 1..Len(m) : m[k] \in Dicts

Checked(m) == IF m # Failure /\ CheckMetadata(m) THEN m ELSE Failure

\* The mutant stores the null attribute as an element.
AsGiven(m) == m
AsArray(m) == IF m = Null THEN <<>> ELSE m

----------------------------------------------------------------------------
\* The getters, for an operation s with attributes a.

\* The mutant does not look at the rows of the arguments.
GetOperationOfArrays(s, a) ==
    IF /\ Scalar \notin {a.results, a.regions, a.arguments}
       /\ SizeFits(a.results, s.results)
       /\ SizeFits(a.regions, Len(s.regions))
       /\ SizeFits(a.arguments, Len(s.regions))
       /\ s.func => Missing(a.arguments)
    THEN Checked(GetArray(a.own)) ELSE Failure
GetOperation(s, a) ==
    LET n == Len(s.regions)
        arrays == {a.results, a.regions, a.arguments}
        rowFits(r) ==
            LET row == GetElement(a.arguments, r, n)
            IN row # Failure /\ SizeFits(row, s.regions[r])
    IN IF /\ Scalar \notin arrays
          /\ SizeFits(a.results, s.results)
          /\ SizeFits(a.regions, n)
          /\ SizeFits(a.arguments, n)
          /\ s.func => Missing(a.arguments)
          /\ \A r \in 1..n : rowFits(r)
       THEN Checked(GetArray(a.own)) ELSE Failure

GetRegion(s, a, r) == Checked(GetElement(GetArray(a.regions), r, Len(s.regions)))

GetResult(s, a, i) == Checked(GetElement(GetArray(a.results), i, s.results))

GetArgument(s, a, r, i) ==
    Checked(IF s.func THEN GetArray(a.args[i])
            ELSE GetElement(GetElement(GetArray(a.arguments), r, Len(s.regions)), i, s.regions[r]))

ResultOwners(s)   == {<<"result", i>> : i \in 1..s.results}
RegionOwners(s)   == {<<"region", r>> : r \in 1..Len(s.regions)}
ArgumentOwners(s) == UNION {{<<"argument", r, i>> : i \in 1..s.regions[r]} :
                                r \in 1..Len(s.regions)}
Owners(s) == {<<"operation">>} \cup ResultOwners(s) \cup RegionOwners(s) \cup ArgumentOwners(s)

\* getMetadata, by the kind of its argument.
Get(s, a, o) ==
    CASE o[1] = "operation" -> GetOperation(s, a)
      [] o[1] = "result"    -> GetResult(s, a, o[2])
      [] o[1] = "region"    -> GetRegion(s, a, o[2])
      [] OTHER              -> GetArgument(s, a, o[2], o[3])

----------------------------------------------------------------------------
\* The setters.

\* A setter computes a new value for one attribute; a failure leaves all of them alone.
Return(value, stored) ==
    /\ failed' = (value = Failure)
    /\ attrs' = IF value = Failure THEN attrs ELSE stored
    /\ UNCHANGED shape

SetOperation(m) ==
    LET value == IF CheckMetadata(m) THEN (IF Missing(m) THEN Null ELSE m) ELSE Failure
    IN Return(value, [attrs EXCEPT !.own = value])

\* What the setters of regions, results and block arguments begin with: flawed metadata is
\* refused, and there is nothing to clear where there is no storage.
Replaced(old, m, updated) ==
    IF ~CheckMetadata(m) THEN Failure
    ELSE IF Missing(m) /\ old = Null THEN Null
    ELSE updated

SetRegion(r, m) ==
    LET value == Replaced(attrs.regions, m,
                     ReplaceElement(GetArray(attrs.regions), r, Len(shape.regions), AsArray(m)))
    IN Return(value, [attrs EXCEPT !.regions = value])

SetResult(i, m) ==
    LET value == Replaced(attrs.results, m,
                     ReplaceElement(GetArray(attrs.results), i, shape.results, AsArray(m)))
    IN Return(value, [attrs EXCEPT !.results = value])

\* Function arguments keep their metadata in their own dictionary, those of other operations in
\* the row of their region: the row is read, changed and put back into the array of rows.
SetFunctionArgument(i, m) ==
    LET value == IF CheckMetadata(m) THEN (IF Missing(m) THEN Null ELSE m) ELSE Failure
    IN /\ shape.func
       /\ Return(value, [attrs EXCEPT !.args[i] = value])

UpdatedRow(s, a, r, i, m) ==
    ReplaceElement(GetElement(GetArray(a.arguments), r, Len(s.regions)), i, s.regions[r],
                   AsArray(m))

SetBlockArgument(r, i, m) ==
    LET value == Replaced(attrs.arguments, m,
                     ReplaceElement(GetArray(attrs.arguments), r, Len(shape.regions),
                                    UpdatedRow(shape, attrs, r, i, m)))
    IN /\ ~shape.func
       /\ Return(value, [attrs EXCEPT !.arguments = value])

Init ==
    /\ \E x \in Operations : shape = x.shape /\ attrs = x.storage
    /\ called = NoCall
    /\ failed = FALSE

\* What the caller asks for: the null attribute and the empty list both ask for no metadata.
Called(o, m) == called' = <<o, AsArray(m)>>

Next ==
    \E m \in Arguments :
        \/ SetOperation(m) /\ Called(<<"operation">>, m)
        \/ \E i \in 1..shape.results : SetResult(i, m) /\ Called(<<"result", i>>, m)
        \/ \E r \in 1..Len(shape.regions) :
              \/ SetRegion(r, m) /\ Called(<<"region", r>>, m)
              \/ \E i \in 1..shape.regions[r] :
                    /\ SetFunctionArgument(i, m) \/ SetBlockArgument(r, i, m)
                    /\ Called(<<"argument", r, i>>, m)

Spec == Init /\ [][Next]_vars

----------------------------------------------------------------------------
\* The attributes keep their form: lists, rows of lists and tables of rows, or what the
\* operation had in their place.
TypeOK ==
    /\ shape \in Shape
    /\ attrs \in Storage
    /\ called = NoCall \/ called \in Owners(shape) \X List
    /\ failed \in BOOLEAN

\* Storage is a map.  A getter after a setter returns what was set for the owner of the call, and
\* the metadata of every other owner is what it was: rewriting the array shared by the results, the
\* regions or the arguments loses nothing of a sibling, and it does not make the operation
\* unreadable.  A setter refuses flawed metadata and, otherwise, only if the getter of that same
\* owner fails; whether others can be read does not matter.
Read(s, a) == [o \in Owners(s) |-> LET m == Get(s, a, o) IN IF m = Null THEN <<>> ELSE m]

InitialMaps == {Read(x.shape, x.storage) : x \in Operations}

Map == INSTANCE MetadataMap
       WITH Maps <- InitialMaps, Unreadable <- Failure, Arguments <- {AsArray(m) : m \in Arguments},
            map <- Read(shape, attrs), call <- called, refused <- failed

ImplementsMap == Map!Spec

\* The writer reads the metadata of every owner.  When no getter fails there is no entry in any
\* attribute that none of them returns: storage that belongs to no owner is diagnosed, not
\* dropped in silence.
Lists(s, a) == {Get(s, a, o) : o \in Owners(s)}
StoredLists(a) ==
    LET elements(array) == IF array \in {Null, Scalar} THEN {} ELSE {array[k] : k \in DOMAIN array}
    IN {a.own} \cup elements(a.results) \cup elements(a.regions) \cup elements(a.args)
         \cup UNION {elements(row) : row \in elements(a.arguments)}
NothingUnread ==
    Failure \notin Lists(shape, attrs) =>
        StoredLists(attrs) \subseteq Lists(shape, attrs) \cup {Null, <<>>}

\* "Invalid storage is diagnosed and yields failure" (Metadata.hpp:35), for the attribute the
\* setter of an operation writes: what is not an array is not overwritten.
InvalidStorageDiagnosed ==
    [][\A m \in Arguments : attrs.own = Scalar /\ SetOperation(m) => failed']_vars
====
