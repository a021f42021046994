------------------------------- MODULE Import -------------------------------
(***************************************************************************)
(* The page that reads an OpenAPI document in the browser and creates a    *)
(* monitor for each operation chosen.  A document that is being fetched or *)
(* read, an import under way and the controls of the page run side by      *)
(* side: a request works with the fields as they were when it was started. *)
(***************************************************************************)
EXTENDS Integers, Sequences, FiniteSetsExt, Selections

CONSTANTS
  Documents,         \* what a source may hold,
  Broken,            \*   those of them that are no OpenAPI 3 document,
  Server,            \*   per document its first server, or NoAddress, and
  OperationsOf,      \*   its operations in the order of the list
  Typed,             \* what the user may type as an address, and
  Usable,            \*   those of them that are one: http or https, no password
  MaxImports,        \* 20 in the code
  ImportSlots, FetchSlots,
  MaxDocuments, MaxEditsOfImport, MaxFailures   \* bounds

NoAddress == "no address"
NoDocument == "no document"
Methods == {"get", "head", "post", "put"}

(* inline: the operation is an object, not a reference.  concrete: its path *)
(* starts with / and has no parameters.  codes: its successful responses,   *)
(* 2xx being 200 and 299.                                                   *)
Operation == [id : STRING, method : Methods, inline : BOOLEAN, concrete : BOOLEAN,
              codes : SUBSET (200..299)]

(* The operations of a document have ids of their own: two spellings of one *)
(* method under one path are left out.                                      *)
ASSUME ImportAssumption ==
  /\ Broken \subseteq Documents
  /\ \A d \in Documents :
       /\ OperationsOf[d] \in Seq(Operation)
       /\ \A i, j \in 1..Len(OperationsOf[d]) : OperationsOf[d][i].id = OperationsOf[d][j].id => i = j
  /\ MaxImports \in Nat /\ MaxDocuments \in Nat /\ MaxEditsOfImport \in Nat /\ MaxFailures \in Nat

VARIABLES
  source,      \* the document in the text field
  base,        \* the field "Concrete server URL", and whether the user typed it
  parsed,      \* what the page shows: a document and the address of its operations
  chosen,      \* ids of the operations ticked
  includePost, environment, working,
  fetches,     \* documents under way, with the fields they started with
  imports,     \* imports under way: what is left of them
  created,     \* monitors the API created, with how the page was as the import started
  importBudget

importVars == <<source, base, parsed, chosen, includePost, environment, working,
                fetches, imports, created, importBudget>>

NothingParsed == [document |-> NoDocument, address |-> NoAddress, typed |-> FALSE]
NoFetch == [document |-> NoDocument, base |-> NoAddress, typed |-> FALSE, post |-> FALSE]
NoImport == [left |-> <<>>, from |-> NothingParsed, post |-> FALSE, environment |-> "test"]

ImportInit ==
  /\ source = NoDocument /\ parsed = NothingParsed
  /\ base = [address |-> NoAddress, typed |-> FALSE]
  /\ chosen = {} /\ includePost = FALSE /\ environment = "test" /\ working = ""
  /\ fetches = [f \in FetchSlots |-> NoFetch]
  /\ imports = [i \in ImportSlots |-> NoImport]
  /\ created = {}
  /\ importBudget = [documents |-> 0, edits |-> 0, failures |-> 0]

Uses(field, bound) ==
  importBudget[field] < bound /\ importBudget' = [importBudget EXCEPT ![field] = @ + 1]

-----------------------------------------------------------------------------
(* What the document says.                                                 *)

(* The responses expected: from the lowest to the highest successful code. *)
ExpectedRange(operation) ==
  IF operation.codes = {} THEN <<200, 299>> ELSE <<Min(operation.codes), Max(operation.codes)>>

(* An override that is no address is passed over, like an empty field.     *)
normalizeBaseUrl(text) == IF text \in Typed \ Usable THEN NoAddress ELSE text
Address(document, override) ==
  IF normalizeBaseUrl(override) # NoAddress THEN override ELSE Server[document]

Skipped(operation, address) ==
  \/ ~operation.inline
  \/ operation.method \notin {"get", "head", "post"}
  \/ ~operation.concrete
  \/ address = NoAddress

Monitorable(document, address, post) ==
  LET operations == OperationsOf[document]
      Safe(o) == ~Skipped(o, address) /\ (post \/ o.method # "post")
  IN  Selected(operations, {i \in DOMAIN operations : Safe(operations[i])})

Ids(operations) == {operations[i].id : i \in 1..Len(operations)}
FirstOf(operations) == Ids(SubSeq(operations, 1, Min({MaxImports, Len(operations)})))

(* What the page offers, and what of it is ticked.                         *)
NoOperations == <<>>
EligibleWithPost ==
  IF parsed.document = NoDocument THEN NoOperations
  ELSE Monitorable(parsed.document, parsed.address, TRUE)
Eligible ==
  IF parsed.document = NoDocument THEN NoOperations
  ELSE Monitorable(parsed.document, parsed.address, includePost)
selectedOperations == Selected(Eligible, {i \in DOMAIN Eligible : Eligible[i].id \in chosen})

-----------------------------------------------------------------------------
(* The document was read with an override and a setting of the box: the    *)
(* address it yields goes into the field, and is the override of the next. *)
ParseWith(document, override, typed, post) ==
  LET address == Address(document, override)
      theirs == typed /\ normalizeBaseUrl(override) # NoAddress
  IN  IF document \in Broken
      THEN parsed' = NothingParsed /\ chosen' = {} /\ UNCHANGED base
      ELSE /\ parsed' = [document |-> document, address |-> address, typed |-> theirs]
           /\ base' = [address |-> address, typed |-> theirs]
           /\ chosen' = FirstOf(Monitorable(document, address, post))

(* "Read contract" and "Read again"; what is pasted replaces the source.   *)
Paste(document) ==
  /\ document # source /\ Uses("documents", MaxDocuments)
  /\ source' = document
  /\ UNCHANGED <<base, parsed, chosen, includePost, environment, working,
                 fetches, imports, created>>
ParseSource ==
  /\ working = "" /\ source # NoDocument
  /\ ParseWith(source, base.address, base.typed, includePost)
  /\ UNCHANGED <<source, includePost, environment, working, fetches, imports, created, importBudget>>

(* A file may be chosen whatever the page is doing, an address is fetched  *)
(* only when it does nothing.                                              *)
BeginFetch(f, document) ==
  /\ fetches[f] = NoFetch /\ Uses("documents", MaxDocuments)
  /\ fetches' = [fetches EXCEPT ![f] = [document |-> document, base |-> base.address,
                                        typed |-> base.typed, post |-> includePost]]
  /\ working' = "load"
  /\ UNCHANGED <<source, base, parsed, chosen, includePost, environment, imports, created>>
LoadUrl(f, document) == working = "" /\ BeginFetch(f, document)
OnFile(f, document) == BeginFetch(f, document)

FetchEnds(f) ==
  /\ fetches[f] # NoFetch
  /\ source' = fetches[f].document
  /\ ParseWith(fetches[f].document, fetches[f].base, fetches[f].typed, fetches[f].post)
  /\ fetches' = [fetches EXCEPT ![f] = NoFetch] /\ working' = ""
  /\ UNCHANGED <<includePost, environment, imports, created, importBudget>>

(* Refused, too late or too large.                                         *)
FetchFails(f) ==
  /\ fetches[f] # NoFetch /\ Uses("failures", MaxFailures)
  /\ parsed' = NothingParsed /\ chosen' = {}
  /\ fetches' = [fetches EXCEPT ![f] = NoFetch] /\ working' = ""
  /\ UNCHANGED <<source, base, includePost, environment, imports, created>>

-----------------------------------------------------------------------------
(* The controls, which nothing disables.                                   *)

TypeBase(address) ==
  /\ address # base.address /\ Uses("edits", MaxEditsOfImport)
  /\ base' = [address |-> address, typed |-> TRUE]
  /\ UNCHANGED <<source, parsed, chosen, includePost, environment, working,
                 fetches, imports, created>>

SetEnvironment(e) ==
  /\ e # environment /\ Uses("edits", MaxEditsOfImport)
  /\ environment' = e
  /\ UNCHANGED <<source, base, parsed, chosen, includePost, working,
                 fetches, imports, created>>

(* A tick of the box adds the POST operations there is room for, without   *)
(* it those that are ticked leave the selection.                           *)
AddedPosts(kept) ==
  LET Added(o) == o.method = "post" /\ o.id \notin kept
      posts == Selected(EligibleWithPost, {i \in DOMAIN EligibleWithPost : Added(EligibleWithPost[i])})
      room == MaxImports - Cardinality(kept)
  IN  Ids(SubSeq(posts, 1, Min({room, Len(posts)})))
TogglePost ==
  /\ Uses("edits", MaxEditsOfImport)
  /\ includePost' = ~includePost
  /\ IF parsed.document = NoDocument THEN UNCHANGED chosen
     ELSE LET kept == chosen \cap Ids(Monitorable(parsed.document, parsed.address, ~includePost))
          IN  chosen' = IF includePost THEN kept ELSE kept \cup AddedPosts(kept)
  /\ UNCHANGED <<source, base, parsed, environment, working, fetches, imports, created>>

ToggleOperation(id) ==
  /\ id \in Ids(Eligible) /\ Uses("edits", MaxEditsOfImport)
  /\ id \in chosen \/ Cardinality(chosen) < MaxImports
  /\ chosen' = IF id \in chosen THEN chosen \ {id} ELSE chosen \cup {id}
  /\ UNCHANGED <<source, base, parsed, includePost, environment, working,
                 fetches, imports, created>>

SelectAllSafe ==
  /\ chosen # FirstOf(Eligible) /\ Uses("edits", MaxEditsOfImport)
  /\ chosen' = FirstOf(Eligible)
  /\ UNCHANGED <<source, base, parsed, includePost, environment, working,
                 fetches, imports, created>>

-----------------------------------------------------------------------------
(* The import: one request after the other, whatever becomes of each.      *)

ImportMonitors(i) ==
  /\ working = "" /\ imports[i] = NoImport
  /\ Len(selectedOperations) \in 1..MaxImports /\ environment # "production"
  /\ imports' = [imports EXCEPT ![i] =
       [left |-> selectedOperations, from |-> parsed, post |-> includePost, environment |-> environment]]
  /\ working' = "import"
  /\ UNCHANGED <<source, base, parsed, chosen, includePost, environment, fetches, created, importBudget>>

(* The API creates the monitor, or does not.                               *)
MonitorOf(i) ==
  [operation |-> Head(imports[i].left), expects |-> ExpectedRange(Head(imports[i].left)),
   from |-> imports[i].from, post |-> imports[i].post, environment |-> imports[i].environment]
CreateImported(i) ==
  /\ imports[i].left # <<>>
  /\ created' = created \cup {MonitorOf(i)}
  /\ imports' = [imports EXCEPT ![i].left = Tail(@)]
  /\ UNCHANGED <<source, base, parsed, chosen, includePost, environment, working, fetches, importBudget>>
RefuseImported(i) ==
  /\ imports[i].left # <<>> /\ Uses("failures", MaxFailures)
  /\ imports' = [imports EXCEPT ![i].left = Tail(@)]
  /\ UNCHANGED <<source, base, parsed, chosen, includePost, environment, working, fetches, created>>

ImportEnds(i) ==
  /\ imports[i] # NoImport /\ imports[i].left = <<>>
  /\ chosen' = {} /\ working' = ""
  /\ imports' = [imports EXCEPT ![i] = NoImport]
  /\ UNCHANGED <<source, base, parsed, includePost, environment, fetches, created, importBudget>>

-----------------------------------------------------------------------------
ImportNext ==
  \/ \E d \in Documents : Paste(d)
  \/ ParseSource
  \/ \E f \in FetchSlots :
       \/ \E d \in Documents : LoadUrl(f, d) \/ OnFile(f, d)
       \/ FetchEnds(f) \/ FetchFails(f)
  \/ \E a \in Typed \cup {NoAddress} : TypeBase(a)
  \/ \E e \in {"test", "production"} : SetEnvironment(e)
  \/ TogglePost \/ SelectAllSafe
  \/ \E id \in Ids(Eligible) : ToggleOperation(id)
  \/ \E i \in ImportSlots :
       ImportMonitors(i) \/ CreateImported(i) \/ RefuseImported(i) \/ ImportEnds(i)

ImportSpec == ImportInit /\ [][ImportNext]_importVars

-----------------------------------------------------------------------------
(* Properties.                                                             *)

(* However documents, controls and imports were interleaved, a monitor is  *)
(* created only for a concrete GET or HEAD operation, or for a POST when   *)
(* the box for them was ticked as the import was started, at an address,   *)
(* and never in production.                                                *)
SafeByDefault ==
  \A monitor \in created :
    /\ monitor.operation.method \in {"get", "head"} \cup (IF monitor.post THEN {"post"} ELSE {})
    /\ monitor.operation.inline /\ monitor.operation.concrete
    /\ monitor.from.address # NoAddress
    /\ monitor.environment # "production"

(* A monitor probes the server of the document it was read from, unless    *)
(* the user typed another: does not hold, the field keeps the server of    *)
(* the document before.                                                    *)
OwnServer == \A monitor \in created : monitor.from.typed \/ monitor.from.address = Server[monitor.from.document]

(* A monitor expects the first successful response of its operation: does  *)
(* not hold, it accepts all that lie between the first and the last.       *)
FirstResponse ==
  \A monitor \in created :
    LET codes == monitor.operation.codes
    IN  codes # {} /\ 299 \notin codes => monitor.expects = <<Min(codes), Min(codes)>>
=============================================================================
