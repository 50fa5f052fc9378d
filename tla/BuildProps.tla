----------------------------- MODULE BuildProps -----------------------------
(***************************************************************************)
(* The build.prop loader (build_property_parser.rs): key=value lines       *)
(* collected in a map, last one wins, with imports that are followed       *)
(* recursively.  The recursion of load_properties_impl is an explicit      *)
(* stack of open files.  Cycles are cut by visited, nesting by MaxDepth    *)
(* and fan-out by MaxLoads.                                                *)
(***************************************************************************)
EXTENDS Integers, Sequences

CONSTANTS Roots,        \* the files given to the service, in order
          FileSystems,  \* what the files may hold: sets of functions file -> lines
          Canonical,    \* canonicalize: the paths that have another name
          Keys, Values,
          Disallowed,   \* ctl.*, sys.powerctl, selinux.restorecon_recursive
          Filters,      \* the filters a caller may give, as sets of keys, and NoFilter
          NoFilter, NoKey, NoPath,
          MaxDepth,     \* MAX_IMPORT_DEPTH
          MaxLoads      \* MAX_TOTAL_LOADS

(* What a line may say; junk is a line that says nothing. *)
LineOK(l) == \/ l.op \in {"junk", "import", "ioerror"}
             \/ l.op = "set" /\ l.key \in Keys /\ l.value \in Values

LimitsOK == MaxDepth \in Nat /\ MaxLoads \in Nat \ {0}
KeysOK   == Disallowed \subseteq Keys /\ NoKey \notin Keys
TextsOK(s) == \A file \in DOMAIN s :
                /\ s[file] \in Seq({s[file][i] : i \in DOMAIN s[file]})
                /\ \A i \in DOMAIN s[file] : LineOK(s[file][i])
FilesOK  == \A s \in FileSystems : TextsOK(s)

ASSUME BuildPropsAssumption == LimitsOK /\ KeysOK /\ FilesOK

VARIABLES fs,           \* file -> its lines
          stack,        \* open files, the root first: [file, pos]
          visited, loads,
          props,        \* the accumulator
          status,       \* of the call: "idle", "running", "ok", "err"
          filter,
          pass,         \* calls made so far
          before        \* props when the call began

lvars == <<fs, stack, visited, loads, props, status, filter, pass, before>>

Canon(path)    == IF path \in DOMAIN Canonical THEN Canonical[path] ELSE path
Readable(file) == file \in DOMAIN fs
Top            == stack[Len(stack)]
Depth          == Len(stack) - 1
Line           == fs[Top.file][Top.pos]
(* The caller's position moves on before an import is entered. *)
Advanced       == [stack EXCEPT ![Len(stack)].pos = @ + 1]

(* The map's slot for a key. *)
Insert(p, k, v) == [x \in DOMAIN p \cup {k} |-> IF x = k THEN v ELSE p[x]]

(* expand_import_path.  A line's path is its literal text or, behind a      *)
(* reference ${key:-path}, the default; NoPath is a malformed text or a     *)
(* reference without default.  Missing and empty values are the same.       *)
Expand(l, p) == IF l.ref \in DOMAIN p /\ p[l.ref] # "" THEN p[l.ref] ELSE l.path

-----------------------------------------------------------------------------
(* The call returns; whatever is still open is closed on the way out. *)
LReturn(result) ==
  /\ status' = result
  /\ stack' = <<>> /\ visited' = {}

(* load_properties_from_file. *)
Load(f) ==
  /\ status \in {"idle", "ok"} /\ pass < Len(Roots)
  /\ pass' = pass + 1 /\ filter' = f /\ before' = props /\ loads' = 1
  /\ LET root == Canon(Roots[pass + 1]) IN
       \/ /\ Readable(root)
          /\ status' = "running"
          /\ stack' = <<[file |-> root, pos |-> 1]>> /\ visited' = {root}
       \/ /\ ~Readable(root)
          /\ LReturn("err")
  /\ UNCHANGED <<fs, props>>

(* The next line of the open file. *)
Reading == status = "running" /\ Top.pos <= Len(fs[Top.file])

(* Mutant: the rest of an over-long line is not drained, and read again. *)
SkipLineStuck ==
  /\ Reading
  /\ Line.op = "import" /\ filter # NoFilter
  /\ stack' = Advanced
  /\ UNCHANGED <<fs, visited, loads, props, status, filter, pass, before>>

(* Over-long lines, other encodings, comments, and lines without a key are *)
(* skipped; so is an import when the caller filters (the code takes it for *)
(* a key and a value then; that its path may hold a = is left out).        *)
SkipLine ==
  /\ Reading
  /\ \/ Line.op = "junk"
     \/ Line.op = "import" /\ filter # NoFilter
  /\ stack' = Advanced
  /\ UNCHANGED <<fs, visited, loads, props, status, filter, pass, before>>

Wanted(k) == k \notin Disallowed /\ (filter # NoFilter => k \in filter)

Assign ==
  /\ Reading /\ Line.op = "set"
  /\ props' = IF Wanted(Line.key) THEN Insert(props, Line.key, Line.value) ELSE props
  /\ stack' = Advanced
  /\ UNCHANGED <<fs, visited, loads, status, filter, pass, before>>

(* An import that cannot be expanded, is nested too deep, is being loaded *)
(* already or cannot be opened is logged and skipped.                     *)
ImportFails ==
  LET path == Expand(Line, props) IN
    /\ \/ path = NoPath /\ UNCHANGED loads
       \/ path # NoPath /\ Depth + 1 > MaxDepth /\ UNCHANGED loads
       \/ /\ path # NoPath /\ Depth + 1 <= MaxDepth /\ loads + 1 <= MaxLoads
          /\ Canon(path) \in visited \/ ~Readable(Canon(path))
          /\ loads' = loads + 1
    /\ stack' = Advanced
    /\ UNCHANGED <<visited, status>>

(* Mutant: the budget is one more import that failed. *)
BudgetSwallowed ==
  LET path == Expand(Line, props) IN
    /\ path # NoPath /\ Depth + 1 <= MaxDepth /\ loads + 1 > MaxLoads
    /\ loads' = loads + 1 /\ stack' = Advanced
    /\ UNCHANGED <<visited, status>>

(* LimitExceeded is the one error that is passed on, through every frame. *)
BudgetExceeded ==
  LET path == Expand(Line, props) IN
    /\ path # NoPath /\ Depth + 1 <= MaxDepth /\ loads + 1 > MaxLoads
    /\ loads' = loads + 1
    /\ LReturn("err")

ImportOpens ==
  LET path == Expand(Line, props)  file == Canon(path) IN
    /\ path # NoPath /\ Depth + 1 <= MaxDepth /\ loads + 1 <= MaxLoads
    /\ file \notin visited /\ Readable(file)
    /\ loads' = loads + 1
    /\ stack' = Append(Advanced, [file |-> file, pos |-> 1])
    /\ visited' = visited \cup {file}
    /\ UNCHANGED status

Import ==
  /\ Reading /\ Line.op = "import" /\ filter = NoFilter
  /\ ImportFails \/ BudgetExceeded \/ ImportOpens
  /\ UNCHANGED <<fs, props, filter, pass, before>>

(* Mutant: the entry of the import stack is left behind. *)
CloseKeepsVisited ==
  \/ Len(stack) = 1 /\ LReturn("ok")
  \/ Len(stack) > 1 /\ stack' = SubSeq(stack, 1, Len(stack) - 1) /\ UNCHANGED <<visited, status>>

(* End of file: back to the importer, or to the caller. *)
Close ==
  \/ Len(stack) = 1 /\ LReturn("ok")
  \/ Len(stack) > 1 /\ stack' = SubSeq(stack, 1, Len(stack) - 1) /\ visited' = visited \ {Top.file} /\ UNCHANGED status

EndOfFile ==
  /\ status = "running" /\ Top.pos > Len(fs[Top.file])
  /\ Close
  /\ UNCHANGED <<fs, loads, props, filter, pass, before>>

(* The disk fails under the open file: what was read stays in the map. *)
ReadFails ==
  /\ Reading /\ Line.op = "ioerror"
  /\ \/ Len(stack) = 1 /\ LReturn("err")
     \/ Len(stack) > 1 /\ Close
  /\ UNCHANGED <<fs, loads, props, filter, pass, before>>

-----------------------------------------------------------------------------
LInit ==
  /\ fs \in FileSystems
  /\ stack = <<>> /\ visited = {} /\ loads = 0 /\ props = <<>> /\ before = <<>>
  /\ status = "idle" /\ filter = NoFilter /\ pass = 0

Step == SkipLine \/ Assign \/ Import \/ EndOfFile \/ ReadFails
LNext == Step \/ \E f \in Filters : Load(f)

(* The loader runs in one thread and never blocks on anything but the disk. *)
LSpec == LInit /\ [][LNext]_lvars /\ WF_lvars(Step)

-----------------------------------------------------------------------------
(* Types. *)
LTypeOK ==
  /\ TextsOK(fs)
  /\ DOMAIN props \subseteq Keys \ Disallowed
  /\ \A k \in DOMAIN props : props[k] \in Values
  /\ status \in {"idle", "running", "ok", "err"} /\ (stack # <<>> <=> status = "running")
  /\ stack \in Seq([file : DOMAIN fs, pos : Nat \ {0}])
  /\ \A i \in DOMAIN stack : stack[i].pos <= Len(fs[stack[i].file]) + 1
  /\ loads \in 0 .. MaxLoads + 1 /\ (status = "running" => loads <= MaxLoads)

(* The import stack: exactly the open files, each open once, never deeper than *)
(* the limit.  An entry left behind by any exit of load_properties_impl would  *)
(* make a later import of the file look like a cycle.                          *)
VisitedIsStack ==
  /\ visited = {stack[i].file : i \in DOMAIN stack}
  /\ \A i, j \in DOMAIN stack : stack[i].file = stack[j].file => i = j
  /\ Len(stack) <= MaxDepth + 1

(* Whatever exit a file's load took, the loader's bookkeeping is exact, and *)
(* only allowed keys were stored.                                          *)
LoaderInv == LTypeOK /\ VisitedIsStack

(* What is left to read of the file open at depth d, its end included. *)
Left(d) == IF d \in DOMAIN stack THEN Len(fs[stack[d].file]) + 2 - stack[d].pos ELSE 0

(* Why every call ends (load_properties_impl): a step counts a load towards  *)
(* the budget, or reads on in one open file and goes back in none.           *)
LoadProgress ==
  [][status = "running" /\ status' = "running" =>
       \/ loads' = loads + 1 /\ loads' <= MaxLoads
       \/ /\ loads' = loads
          /\ \A d \in 1 .. MaxDepth + 1 : Left(d) \in Nat /\ Left(d)' <= Left(d)
          /\ \E d \in 1 .. MaxDepth + 1 : Left(d)' < Left(d)]_lvars

(* Every call ends, with cyclic imports, files that import each other twice *)
(* and values that turn into paths.                                         *)
LoadReturns == (status = "running") ~> (status # "running")
=============================================================================
