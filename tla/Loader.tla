------------------------------- MODULE Loader -------------------------------
(***************************************************************************)
(* Modules, file scopes and classes: VM::use, VM::require_package, the     *)
(* nested run of a module by VM::eval, and the ops of a file that define   *)
(* functions and classes.  A file is a sequence of statements; the disk    *)
(* says what stat, open and the compiler make of each module.              *)
(***************************************************************************)
EXTENDS Integers, Sequences, FiniteSets, SequencesExt

CONSTANTS
  Modules,   \* module names, as used in the source
  Main,      \* the file that is run
  Ids,       \* names of functions and classes
  Disks,     \* the contents of the library path to be considered
  MaxScopes  \* bound: no more modules are started beyond this many scopes

Files == Modules \cup {Main}

-----------------------------------------------------------------------------
(* What the compiler makes of a file: its blocks are nested. *)

FrameRecs == [type : {"try", "class"}, to : Nat]

Statements ==
  [op : {"sub", "class", "parent"}, name : Ids] \cup [op : {"use"}, mod : Modules, all : BOOLEAN]
    \cup [op : {"try"}, to : Nat] \cup [op : {"try_end", "class_end", "die"}]

Ends == [try_end |-> "try", class_end |-> "class"]

\* The frames of a file after a statement that begins, ends or leaves a block.
Framed(frames, s) ==
  CASE s.op = "try"   -> Append(frames, [type |-> "try", to |-> s.to])
    [] s.op = "class" -> Append(frames, [type |-> "class", to |-> 0])
    [] s.op \in DOMAIN Ends -> Front(frames)
    [] OTHER          -> frames

\* The frames a file has pushed when control comes to each of its statements.
FramesAt(body) ==
  [p \in 1..Len(body) + 1 |-> FoldLeft(Framed, << >>, SubSeq(body, 1, p - 1))]

Holds(frames, type) == \E k \in 1..Len(frames) : frames[k].type = type

\* The frames `at` are those of nested blocks: they begin with none and follow
\* the statements, an end meets its own block, a class is in no class and its
\* parent is named first, a catch is where its try began, and none is left over.
Nests(body, at) ==
  /\ at \in [1..Len(body) + 1 -> Seq(FrameRecs)]
  /\ at[1] = << >> /\ at[Len(body) + 1] = << >>
  /\ \A p \in 1..Len(body) :
       /\ at[p + 1] = Framed(at[p], body[p])
       /\ body[p].op \in DOMAIN Ends =>
            at[p] # << >> /\ at[p][Len(at[p])].type = Ends[body[p].op]
       /\ body[p].op = "class"  => ~Holds(at[p], "class")
       /\ body[p].op = "parent" => p > 1 /\ body[p - 1].op = "class"
       /\ \A k \in 1..Len(at[p]) : at[p][k].type = "try" =>
            at[p][k].to \in 1..Len(body) + 1 /\ at[at[p][k].to] = SubSeq(at[p], 1, k - 1)

LoaderAssumption ==
  /\ Main \notin Modules /\ Modules \cap Ids = {}
  /\ \A d \in Disks :
       /\ DOMAIN d = Files /\ d[Main].file = "ok"
       /\ \A f \in Files : d[f].body \in Seq(Statements) /\ Nests(d[f].body, FramesAt(d[f].body))

VARIABLES
  disk,             \* file -> [file: ok, missing, unreadable, bad; body: statements]
  ops, pc,          \* the file that runs and its next statement
  frame_stack,      \* class and try frames
  native_stack,     \* activations of require_package and eval
  file_scope_,      \* the scope names are defined and looked up in
  scopes,           \* all scopes made so far: name -> value
  file_scope_map_,  \* module -> its scope
  required,         \* $REQUIRED: module -> value
  klass_,           \* the class being defined, or NoClass
  classes,          \* all classes made so far
  mode,             \* run, ended, died, or strayed (see Raise)
  left              \* history: a failed load has left its scope behind

vars == << disk, ops, pc, frame_stack, native_stack, file_scope_, scopes,
           file_scope_map_, required, klass_, classes, mode, left >>

NoClass == 0
Empty   == << >>     \* a scope without names

Code(file)  == [is |-> "code", file |-> file]
Class(c)    == [is |-> "class", class |-> c]
Package(m, s) == [is |-> "package", mod |-> m, data |-> s]

Has(s, n) == n \in DOMAIN scopes[s]

\* std::map::insert: a name that is there keeps its value.
Insert(scope, n, v) ==
  IF n \in DOMAIN scope THEN scope
  ELSE [k \in DOMAIN scope \cup {n} |-> IF k = n THEN v ELSE scope[k]]

\* VM::add_class
AddName(n, v) == scopes' = [scopes EXCEPT ![file_scope_] = Insert(@, n, v)]

\* Mutant: a function becomes known to the file that uses the module.
UsersCode == IF native_stack = << >> THEN file_scope_ ELSE Last(native_stack).scope

CodeScope == file_scope_

\* VM::add_function
AddFunction(n, v) == scopes' = [scopes EXCEPT ![CodeScope] = Insert(@, n, v)]

Init ==
  /\ disk \in Disks
  /\ ops = Main /\ pc = 1
  /\ frame_stack = << >> /\ native_stack = << >>
  /\ file_scope_ = 1 /\ scopes = << Empty >>
  /\ file_scope_map_ = << >> /\ required = << >>
  /\ klass_ = NoClass /\ classes = << >>
  /\ mode = "run" /\ left = FALSE

Stmt == disk[ops].body[pc]
At(op) == mode = "run" /\ pc <= Len(disk[ops].body) /\ Stmt.op = op

GoOn == pc' = pc + 1 /\ UNCHANGED << disk, ops, mode, left >>

\* The try frames pushed under the running activation of execute().
FrameBase == IF native_stack = << >> THEN 0 ELSE Last(native_stack).frames
MyTries == {i \in 1..Len(frame_stack) : frame_stack[i].type = "try" /\ i > FrameBase}
AllTries == {i \in 1..Len(frame_stack) : frame_stack[i].type = "try"}

\* Frames above n are dropped: the destructor of a class frame resets klass_.
Dropped(n) ==
  IF \E i \in n + 1..Len(frame_stack) : frame_stack[i].type = "class"
  THEN NoClass ELSE klass_

\* A throw and VM::handle_exception: back to the innermost try.  Nothing
\* restores file_scope_.  A try of another activation goes on with
\* this activation's ops: module VM follows that, here it ends the behaviour.
Raise(scope_left) ==
  /\ IF AllTries = {}
       THEN mode' = "died" /\ UNCHANGED << pc, frame_stack, klass_ >>
     ELSE IF MyTries = {}
       THEN mode' = "strayed" /\ UNCHANGED << pc, frame_stack, klass_ >>
     ELSE LET i == CHOOSE j \in MyTries : \A k \in MyTries : k <= j
          IN  /\ pc' = frame_stack[i].to
              /\ frame_stack' = SubSeq(frame_stack, 1, i - 1)
              /\ klass_' = Dropped(i)
              /\ mode' = mode
  /\ left' = (left \/ scope_left)
  /\ UNCHANGED << disk, ops, native_stack, classes >>

Names == << scopes, file_scope_, file_scope_map_, required >>

OP_TRY ==
  /\ At("try")
  /\ frame_stack' = Append(frame_stack, [type |-> "try", to |-> Stmt.to])
  /\ GoOn /\ UNCHANGED << native_stack, klass_, classes, Names >>

\* The end of a try block pops its frame.
TryEnd ==
  /\ At("try_end")
  /\ frame_stack' = Front(frame_stack)
  /\ GoOn /\ UNCHANGED << native_stack, klass_, classes, Names >>

OP_DIE == At("die") /\ Raise(FALSE) /\ UNCHANGED Names

\* A sub is a method inside a class, else a function of the file scope.
OP_FUNCDEF ==
  /\ At("sub")
  /\ IF klass_ # NoClass
       THEN /\ classes' = [classes EXCEPT ![klass_].methods = Insert(@, Stmt.name, Code(ops))]
            /\ UNCHANGED scopes
       ELSE AddFunction(Stmt.name, Code(ops)) /\ UNCHANGED classes
  /\ GoOn
  /\ UNCHANGED << frame_stack, native_stack, klass_, file_scope_, file_scope_map_, required >>

OP_CLASS_ENTER ==
  /\ At("class")
  /\ LET c == Len(classes) + 1 IN
     /\ classes' = Append(classes, [name |-> Stmt.name, file |-> ops,
                                    super |-> NoClass, methods |-> Empty])
     /\ klass_' = c
     /\ AddName(Stmt.name, Class(c))
  /\ frame_stack' = Append(frame_stack, [type |-> "class", to |-> 0])
  /\ GoOn /\ UNCHANGED << native_stack, file_scope_, file_scope_map_, required >>

IsItself(c) == classes[c].name = classes[klass_].name

\* "is Parent": the parent is looked up in the file scope only.  Without a
\* class being defined, klass() is a null pointer.
OP_SET_PARENT ==
  /\ At("parent")
  /\ IF ~Has(file_scope_, Stmt.name) THEN Raise(FALSE) /\ UNCHANGED Names
     ELSE LET v == scopes[file_scope_][Stmt.name] IN
       /\ v.is = "class"
       /\ IF IsItself(v.class)
            THEN Raise(FALSE) /\ UNCHANGED Names
            ELSE /\ classes' = [classes EXCEPT ![klass_].super = v.class]
                 /\ GoOn /\ UNCHANGED << frame_stack, native_stack, klass_, Names >>

OP_CLASS_LEAVE ==
  /\ At("class_end")
  /\ frame_stack' = Front(frame_stack)
  /\ klass_' = NoClass
  /\ GoOn /\ UNCHANGED << native_stack, classes, Names >>

\* The names of scope src are inserted in the current scope.
CopyAll(dst, src) ==
  [n \in DOMAIN dst \cup DOMAIN src |-> IF n \in DOMAIN dst THEN dst[n] ELSE src[n]]

\* VM::use once the package is required: into the scope `to`.
Import(m, all, to) ==
  scopes' = [scopes EXCEPT ![to] =
               IF all THEN CopyAll(@, scopes[file_scope_map_[m]])
                      ELSE Insert(@, m, Package(m, file_scope_map_[m]))]

\* REQUIRED holds the module's path, or undef after a failed open.
IsRequired(m) == m \in DOMAIN required

UseRequired ==
  /\ At("use") /\ IsRequired(Stmt.mod)
  /\ IF required[Stmt.mod] = "undef" THEN Raise(FALSE) /\ UNCHANGED Names
     ELSE /\ Import(Stmt.mod, Stmt.all, file_scope_)
          /\ GoOn
          /\ UNCHANGED << frame_stack, native_stack, klass_, classes,
                          file_scope_, file_scope_map_, required >>

\* No file, or a file that cannot be opened.
UseFails ==
  /\ At("use") /\ ~IsRequired(Stmt.mod)
  /\ disk[Stmt.mod].file \in {"missing", "unreadable"}
  /\ required' = IF disk[Stmt.mod].file = "missing" THEN required
                 ELSE Insert(required, Stmt.mod, "undef")
  /\ Raise(FALSE)
  /\ UNCHANGED << scopes, file_scope_, file_scope_map_ >>

\* Mutant: the user's scope is registered for the module.
UsersScope(m) ==
  /\ Len(scopes) < MaxScopes
  /\ scopes' = Append(scopes, Empty)
  /\ file_scope_' = Len(scopes) + 1
  /\ file_scope_map_' = Insert(file_scope_map_, m, file_scope_)

NewScope(m) ==
  /\ Len(scopes) < MaxScopes
  /\ scopes' = Append(scopes, Empty)
  /\ file_scope_' = Len(scopes) + 1
  /\ file_scope_map_' = Insert(file_scope_map_, m, Len(scopes) + 1)

\* eval throws when parsing or compiling fails, before anything ran.
UseBad ==
  /\ At("use") /\ ~IsRequired(Stmt.mod) /\ disk[Stmt.mod].file = "bad"
  /\ NewScope(Stmt.mod)
  /\ Raise(TRUE) /\ UNCHANGED required

\* eval starts execute() on the module's ops.
UseLoads ==
  /\ At("use") /\ ~IsRequired(Stmt.mod) /\ disk[Stmt.mod].file = "ok"
  /\ NewScope(Stmt.mod)
  /\ native_stack' = Append(native_stack,
       [mod |-> Stmt.mod, all |-> Stmt.all, ops |-> ops, pc |-> pc,
        scope |-> file_scope_, home |-> Len(scopes) + 1, frames |-> Len(frame_stack)])
  /\ ops' = Stmt.mod /\ pc' = 1
  /\ UNCHANGED << disk, frame_stack, required, klass_, classes, mode, left >>

Restored(e) == e.scope

ResumeAt(e) == e.pc + 1

\* OP_END of a module: eval cuts the frames, require_package notes the module
\* and restores the scope, use imports.
OP_END ==
  /\ mode = "run" /\ pc > Len(disk[ops].body)
  /\ IF native_stack = << >>
       THEN /\ mode' = "ended"
            /\ UNCHANGED << ops, pc, frame_stack, native_stack, klass_, Names >>
       ELSE LET e == Last(native_stack) IN
            /\ ops' = e.ops /\ pc' = ResumeAt(e)
            /\ frame_stack' = SubSeq(frame_stack, 1, e.frames)
            /\ native_stack' = Front(native_stack)
            /\ klass_' = Dropped(e.frames)
            /\ file_scope_' = Restored(e)
            /\ required' = [k \in DOMAIN required \cup {e.mod} |->
                              IF k = e.mod THEN "path" ELSE required[k]]
            /\ Import(e.mod, e.all, Restored(e))
            /\ UNCHANGED << mode, file_scope_map_ >>
  /\ UNCHANGED << disk, classes, left >>

Done == mode # "run" /\ UNCHANGED vars

Step ==
  \/ OP_TRY \/ TryEnd \/ OP_DIE \/ OP_FUNCDEF
  \/ OP_CLASS_ENTER \/ OP_SET_PARENT \/ OP_CLASS_LEAVE
  \/ UseRequired \/ UseFails \/ UseBad \/ UseLoads \/ OP_END

Next == Step \/ Done

Spec == Init /\ [][Next]_vars

-----------------------------------------------------------------------------
Values == [is : {"code"}, file : Files]
            \cup [is : {"class"}, class : 1..Len(classes)]
            \cup [is : {"package"}, mod : Modules, data : 1..Len(scopes)]

\* The types of the VM's fields: scopes and classes are referred to by their
\* place in the order they were made in (vm.h, ClassImpl, FilePackageImpl).
TypeOK ==
  /\ disk \in Disks /\ ops \in Files
  /\ pc \in 1..Len(disk[ops].body) + 1
  /\ file_scope_ \in 1..Len(scopes)
  /\ \A s \in 1..Len(scopes) : \A n \in DOMAIN scopes[s] :
       n \in Ids \cup Modules /\ scopes[s][n] \in Values
  /\ \A m \in DOMAIN file_scope_map_ : m \in Modules /\ file_scope_map_[m] \in 1..Len(scopes)
  /\ \A m \in DOMAIN required : m \in Modules /\ required[m] \in {"undef", "path"}
  /\ klass_ \in 0..Len(classes)
  /\ \A c \in 1..Len(classes) : classes[c].super \in 0..Len(classes)
  /\ mode \in {"run", "ended", "died", "strayed"}

HomeScope == IF native_stack = << >> THEN 1 ELSE Last(native_stack).home

\* The code of a file defines and looks up names in the file's own scope,
\* whatever modules it has used (require_package restores file_scope_).
OwnScope == mode = "run" => file_scope_ = HomeScope

\* The same while no module failed to compile.
OwnScopeUnlessLeft == ~left => OwnScope

\* A name of a scope keeps its value: a later definition or import of it is
\* without effect (file_scope_->insert in add_function and in use).
BindingStep ==
  \A s \in DOMAIN scopes : \A n \in DOMAIN scopes[s] : scopes'[s][n] = scopes[s][n]

\* So it is in every step (file_scope_->insert).
NeverRebound == [][BindingStep]_vars

\* No module runs twice: the check of REQUIRED in require_package.
LoadedOnce ==
  \A m \in Modules : disk[m].file = "ok" =>
     /\ \A i, j \in 1..Len(native_stack) :
          native_stack[i].mod = m /\ native_stack[j].mod = m => i = j
     /\ m \in DOMAIN required => \A i \in 1..Len(native_stack) : native_stack[i].mod # m

\* Superclasses are made before their subclasses, so that isa() and the
\* lookup of call_method along superclass() end (OP_SET_PARENT).
SuperEarlier == \A c \in 1..Len(classes) : classes[c].super < c

InClass(file, at) ==
  \E i \in 1..at - 1 :
     /\ disk[file].body[i].op = "class"
     /\ \A j \in i..at - 1 : disk[file].body[j].op # "class_end"

\* A class is being defined exactly while a class frame of it is live, also
\* when its body was left by an exception (~LexicalVarsFrame).
KlassFramed ==
  klass_ # NoClass => \E i \in 1..Len(frame_stack) : frame_stack[i].type = "class"

\* A sub written outside a class body becomes a function of the scope it is
\* run in (OP_FUNCDEF, klass()).
SubStep ==
  At("sub") /\ ~InClass(ops, pc) => Stmt.name \in DOMAIN scopes'[file_scope_]

\* So it is in every step (OP_FUNCDEF).
SubsAreFunctions == [][SubStep]_vars

\* A module that is required is complete: what its run defined is found by
\* those that imported it (file_scope_map_, copy_all_public_symbols).
PackageComplete ==
  \A m \in DOMAIN required : required[m] = "path" =>
     \A i \in 1..Len(disk[m].body) :
        disk[m].body[i].op = "class" =>
           disk[m].body[i].name \in DOMAIN scopes[file_scope_map_[m]]

\* Without a load that failed to compile, what a module defines is in its own scope.
CompleteUnlessLeft == ~left => PackageComplete

\* require_package: a module runs once, what it defined is there to be found by
\* those that import it, and file_scope_ and klass_ are left as they were found.
ModulesLoaded == LoadedOnce /\ CompleteUnlessLeft /\ OwnScopeUnlessLeft /\ KlassFramed

\* file_scope_->insert, OP_FUNCDEF: a name keeps the value it was given first,
\* and a sub outside classes becomes a function.
DefinitionsHold == [][BindingStep /\ SubStep]_vars

-----------------------------------------------------------------------------
(* What a program may do that breaks these: hypotheses of the proofs. *)

Mentions(d, f, m) == \E i \in 1..Len(d[f].body) : d[f].body[i].op = "use" /\ d[f].body[i].mod = m

\* Along "use", the numbers of files descend.
Descends(d, rank) == \A f \in Files, m \in Modules : Mentions(d, f, m) => rank[m] < rank[f]

\* No module uses itself, directly or through others.
NoCycle(d) == \E rank \in [Files -> 0..Cardinality(Files)] : Descends(d, rank)

\* No class is behind a statement that may throw in the same try.
NoClassSkipped(d) ==
  \A f \in Files : LET body == d[f].body IN
    \A p \in 1..Len(body) : body[p].op \in {"die", "use", "parent"} =>
      \A k \in 1..Len(FramesAt(body)[p]) : FramesAt(body)[p][k].type = "try" =>
        \A j \in p + 1..FramesAt(body)[p][k].to - 1 : body[j].op # "class"

\* Modules are used outside classes (klass_ of the class would take their subs).
NoUseInClass(d) ==
  \A f \in Files : LET body == d[f].body IN
    \A p \in 1..Len(body) : body[p].op = "use" => ~Holds(FramesAt(body)[p], "class")

\* A module that failed to compile is remembered in REQUIRED, as the message
\* "Compilation failed in require" says.
FailureRemembered ==
  \A m \in DOMAIN file_scope_map_ : disk[m].file = "bad" => m \in DOMAIN required
=============================================================================
