------------------------------ MODULE Classes ------------------------------
(***************************************************************************)
(* Classes and the dispatch of methods: OP_CLASS_ENTER, OP_SET_PARENT,     *)
(* OP_FUNCDEF in a class body, bless, VM::call_method with its search      *)
(* through superclasses, Class and Object, and the methods of Object and   *)
(* MetaClass.  A class is referred to by its place in the order the        *)
(* classes were made in; the builtin ones come first.  What a method does  *)
(* when it runs is left to module VM.                                      *)
(***************************************************************************)
EXTENDS Integers, Sequences, FiniteSets, SequencesExt

CONSTANTS
  Names,      \* names a program gives to its classes
  Methods,    \* names of the methods of a program
  Types,      \* types of the values methods are called on, see TypeName
  MaxClasses, \* bound: the program makes no more classes than this
  MaxObjects  \* bound: nor more objects

ClassesAssumption == MaxClasses \in Nat /\ MaxObjects \in Nat

VARIABLES
  classes,      \* all classes: their name, superclass and methods
  file_scope_,  \* class name -> class
  klass_,       \* the class being defined, or NoClass
  objects,      \* all objects: their class and data
  result        \* the last call: receiver, method and what came of it

vars == << classes, file_scope_, klass_, objects, result >>

NoClass == 0

\* The classes of load_builtin_objects that matter here, and their methods.
OBJECT_CLASS == 1
CLASS_CLASS  == 2
METACLASS    == 3
NewClass(n) == [name |-> n, super |-> NoClass, methods |-> {}]
Builtin ==
  << [NewClass("Object") EXCEPT !.methods = {"tora", "meta", "isa", "bless"}],
     [NewClass("Class") EXCEPT !.methods = {"name"}],
     [NewClass("MetaClass") EXCEPT
        !.methods = {"has_method", "get_method_list", "name", "superclass", "bless"}],
     [NewClass("Int") EXCEPT !.methods = {}],
     [NewClass("Array") EXCEPT !.methods = {"size"}],
     [NewClass("FilePackage") EXCEPT !.methods = {}] >>

MethodNames == Methods \cup UNION {Builtin[i].methods : i \in DOMAIN Builtin}

\* Value::type_str.
TypeName(t) ==
  CASE t = "int" -> "Int" [] t = "array" -> "Array" [] t = "bool" -> "Bool"
    [] t = "range" -> "Range" [] t = "exception" -> "Exception" [] t = "undef" -> "Undef"

\* Value::object_package_id.
PackageName(t) == IF t = "bool" THEN "Boolean" ELSE TypeName(t)

\* get_builtin_class aborts for a name that is not there.
BuiltinNamed(n) == {i \in DOMAIN Builtin : Builtin[i].name = n}

\* Values: of a basic type, classes, and objects.
Basic(t)   == [type |-> t, of |-> 0]
ClassVal(c) == [type |-> "class", of |-> c]
ObjectVal(o) == [type |-> "object", of |-> o]

Receivers ==
  {Basic(t) : t \in Types} \cup {ClassVal(c) : c \in DOMAIN classes}
    \cup {ObjectVal(o) : o \in DOMAIN objects}

NoResult == [recv |-> Basic("undef"), id |-> "none", arg |-> "", out |-> "none", value |-> 0]

Init ==
  /\ classes = Builtin /\ file_scope_ = << >> /\ klass_ = NoClass
  /\ objects = << >> /\ result = NoResult

-----------------------------------------------------------------------------
(* Definitions. *)

\* A new class each time the class statement runs; the first of a name stays
\* in the scope.
OP_CLASS_ENTER == \E n \in Names :
  /\ klass_ = NoClass /\ Len(classes) < MaxClasses
  /\ classes' = Append(classes, NewClass(n))
  /\ klass_' = Len(classes) + 1
  /\ file_scope_' = IF n \in DOMAIN file_scope_ THEN file_scope_
                    ELSE [k \in DOMAIN file_scope_ \cup {n} |->
                            IF k = n THEN Len(classes) + 1 ELSE file_scope_[k]]
  /\ result' = NoResult /\ UNCHANGED objects

\* A class of the name of the one being defined is refused.
IsOtherName(c) == classes[c].name # classes[klass_].name

OP_SET_PARENT == \E n \in DOMAIN file_scope_ :
  /\ klass_ # NoClass /\ classes[klass_].super = NoClass
  /\ IsOtherName(file_scope_[n])
  /\ classes' = [classes EXCEPT ![klass_].super = file_scope_[n]]
  /\ result' = NoResult
  /\ UNCHANGED << file_scope_, klass_, objects >>

\* ClassValue::add_method
add_method == \E m \in Methods :
  /\ klass_ # NoClass
  /\ classes' = [classes EXCEPT ![klass_].methods = @ \cup {m}]
  /\ result' = NoResult
  /\ UNCHANGED << file_scope_, klass_, objects >>

OP_CLASS_LEAVE ==
  /\ klass_ # NoClass /\ klass_' = NoClass
  /\ result' = NoResult
  /\ UNCHANGED << classes, file_scope_, objects >>

-----------------------------------------------------------------------------
(* The search of VM::call_method. *)

HasMethod(c, m) == m \in classes[c].methods
NameOf(c) == classes[c].name

RECURSIVE Search(_, _, _, _)

\* No class in the chain has the method: Class for a class, then Object,
\* unless a class of that name was searched already.
Universal(is_class, c, m, seen) ==
  IF is_class /\ "Class" \notin seen
    THEN Search(is_class, CLASS_CLASS, m, seen)
  ELSE IF NameOf(c) # "Object" /\ "Object" \notin seen
    THEN Search(is_class, OBJECT_CLASS, m, seen)
  ELSE NoClass

\* Mutant: the superclass is searched first.
OverridesLast(is_class, c, m, seen0) ==
  LET seen == seen0 \cup {NameOf(c)}
      up == IF classes[c].super = NoClass THEN NoClass
            ELSE Search(is_class, classes[c].super, m, seen)
  IN  IF up # NoClass THEN up
      ELSE IF HasMethod(c, m) THEN c ELSE Universal(is_class, c, m, seen)

Search(is_class, c, m, seen0) ==
  LET seen == seen0 \cup {NameOf(c)} IN
  IF HasMethod(c, m) THEN c
  ELSE IF classes[c].super # NoClass THEN Search(is_class, classes[c].super, m, seen)
  ELSE Universal(is_class, c, m, seen)

\* The class the search starts at: NoClass when there is none, and the
\* interpreter aborts.
StartClass(v) ==
  IF v.type = "object" THEN objects[v.of].class
  ELSE IF v.type = "class" THEN v.of
  ELSE LET b == BuiltinNamed(TypeName(v.type))
       IN  IF b = {} THEN NoClass ELSE CHOOSE i \in b : TRUE

\* [out, value]: the class whose method runs, or what became of the call.
Dispatch(v, m) ==
  IF v.type = "undef" THEN [out |-> "throws", value |-> NoClass]
  ELSE IF StartClass(v) = NoClass THEN [out |-> "aborts", value |-> NoClass]
  ELSE LET c == Search(v.type = "class", StartClass(v), m, {})
       IN  IF c = NoClass THEN [out |-> "throws", value |-> NoClass]
           ELSE [out |-> "runs", value |-> c]

Calls(v, m) == Dispatch(v, m).out = "runs"
Owner(v, m) == Dispatch(v, m).value

Quiet == klass_ = NoClass /\ result = NoResult

Answers(v, m, arg, out, x) ==
  /\ result' = [recv |-> v, id |-> m, arg |-> arg, out |-> out, value |-> x]
  /\ UNCHANGED << classes, file_scope_, klass_ >>

Returns(v, m, out, x) == Answers(v, m, "", out, x)

\* A method of the program, or one whose result is of no interest here.
OP_METHOD_CALL == \E v \in Receivers, m \in MethodNames \ {"bless", "isa", "superclass", "meta"} :
  /\ Quiet
  /\ Returns(v, m, Dispatch(v, m).out, Dispatch(v, m).value)
  /\ UNCHANGED objects

-----------------------------------------------------------------------------
(* Methods of Object and MetaClass. *)

New(c, data) == objects' = Append(objects, [class |-> c, data |-> data])

\* mc_bless of Object: on a class; MetaClass has a bless of its own that takes
\* the meta object itself for a class.
bless == \E v \in Receivers :
  /\ Quiet /\ Len(objects) < MaxObjects
  /\ IF ~Calls(v, "bless") THEN Returns(v, "bless", Dispatch(v, "bless").out, 0) /\ UNCHANGED objects
     ELSE CASE Owner(v, "bless") = METACLASS ->
                 Returns(v, "bless", "confused", 0) /\ UNCHANGED objects
            [] Owner(v, "bless") = OBJECT_CLASS /\ v.type = "class" ->
                 New(v.of, 0) /\ Returns(v, "bless", "object", Len(objects) + 1)
            [] OTHER -> Returns(v, "bless", "throws", 0) /\ UNCHANGED objects

\* object_meta: an object of MetaClass whose data is the class.
meta == \E v \in Receivers :
  /\ Quiet /\ Len(objects) < MaxObjects
  /\ IF ~Calls(v, "meta") THEN Returns(v, "meta", Dispatch(v, "meta").out, 0) /\ UNCHANGED objects
     ELSE LET c == IF v.type \in {"object", "class"} THEN StartClass(v)
                   ELSE IF BuiltinNamed(PackageName(v.type)) = {} THEN NoClass
                   ELSE CHOOSE i \in BuiltinNamed(PackageName(v.type)) : TRUE
          IN  IF c = NoClass THEN Returns(v, "meta", "aborts", 0) /\ UNCHANGED objects
              ELSE New(METACLASS, c) /\ Returns(v, "meta", "object", Len(objects) + 1)

RECURSIVE Isa(_, _)
Isa(c, n) ==
  \/ NameOf(c) = n
  \/ classes[c].super # NoClass /\ Isa(classes[c].super, n)

\* object_isa, of objects only: for other values it is not implemented.
isa == \E v \in Receivers, n \in Names \cup {"Object"} :
  /\ Quiet /\ Calls(v, "isa") /\ Owner(v, "isa") = OBJECT_CLASS
  /\ IF v.type = "object"
       THEN Answers(v, "isa", n, IF Isa(objects[v.of].class, n) THEN "true" ELSE "false", 0)
       ELSE Answers(v, "isa", n, "aborts", 0)
  /\ UNCHANGED objects

\* mc_superclass: the class, or undef.
superclass == \E o \in DOMAIN objects :
  /\ Quiet /\ objects[o].class = METACLASS
  /\ LET s == classes[objects[o].data].super IN
     Returns(ObjectVal(o), "superclass", IF s = NoClass THEN "undef" ELSE "class", s)
  /\ UNCHANGED objects

NextCall ==
  /\ result # NoResult /\ klass_ = NoClass
  /\ result' = NoResult /\ UNCHANGED << classes, file_scope_, klass_, objects >>

Next ==
  \/ OP_CLASS_ENTER \/ OP_SET_PARENT \/ add_method \/ OP_CLASS_LEAVE
  \/ OP_METHOD_CALL \/ bless \/ meta \/ isa \/ superclass \/ NextCall

Spec == Init /\ [][Next]_vars

-----------------------------------------------------------------------------
\* Classes refer to classes, objects to classes (ClassImpl, ObjectImpl).
TypeOK ==
  /\ \A c \in DOMAIN classes :
       classes[c].super \in 0..Len(classes) /\ classes[c].methods \subseteq MethodNames
  /\ \A n \in DOMAIN file_scope_ : file_scope_[n] \in DOMAIN classes
  /\ klass_ \in 0..Len(classes)
  /\ \A o \in DOMAIN objects :
       objects[o].class \in DOMAIN classes /\ objects[o].data \in 0..Len(classes)

\* The superclasses of c and c itself.
RECURSIVE Line(_)
Line(c) == {c} \cup (IF classes[c].super = NoClass THEN {} ELSE Line(classes[c].super))

\* A class has no superclass that was made after it, so that the search of
\* call_method and isa come to an end (OP_SET_PARENT).
Rooted == \A c \in DOMAIN classes : classes[c].super < c

\* A method that overrides one of a superclass is the one that runs, whatever
\* class of the line the receiver has (VM::call_method).
OverrideRuns ==
  result.out = "runs" /\ result.recv.type = "object" =>
    LET line == Line(objects[result.recv.of].class)  c == result.value
    IN  c \in line => \A d \in line : HasMethod(d, result.id) => d <= c

\* A class answers what Class and Object offer, an object what Object offers
\* (call_method, "object class(UNIVERSAL)").
AnswersUniversal ==
  \/ result.recv.type = "class" /\ result.id \in {"name", "tora"}
  \/ result.recv.type = "object" /\ result.id = "tora"
  => result.out = "runs"

\* What isa() says is what dispatch does: an object that is a C answers every
\* method that the class registered as C has, when C has no namesake.
IsaAnswers ==
  result.id = "isa" /\ result.out = "true" =>
    \A c \in DOMAIN classes :
      NameOf(c) = result.arg /\ (\A d \in DOMAIN classes : NameOf(d) = result.arg => d = c)
        => \A m \in classes[c].methods : Calls(result.recv, m)

\* And isa() is true exactly of the names of the object's line of classes
\* (ObjectValue::isa).
IsaComplete ==
  result.id = "isa" /\ result.out \in {"true", "false"} =>
    (result.out = "true"
      <=> \E c \in Line(objects[result.recv.of].class) : NameOf(c) = result.arg)

\* Object is a base class of all classes (docs/source/object/object.rst).
IsaObject == result.id = "isa" /\ result.arg = "Object" => result.out # "false"

\* A value answers the methods of Object (docs/source/object/object.rst).
ObjectMethodsRun == result.id = "tora" => result.out # "aborts"

\* superclass() gives a string (docs/source/object/metaclass.rst).
SuperclassIsString == result.id = "superclass" => result.out \in {"string", "undef"}

\* bless() of a meta class makes an object of the class
\* (docs/source/object/metaclass.rst).
MetaBlessMakesObject ==
  result.id = "bless" /\ result.recv.type = "object"
    /\ objects[result.recv.of].class = METACLASS => result.out = "object"
=============================================================================
