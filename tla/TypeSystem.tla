----------------------------- MODULE TypeSystem -----------------------------
(***************************************************************************)
(* SourceRepresentation::CreateCxxTypes: every cable::Type of a source     *)
(* representation gets its C++ type from the cxx::TypeSystem, which keeps  *)
(* one object for each C++ type (Cable/CxxTypes/cxxTypeSystem.cxx and      *)
(* CreateCxxType in Cable/Parsers).                                        *)
(*                                                                         *)
(* The maps of the TypeSystem are one sequence of keys here: an object is  *)
(* its position, a look-up finds the key.  The recursion of CreateCxxType  *)
(* and Class::GetCxxClassType is a stack of frames.  The types are visited *)
(* in the order of their ids, which means nothing: any order is possible.  *)
(***************************************************************************)
EXTENDS Naturals, Sequences, Functions

CONSTANTS
  CableType,     \* the cable::Type objects
  Class,         \* the cable::Class objects
  Name,          \* qualified names and names of fundamental types
  Fundamental,   \* FundamentalType::Id
  IdOfName,      \* the FundamentalType::Id of each name that has one
  Null,          \* a null pointer, or no name
  Programs       \* the source representations considered

Qualifier == {"const", "volatile"}

(***************************************************************************)
(* A cable type: what it points to or refers to (the element type of an    *)
(* array, the result of a function, the member of an offset type), the     *)
(* arguments of a function, the class of a class, method or offset type,   *)
(* the name of a fundamental type or enumeration, its cv-qualifiers and    *)
(* the length of an array.  The parser does not qualify a function, method *)
(* or reference, leaves the target null where it found no type, and makes  *)
(* an unqualified type for each class.                                     *)
(***************************************************************************)
CableTypeInfo == [ kind   : {"Fundamental", "Enumeration", "Class", "Pointer", "Reference",
                             "Array", "Function", "Method", "Offset"},
                   target : CableType \cup {Null},
                   args   : Seq(CableType),
                   class  : Class \cup {Null},
                   name   : Name \cup {Null},
                   cv     : SUBSET Qualifier,
                   length : Nat ]

\* A class: its qualified name, its public bases, and whether it is abstract and has
\* a public copy constructor.
ClassInfo == [name : Name, bases : Seq(Class), abstract : BOOLEAN, copies : BOOLEAN]

\* A source representation; not every class is part of it.
IsProgram(p) ==
  /\ p = [types |-> p.types, classes |-> p.classes]
  /\ p.types \in [CableType -> CableTypeInfo]
  /\ DOMAIN p.classes \subseteq Class
  /\ p.classes \in [DOMAIN p.classes -> ClassInfo]

\* A type is made of other types, and a class of its bases, in no cycle.  The names of
\* the bases may well form one: in  struct A {}; void f() { struct A : ::A {}; }  the
\* local class has the qualified name of its base.
WellFounded(p) ==
  LET Parts(t) == ({p.types[t].target} \ {Null}) \cup Range(p.types[t].args)
  IN  /\ \A S \in SUBSET CableType :
           S # {} => \E t \in S : Parts(t) \cap S = {}
      /\ \A S \in SUBSET DOMAIN p.classes :
           S # {} => \E c \in S : Range(p.classes[c].bases) \cap S = {}

ASSUME TypeSystemAssumption ==
  /\ Null \notin CableType \cup Class \cup Name
  /\ IdOfName \in [Name -> Fundamental \cup {Null}]
  /\ \A p \in Programs :
       /\ IsProgram(p)
       /\ WellFounded(p)
       /\ \A t \in CableType :
            LET info == p.types[t]
            IN  /\ info.kind \in {"Class", "Method", "Offset"}
                     => info.class \in DOMAIN p.classes
                /\ info.kind \in {"Fundamental", "Enumeration"} => info.name # Null
                /\ info.kind \in {"Function", "Method", "Reference"} => info.cv = {}
       /\ \A c \in DOMAIN p.classes : Range(p.classes[c].bases) \subseteq DOMAIN p.classes
       /\ \A c \in DOMAIN p.classes : \E t \in CableType :
            p.types[t].kind = "Class" /\ p.types[t].class = c /\ p.types[t].cv = {}

VARIABLES
  program,     \* the source representation
  m_CxxType,   \* the cxx::CvQualifiedType of each cable type, or NoCxxType
  objects,     \* the keys in the maps of the TypeSystem, oldest first
  m_Parents,   \* the parents of each ClassType object
  m_Copyable,  \* the ClassType objects that are copyable
  stack,       \* active calls of CreateCxxType and GetCxxClassType, innermost first
  remaining,   \* types the loop has yet to visit
  phase,       \* "types" or "done"
  result       \* the result of CreateCxxTypes

system == << objects, m_Parents, m_Copyable >>
vars == << program, m_CxxType, system, stack, remaining, phase, result >>

\* A null cxx::CvQualifiedType.
NoCxxType == [of |-> 0, cv |-> {}]

-----------------------------------------------------------------------------
(* The TypeSystem. *)

\* The keys of its maps.  A named type has no parts; a class is known by its name
\* alone, and only the key of a pointer to member refers to a class.
Key(kind, name, parts, class, length) ==
  [kind |-> kind, name |-> name, parts |-> parts, class |-> class, length |-> length]

\* Mutant: the length of an array is not part of the key.
ArrayTypeKeyUnsized(element, length) == Key("Array", Null, << element >>, 0, 0)

ArrayTypeKey(element, length) == Key("Array", Null, << element >>, 0, length)
ClassTypeKey(name) == Key("Class", name, << >>, 0, 0)
EnumerationTypeKey(name) == Key("Enumeration", name, << >>, 0, 0)
FunctionTypeKey(returns, arguments) ==
  Key("Function", Null, << returns >> \o arguments, 0, 0)
FundamentalTypeKey(id) == Key("Fundamental", id, << >>, 0, 0)
PointerTypeKey(type) == Key("Pointer", Null, << type >>, 0, 0)
PointerToMemberTypeKey(type, class) == Key("PointerToMember", Null, << type >>, class, 0)
ReferenceTypeKey(type) == Key("Reference", Null, << type >>, 0, 0)

\* The object with this key, 0 if there is none.
Find(objs, key) ==
  LET found == {i \in 1 .. Len(objs) : objs[i] = key}
  IN  IF found = {} THEN 0 ELSE CHOOSE i \in found : TRUE

\* Get...Type: the objects after a request for the one with this key.
Intern(objs, key) == IF Find(objs, key) # 0 THEN objs ELSE Append(objs, key)

\* The objects after one or two requests.
Interned(objs, keys) ==
  IF Len(keys) = 1 THEN Intern(objs, keys[1]) ELSE Intern(Intern(objs, keys[1]), keys[2])

\* Mutant: the parents given last replace the others.
MergeParentsLast(known, parents) == parents

\* ClassType::MergeClassInformation, the parents.
MergeParents(known, parents) == IF Len(parents) > Len(known) THEN parents ELSE known

GetMoreQualifiedType(type, cv) == [type EXCEPT !.cv = @ \cup cv]

-----------------------------------------------------------------------------
(* The requests of a cable type. *)

Info(t) == program.types[t]
ClassName(c) == program.classes[c].name

TypeCall(t) == [at |-> "type", of |-> t, next |-> 1]
ClassCall(c) == [at |-> "class", of |-> c, next |-> 1]

\* The calls that CreateCxxType of t makes, in order.
Parts(t) ==
  LET arguments == [i \in 1 .. Len(Info(t).args) |-> TypeCall(Info(t).args[i])]
  IN  CASE Info(t).kind = "Class" -> << ClassCall(Info(t).class) >>
        [] Info(t).kind \in {"Pointer", "Reference", "Array"} -> << TypeCall(Info(t).target) >>
        [] Info(t).kind = "Function" -> << TypeCall(Info(t).target) >> \o arguments
        [] Info(t).kind = "Method" ->
             << ClassCall(Info(t).class), TypeCall(Info(t).target) >> \o arguments
        [] Info(t).kind = "Offset" ->
             << TypeCall(Info(t).target), ClassCall(Info(t).class) >>
        [] OTHER -> << >>

\* The calls that a frame makes.
Calls(frame) ==
  IF frame.at = "type" THEN Parts(frame.of)
  ELSE LET bases == program.classes[frame.of].bases
       IN  [i \in 1 .. Len(bases) |-> ClassCall(bases[i])]

Top == Head(stack)

\* A missing target, which a type that is made of it refuses, and a fundamental type
\* with an unknown name.
Broken(t) ==
  t # Null => Info(t).kind = "Fundamental" /\ IdOfName[Info(t).name] = Null

\* There is no type of a method or of an offset: they stand for pointers to members
\* already, and a pointer to one of them is the same pointer.
PointsToMember(t) ==
  Info(t).kind = "Pointer" /\ Info(Info(t).target).kind \in {"Method", "Offset"}

Cxx(t) == m_CxxType[t]
ClassObject(c) == Find(objects, ClassTypeKey(ClassName(c)))

\* GetCxxFunctionType: the result and the arguments.
FunctionKey(t) ==
  FunctionTypeKey(Cxx(Info(t).target), [i \in 1 .. Len(Info(t).args) |-> Cxx(Info(t).args[i])])

\* Mutant: the type of the function is not requested.
MethodKeysPointerOnly(t) ==
  << PointerToMemberTypeKey([of |-> Find(Intern(objects, FunctionKey(t)), FunctionKey(t)),
                             cv |-> {}],
                            ClassObject(Info(t).class)) >>

\* A method type requests the type of a function, then a pointer to such a member.
MethodKeys(t) ==
  << FunctionKey(t),
     PointerToMemberTypeKey([of |-> Find(Intern(objects, FunctionKey(t)), FunctionKey(t)),
                             cv |-> {}],
                            ClassObject(Info(t).class)) >>

\* The keys that t requests from the TypeSystem, in order, when its parts are there.
Keys(t) ==
  LET k      == Info(t).kind
      target == Cxx(Info(t).target)
      member == GetMoreQualifiedType(target, Info(t).cv)
  IN  CASE k = "Fundamental" -> << FundamentalTypeKey(IdOfName[Info(t).name]) >>
        [] k = "Enumeration" -> << EnumerationTypeKey(Info(t).name) >>
        [] k = "Class" -> << ClassTypeKey(ClassName(Info(t).class)) >>
        [] k = "Pointer" -> << PointerTypeKey(target) >>
        [] k = "Reference" -> << ReferenceTypeKey(target) >>
        [] k = "Array" -> << ArrayTypeKey(member, Info(t).length) >>
        [] k = "Function" -> << FunctionKey(t) >>
        [] k = "Method" -> MethodKeys(t)
        [] k = "Offset" -> << PointerToMemberTypeKey(member, ClassObject(Info(t).class)) >>

\* The cv-qualifiers of the type itself; those of an array or of a member have gone
\* to the element or the member.
TopQualifiers(t) == IF Info(t).kind \in {"Array", "Offset"} THEN {} ELSE Info(t).cv

-----------------------------------------------------------------------------
Init ==
  /\ program \in Programs
  /\ m_CxxType = [t \in CableType |-> NoCxxType]
  /\ objects = << >>
  /\ m_Parents = << >>
  /\ m_Copyable = {}
  /\ stack = << >>
  /\ remaining = CableType
  /\ phase = "types"
  /\ result = FALSE

\* One turn of the loop of CreateCxxTypes.
CreateCxxTypes(t) ==
  /\ phase = "types"
  /\ stack = << >>
  /\ t \in remaining
  /\ remaining' = remaining \ {t}
  /\ stack' = << TypeCall(t) >>
  /\ UNCHANGED << program, m_CxxType, system, phase, result >>

\* The call at the top is for a type that has been created before.
AlreadyCreated ==
  /\ stack # << >>
  /\ Top.at = "type"
  /\ Top.of # Null
  /\ Cxx(Top.of) # NoCxxType
  /\ stack' = Tail(stack)
  /\ UNCHANGED << program, m_CxxType, system, remaining, phase, result >>

\* The call at the top can go on.
Working ==
  /\ stack # << >>
  /\ Top.at = "type" => ~ Broken(Top.of) /\ Cxx(Top.of) = NoCxxType

\* All that the call at the top needs is created.
Ready(at) == Working /\ Top.at = at /\ Top.next > Len(Calls(Top))

\* The next part or base class is created.
CreatePart ==
  /\ Working
  /\ Top.next <= Len(Calls(Top))
  /\ stack' = << Calls(Top)[Top.next], [Top EXCEPT !.next = @ + 1] >> \o Tail(stack)
  /\ UNCHANGED << program, m_CxxType, system, remaining, phase, result >>

\* The type at the top is requested from the TypeSystem.
CreateCxxType ==
  /\ Ready("type")
  /\ ~ PointsToMember(Top.of)
  /\ LET keys == Keys(Top.of)
     IN  /\ objects' = Interned(objects, keys)
         /\ m_CxxType' = [m_CxxType EXCEPT ![Top.of] =
                            [of |-> Find(objects', keys[Len(keys)]), cv |-> TopQualifiers(Top.of)]]
  /\ m_Parents' = m_Parents \o [i \in 1 .. Len(objects') - Len(objects) |-> << >>]
  /\ stack' = Tail(stack)
  /\ UNCHANGED << program, m_Copyable, remaining, phase, result >>

\* The pointer at the top is the pointer to member that its target stands for.
CreatePointerToMember ==
  /\ Ready("type")
  /\ PointsToMember(Top.of)
  /\ m_CxxType' = [m_CxxType EXCEPT ![Top.of] =
                     GetMoreQualifiedType(Cxx(Info(Top.of).target), Info(Top.of).cv)]
  /\ stack' = Tail(stack)
  /\ UNCHANGED << program, system, remaining, phase, result >>

\* Class::HasPublicCopyConstructor.
HasPublicCopyConstructor ==
  LET has[c \in DOMAIN program.classes] ==
        /\ program.classes[c].copies
        /\ \A b \in Range(program.classes[c].bases) : has[b]
  IN  has

\* The ClassType objects that are copyable after a request.
Copyable(known, object, isCopyable) ==
  IF isCopyable THEN known \cup {object} ELSE known

\* GetCxxClassType: all bases are created, and the class is requested from the
\* TypeSystem, which merges what it knows of a class of this name.
GetClassType ==
  /\ Ready("class")
  /\ LET class   == program.classes[Top.of]
         parents == [i \in 1 .. Len(class.bases) |-> ClassObject(class.bases[i])]
         isCopyable == ~ class.abstract /\ HasPublicCopyConstructor[Top.of]
         known   == ClassObject(Top.of)
     IN  /\ objects' = Intern(objects, ClassTypeKey(class.name))
         /\ m_Parents' = IF known = 0 THEN Append(m_Parents, parents)
                         ELSE [m_Parents EXCEPT ![known] = MergeParents(@, parents)]
         /\ m_Copyable' = Copyable(m_Copyable, Find(objects', ClassTypeKey(class.name)),
                                 isCopyable)
  /\ stack' = Tail(stack)
  /\ UNCHANGED << program, m_CxxType, remaining, phase, result >>

\* A type cannot be created: every caller returns false.
Fail ==
  /\ stack # << >>
  /\ Top.at = "type"
  /\ Broken(Top.of)
  /\ stack' = << >>
  /\ phase' = "done"
  /\ UNCHANGED << program, m_CxxType, system, remaining, result >>

\* The loop has visited every type.
EndTypes ==
  /\ phase = "types"
  /\ stack = << >>
  /\ remaining = {}
  /\ phase' = "done"
  /\ result' = TRUE
  /\ UNCHANGED << program, m_CxxType, system, stack, remaining >>

Next ==
  \/ \E t \in CableType : CreateCxxTypes(t)
  \/ AlreadyCreated
  \/ CreatePart
  \/ CreateCxxType
  \/ CreatePointerToMember
  \/ GetClassType
  \/ Fail
  \/ EndTypes

Spec == Init /\ [][Next]_vars

-----------------------------------------------------------------------------
(* Properties. *)

CvQualifiedType == [of : 1 .. Len(objects), cv : SUBSET Qualifier]

ObjectKind == {"Array", "Class", "Enumeration", "Function", "Fundamental", "Pointer",
               "PointerToMember", "Reference"}

\* Every variable has its type; an object refers to older ones.
TypeOK ==
  /\ program \in Programs
  /\ \A t \in CableType : Cxx(t) = NoCxxType \/ Cxx(t) \in CvQualifiedType
  /\ \A i \in 1 .. Len(objects) :
       /\ objects[i].kind \in ObjectKind
       /\ objects[i].parts \in Seq([of : 1 .. i - 1, cv : SUBSET Qualifier])
       /\ objects[i].kind = "PointerToMember" => objects[i].class \in 1 .. i - 1
  /\ Len(m_Parents) = Len(objects)
  /\ \A i \in 1 .. Len(objects) : m_Parents[i] \in Seq(1 .. Len(objects))
  /\ m_Copyable \subseteq 1 .. Len(objects)
  /\ stack \in Seq([at : {"type"}, of : CableType \cup {Null}, next : Nat \ {0}]
                     \cup [at : {"class"}, of : Class, next : Nat \ {0}])
  /\ remaining \subseteq CableType
  /\ phase \in {"types", "done"}
  /\ result \in BOOLEAN

\* A C++ type as a term: the types it is made of, not objects for them.
Term(kind, name, parts, class, length) ==
  [ kind |-> kind, name |-> name, parts |-> parts, class |-> class, length |-> length,
    cv |-> {} ]

\* The C++ type that each cable type denotes, those of the types it is made of given.
Denoted(t, meaning) ==
  LET k    == Info(t).kind
      cv   == Info(t).cv
      more(type) == GetMoreQualifiedType(type, cv)
      target    == meaning[Info(t).target]
      arguments == [i \in 1 .. Len(Info(t).args) |-> meaning[Info(t).args[i]]]
      function  == Term("Function", Null, << target >> \o arguments, Null, 0)
  IN  CASE k = "Fundamental" -> more(Term(k, IdOfName[Info(t).name], << >>, Null, 0))
        [] k = "Enumeration" -> more(Term(k, Info(t).name, << >>, Null, 0))
        [] k = "Class" -> more(Term(k, ClassName(Info(t).class), << >>, Null, 0))
        [] PointsToMember(t) -> more(target)
        [] k = "Pointer" /\ ~ PointsToMember(t) -> more(Term(k, Null, << target >>, Null, 0))
        [] k = "Reference" -> Term(k, Null, << target >>, Null, 0)
        [] k = "Array" -> Term(k, Null, << more(target) >>, Null, Info(t).length)
        [] k = "Function" -> function
        [] k = "Method" ->
             Term("PointerToMember", Null, << function >>, ClassName(Info(t).class), 0)
        [] k = "Offset" ->
             Term("PointerToMember", Null, << more(target) >>, ClassName(Info(t).class), 0)

\* A missing type denotes nothing.
Meaning ==
  LET meaning[t \in CableType \cup {Null}] ==
        IF t = Null THEN Null ELSE Denoted(t, meaning)
  IN  meaning

\* A type that is not made of a missing one, or fundamental with an unknown name.
Creatable(t) ==
  /\ ~ Broken(t)
  /\ Info(t).kind \notin {"Fundamental", "Enumeration", "Class"} => Info(t).target # Null

\* Types are unique: two cable types have the same pointer and qualifiers exactly
\* when they denote the same C++ type, whichever was created first and from within
\* which other one, as the comparisons of CvQualifiedType assume; and CreateCxxTypes
\* succeeds exactly when every type can be created, and then each has been.
TypesUnique ==
  LET meaning == Meaning
      Created == {t \in CableType : Cxx(t) # NoCxxType}
  IN  /\ \A t, u \in Created : Cxx(t) = Cxx(u) <=> meaning[t] = meaning[u]
      /\ result => Created = CableType
      /\ phase = "done" => (result <=> \A t \in CableType : Creatable(t))

\* The class and all of its bases.
Lineage(c) ==
  LET Closed(S) == \A d \in S : Range(program.classes[d].bases) \subseteq S
      All == DOMAIN program.classes
  IN  {d \in All : \A S \in SUBSET All : c \in S /\ Closed(S) => d \in S}

\* In the end a ClassType is copyable exactly when one of the classes of its name can
\* be copied, but its parents are those of a single one of them, one with the most.
\* The parents that the others have are lost, although MergeClassInformation is said
\* to merge them, and among several with the most the order of creation decides.
LongestParentsKept ==
  result =>
    \A c \in DOMAIN program.classes :
      LET o     == ClassObject(c)
          alike == {d \in DOMAIN program.classes : ClassName(d) = ClassName(c)}
          bases(d) == program.classes[d].bases
      IN  /\ o \in m_Copyable <=>
               \E d \in alike : /\ ~ program.classes[d].abstract
                               /\ \A b \in Lineage(d) : program.classes[b].copies
          /\ \E d \in alike :
               /\ m_Parents[o] = [i \in 1 .. Len(bases(d)) |-> ClassObject(bases(d)[i])]
               /\ \A e \in alike : Len(bases(e)) <= Len(bases(d))

-----------------------------------------------------------------------------
(* The invariant that the proofs in TypeSystemProofs are by induction on. *)

ObjectKey == [ kind   : ObjectKind,
               name   : Name \cup Fundamental \cup {Null},
               parts  : Seq([of : Nat, cv : SUBSET Qualifier]),
               class  : Nat,
               length : Nat ]

\* A type with other qualifiers.
Qualified(type, cv) == [type EXCEPT !.cv = cv]

\* The C++ type that a CvQualifiedType stands for, those of the objects given.
As(types, type) == Qualified(types[type.of], type.cv)

\* The C++ type that a key stands for.
TypeOfKey(key, types) ==
  Term( key.kind, key.name,
        [p \in DOMAIN key.parts |-> As(types, key.parts[p])],
        IF key.class = 0 THEN Null ELSE types[key.class].name,
        key.length )

\* A key that refers to the first n objects.
KeySound(objs, n, key) ==
  /\ key \in ObjectKey
  /\ key.parts \in Seq([of : 1 .. n, cv : SUBSET Qualifier])
  /\ key.class \in 0 .. n
  /\ key.class # 0 => objs[key.class].kind = "Class"
  /\ key.kind = "PointerToMember" <=> key.class # 0
  /\ key.kind \in {"Pointer", "PointerToMember", "Reference"} => Len(key.parts) = 1
  /\ key.kind = "Class" => \E c \in DOMAIN program.classes : key = ClassTypeKey(ClassName(c))

\* No key is there twice.
ObjectsSound(objs) ==
  /\ objs \in Seq(ObjectKey)
  /\ \A i \in 1 .. Len(objs) : KeySound(objs, i - 1, objs[i])
  /\ \A i, j \in 1 .. Len(objs) : objs[i] = objs[j] => i = j

\* Every object stands for a type of its own.
Stands(objs, types) ==
  /\ \A i \in 1 .. Len(objs) : types[i] = TypeOfKey(objs[i], types)
  /\ \A i, j \in 1 .. Len(objs) : types[i] = types[j] => i = j

\* What has been created for a cable type stands for what the cable type denotes.
Denotes(types) ==
  \A t \in CableType : Cxx(t) # NoCxxType =>
    /\ Cxx(t) \in CvQualifiedType
    /\ Meaning[t] = As(types, Cxx(t))

Bases(c) == program.classes[c].bases
IsCopyable(c) == ~ program.classes[c].abstract /\ HasPublicCopyConstructor[c]

\* A class that GetCxxClassType has been through.
ClassDone(c) ==
  /\ ClassObject(c) # 0
  /\ IsCopyable(c) => ClassObject(c) \in m_Copyable
  /\ Len(Bases(c)) <= Len(m_Parents[ClassObject(c)])

\* The parents of an object are the bases of a class that has its name.
ParentsFrom(i, c) ==
  /\ objects[i].name = ClassName(c)
  /\ m_Parents[i] = [k \in 1 .. Len(Bases(c)) |-> ClassObject(Bases(c)[k])]
  /\ \A k \in 1 .. Len(Bases(c)) : ClassObject(Bases(c)[k]) # 0

\* What the TypeSystem knows of a class is what one of that name says.
ClassesSound ==
  /\ m_Parents \in Seq(Seq(Nat))
  /\ Len(m_Parents) = Len(objects)
  /\ \A i \in 1 .. Len(objects) : m_Parents[i] \in Seq(1 .. Len(objects))
  /\ \A i \in 1 .. Len(objects) : objects[i].kind = "Class" =>
       \E c \in DOMAIN program.classes : ParentsFrom(i, c)
  /\ \A i \in 1 .. Len(objects) : objects[i].kind # "Class" => m_Parents[i] = << >>
  /\ m_Copyable \subseteq 1 .. Len(objects)
  /\ \A i \in m_Copyable :
       \E c \in DOMAIN program.classes : objects[i].name = ClassName(c) /\ IsCopyable(c)

Done(call) ==
  IF call.at = "type" THEN call.of # Null /\ Cxx(call.of) # NoCxxType ELSE ClassDone(call.of)

Frame == [at : {"type"}, of : CableType \cup {Null}, next : Nat \ {0}]
           \cup [at : {"class"}, of : DOMAIN program.classes, next : Nat \ {0}]

\* A call does not go on to a part before it knows that its type can be created.
FrameSound(f) ==
  f.next > 1 => /\ f.at = "type" => ~ Broken(f.of)
                /\ f.next <= Len(Calls(f)) + 1

\* The calls that an active call has made are done, or it waits for the last of them.
Runs(f) == \A k \in 1 .. f.next - 1 : Done(Calls(f)[k])

Waits(f, call) ==
  /\ f.next > 1
  /\ Calls(f)[f.next - 1].at = call.at
  /\ Calls(f)[f.next - 1].of = call.of
  /\ \A k \in 1 .. f.next - 2 : Done(Calls(f)[k])

Nested(frames) ==
  /\ frames \in Seq(Frame)
  /\ \A i \in 1 .. Len(frames) : FrameSound(frames[i])
  /\ \A i \in 1 .. Len(frames) - 1 : Waits(frames[i + 1], frames[i])
  /\ frames # << >> => Runs(frames[1]) /\ frames[Len(frames)].at = "type"

\* A type that has been visited is there, or its call is the outermost one, or the
\* loop has given up; a class type is there when its class is done.
VisitsSound ==
  /\ remaining \subseteq CableType
  /\ phase \in {"types", "done"}
  /\ result \in BOOLEAN
  /\ \A t \in CableType \ remaining :
       \/ Cxx(t) # NoCxxType
       \/ stack # << >> /\ stack[Len(stack)].of = t
       \/ phase = "done" /\ ~ result
  /\ \A t \in CableType :
       Cxx(t) # NoCxxType /\ Info(t).kind = "Class" => ClassDone(Info(t).class)
  /\ phase = "types" => ~ result
  /\ phase = "done" => stack = << >> /\ (result => remaining = {})

\* Only what can be created has been; and a call for a missing type is only made, and
\* the loop has only given up, when some type cannot.
FailuresSound ==
  LET AllCreatable == \A t \in CableType : Creatable(t)
  IN  /\ \A t \in CableType : Cxx(t) # NoCxxType => Creatable(t)
      /\ \A i \in 1 .. Len(stack) :
           stack[i].at = "type" /\ stack[i].of = Null => ~ AllCreatable
      /\ phase = "done" /\ ~ result => ~ AllCreatable

IInv ==
  /\ program \in Programs
  /\ m_CxxType \in [CableType -> [of : Nat, cv : SUBSET Qualifier]]
  /\ ObjectsSound(objects)
  /\ \E types : Stands(objects, types) /\ Denotes(types)
  /\ ClassesSound
  /\ Nested(stack)
  /\ VisitsSound

=============================================================================
