-------------------------- MODULE SaiProfile_proofs --------------------------
(***************************************************************************)
(* Proofs about SaiProfile, for files and command lines of any length: the *)
(* agent's parameters are those of one whole file, and the enumeration the *)
(* SAI sees is that of Enumeration.                                        *)
(***************************************************************************)
EXTENDS SaiProfile, SequenceTheorems, WellFoundedInduction, TLAPS

Line == Param \cup {Bad}

(* While a file is parsed, the parameters read and the lines left make it  *)
(* up (saiagent.c:35-47).                                                  *)
ParseInv == pc = "parse" =>
  /\ Len(file) = Len(read) + Len(lines)
  /\ \A i \in 1..Len(read) : read[i] = file[Len(read) + 1 - i]
  /\ \A i \in 1..Len(lines) : lines[i] = file[Len(read) + i]

Inv ==
  /\ TypeOK /\ ParseInv /\ AllOrNothing
  /\ IF pc = "serve" THEN params # << >> ELSE iter = 0

(* Putting a parameter in front of the list (saiagent.c:45-46).            *)
LEMMA Prepend ==
  ASSUME NEW S, NEW e \in S, NEW s \in Seq(S)
  PROVE  /\ <<e>> \o s \in Seq(S)
         /\ Len(<<e>> \o s) = Len(s) + 1
         /\ \A i \in 1..(Len(s) + 1) :
              (<<e>> \o s)[i] = IF i = 1 THEN e ELSE s[i - 1]
<1>1. <<e>> \in Seq(S) /\ Len(<<e>>) = 1 /\ <<e>>[1] = e
  OBVIOUS
<1>2. /\ <<e>> \o s \in Seq(S)
      /\ Len(<<e>> \o s) = 1 + Len(s)
      /\ \A i \in 1..(1 + Len(s)) :
           (<<e>> \o s)[i] = IF i <= 1 THEN <<e>>[i] ELSE s[i - 1]
  BY <1>1, ConcatProperties
<1>3. Len(s) \in Nat
  OBVIOUS
<1> QED
  BY <1>1, <1>2, <1>3

(* A file of lines is a sequence of lines.                                 *)
LEMMA FilesAreSequences == \A f \in Files : f \in Seq(Line)
<1> SUFFICES ASSUME NEW n \in Nat, NEW f \in [1..n -> Line] PROVE f \in Seq(Line)
  BY ProfileAssumption DEF Files, Line
<1> QED
  OBVIOUS

(* A set of numbers that is not empty has a least one.                     *)
LEMMA Least == ASSUME NEW T, T \subseteq Nat, T # {} PROVE \E x \in T : \A y \in T : x <= y
<1>1. PICK x \in T : \A y \in T : ~(<<y, x>> \in OpToRel(<, Nat))
  BY NatLessThanWellFounded, WFMin
<1>2. OpToRel(<, Nat) = {ss \in Nat \X Nat : ss[1] < ss[2]}
  BY Zenon DEF OpToRel
<1>3. ASSUME NEW y \in T PROVE ~(y < x)
  <2>1. <<y, x>> \notin {ss \in Nat \X Nat : ss[1] < ss[2]}
    BY <1>1, <1>2, Zenon
  <2> QED
    BY <2>1
<1> QED
  BY <1>3

(* The first parameter with a name (saiagent.c:57-62).                     *)
LEMMA FirstHit ==
  ASSUME NEW n, params \in Seq(Param),
         {i \in DOMAIN params : params[i].name = n} # {}
  PROVE  \E i \in 1..Len(params) :
           /\ params[i].name = n /\ params[i].value = Lookup(n)
           /\ \A j \in 1..(i - 1) : params[j].name # n
<1> DEFINE hits == {i \in DOMAIN params : params[i].name = n}
           first == CHOOSE i \in hits : \A j \in hits : i <= j
<1>1. DOMAIN params = 1..Len(params) /\ Len(params) \in Nat
  OBVIOUS
<1>2. hits \subseteq Nat
  BY <1>1
<1>3. \E i \in hits : \A j \in hits : i <= j
  BY <1>2, Least
<1>4. first \in hits /\ \A j \in hits : first <= j
  BY <1>3
<1>5. Lookup(n) = params[first].value
  BY DEF Lookup
<1>6. ASSUME NEW j \in 1..(first - 1) PROVE params[j].name # n
  <2>1. first \in 1..Len(params)
    BY <1>1, <1>4
  <2>2. j \in DOMAIN params /\ ~(first <= j)
    BY <1>1, <2>1
  <2> QED
    BY <1>4, <2>2
<1> QED
  BY <1>1, <1>4, <1>5, <1>6

LEMMA InitInv == Init => Inv
<1> SUFFICES ASSUME Init PROVE Inv
  OBVIOUS
<1>1. TypeOK
  <2>1. << >> \in Seq(Line) /\ << >> \in Seq(Param) /\ Len(<< >>) = 0
    OBVIOUS
  <2> QED
    BY <2>1, ProfileAssumption, SMT DEF Init, TypeOK, Line
<1>2. AllOrNothing
  <2>1. Reverse(<< >>) = << >>
    BY DEF Reverse
  <2> QED
    BY <2>1 DEF Init, AllOrNothing
<1> QED
  BY <1>1, <1>2 DEF Init, Inv, ParseInv

LEMMA ParseLineInv == Inv /\ ParseLine => Inv'
<1> SUFFICES ASSUME Inv, ParseLine PROVE Inv'
  OBVIOUS
<1>1. /\ lines \in Seq(Line) /\ lines # << >> /\ read \in Seq(Param) /\ file \in Seq(Line)
      /\ Head(lines) # Bad
      /\ pc = "parse" /\ pc' = "parse"
      /\ read' = <<Head(lines)>> \o read /\ lines' = Tail(lines) /\ file' = file
  BY DEF Inv, TypeOK, ParseLine, Line
<1>2. Head(lines) \in Param /\ Head(lines) = lines[1]
  BY <1>1 DEF Line
<1>3. /\ Tail(lines) \in Seq(Line) /\ Len(Tail(lines)) = Len(lines) - 1
      /\ \A i \in 1..(Len(lines) - 1) : Tail(lines)[i] = lines[i + 1]
      /\ Len(lines) \in Nat /\ Len(lines) >= 1
  BY <1>1
<1>4. /\ read' \in Seq(Param) /\ Len(read') = Len(read) + 1
      /\ \A i \in 1..(Len(read) + 1) :
           read'[i] = IF i = 1 THEN Head(lines) ELSE read[i - 1]
  BY <1>1, <1>2, Prepend
<1>5. TypeOK'
  BY <1>1, <1>3, <1>4 DEF Inv, TypeOK, ParseLine, Line, profile, service
<1>6. ParseInv'
  <2>1. /\ Len(file) = Len(read) + Len(lines)
        /\ \A i \in 1..Len(read) : read[i] = file[Len(read) + 1 - i]
        /\ \A i \in 1..Len(lines) : lines[i] = file[Len(read) + i]
    BY <1>1 DEF Inv, ParseInv
  <2>2. Len(read) \in Nat
    BY <1>1
  <2>3. Len(file) = Len(read') + Len(lines')
    BY <1>1, <1>3, <1>4, <2>1, <2>2
  <2>4. ASSUME NEW i \in 1..Len(read') PROVE read'[i] = file[Len(read') + 1 - i]
    <3>1. CASE i = 1
      <4>1. 1 \in 1..Len(lines) /\ 1 \in 1..(Len(read) + 1)
        BY <1>3, <2>2
      <4>2. lines[1] = file[Len(read) + 1] /\ read'[1] = Head(lines)
        BY <1>4, <2>1, <4>1
      <4>3. Len(read') + 1 - 1 = Len(read) + 1
        BY <1>4, <2>2
      <4> QED
        BY <1>2, <3>1, <4>2, <4>3
    <3>2. CASE i # 1
      <4>1. i - 1 \in 1..Len(read) /\ i \in 1..(Len(read) + 1)
        BY <1>4, <2>2, <3>2
      <4>2. read[i - 1] = file[Len(read) + 1 - (i - 1)] /\ read'[i] = read[i - 1]
        BY <1>4, <2>1, <3>2, <4>1
      <4>3. Len(read') + 1 - i = Len(read) + 1 - (i - 1)
        BY <1>4, <2>2, <4>1
      <4> QED
        BY <4>2, <4>3
    <3> QED
      BY <3>1, <3>2
  <2>5. ASSUME NEW i \in 1..Len(lines') PROVE lines'[i] = file[Len(read') + i]
    <3>1. i + 1 \in 1..Len(lines) /\ i \in 1..(Len(lines) - 1)
      BY <1>1, <1>3
    <3>2. lines'[i] = lines[i + 1]
      BY <1>1, <1>3, <3>1
    <3> QED
      BY <1>4, <2>1, <2>2, <3>1, <3>2
  <2> QED
    BY <1>1, <2>3, <2>4, <2>5 DEF ParseInv
<1>7. AllOrNothing' /\ iter' = 0
  BY <1>1 DEF Inv, AllOrNothing, ParseLine, profile, service
<1> QED
  BY <1>1, <1>5, <1>6, <1>7 DEF Inv

LEMMA ParseEndsInv == Inv /\ ParseEnds => Inv'
<1> SUFFICES ASSUME Inv, ParseEnds PROVE Inv'
  OBVIOUS
<1>1. /\ lines = << >> /\ read \in Seq(Param) /\ file \in Seq(Line)
      /\ pc = "parse" /\ pc' = "options"
      /\ params' = read /\ loaded' = file
  BY DEF Inv, TypeOK, ParseEnds, Line
<1>2. /\ Len(file) = Len(read) /\ Len(read) \in Nat
      /\ \A i \in 1..Len(read) : read[i] = file[Len(read) + 1 - i]
  BY <1>1 DEF Inv, ParseInv
<1>3. read = Reverse(file)
  <2>1. Reverse(file) = [i \in 1..Len(read) |-> file[Len(read) - i + 1]]
    BY <1>2 DEF Reverse
  <2>2. \A i \in 1..Len(read) : Reverse(file)[i] = read[i]
    BY <1>2, <2>1
  <2>3. read = [i \in 1..Len(read) |-> read[i]]
    BY <1>1
  <2> QED
    BY <2>1, <2>2, <2>3
<1>4. file \in Seq(Param)
  <2>1. ASSUME NEW i \in 1..Len(file) PROVE file[i] \in Param
    <3>1. Len(read) + 1 - i \in 1..Len(read)
      BY <1>2
    <3>2. file[Len(read) + 1 - (Len(read) + 1 - i)] = read[Len(read) + 1 - i]
      BY <1>2, <3>1
    <3>3. Len(read) + 1 - (Len(read) + 1 - i) = i
      BY <1>2
    <3> QED
      BY <1>1, <3>1, <3>2, <3>3
  <2> QED
    BY <1>1, <2>1
<1>5. iter = 0 /\ iter' = 0 /\ Len(params') \in Nat
  BY <1>1 DEF Inv, ParseEnds, service
<1>6. TypeOK'
  BY <1>1, <1>4, <1>5 DEF Inv, TypeOK, ParseEnds, parser, service
<1> QED
  BY <1>1, <1>3, <1>5, <1>6 DEF Inv, ParseInv, AllOrNothing

(* The services and the command line leave the profile alone, except that  *)
(* g_iter moves within the list (saiagent.c:68-84).                        *)
LEMMA ServiceInv == Inv /\ (Restart \/ GetNextAtEnd \/ GetNext) => Inv'
<1> SUFFICES ASSUME Inv, Restart \/ GetNextAtEnd \/ GetNext PROVE Inv'
  OBVIOUS
<1>1. /\ pc = "serve" /\ pc' = "serve"
      /\ UNCHANGED <<opts, lines, read, params, found, file, loaded>>
      /\ params # << >> /\ params \in Seq(Param) /\ iter \in 0..Len(params)
  BY DEF Inv, TypeOK, Restart, GetNextAtEnd, GetNext, parser, profile
<1>2. Len(params) \in Nat /\ Len(params) >= 1
  BY <1>1
<1>3. iter' \in 0..Len(params) /\ call' \in {"restart", "next"} /\ answer' \in Param \cup {End}
  <2>1. CASE Restart \/ GetNextAtEnd
    BY <1>2, <2>1 DEF Restart, GetNextAtEnd
  <2>2. CASE GetNext
    <3>1. iter \in 1..Len(params)
      BY <1>1, <1>2, <2>2 DEF GetNext
    <3>2. params[iter] \in Param
      BY <1>1, <3>1
    <3> QED
      BY <1>2, <2>2, <3>1, <3>2 DEF GetNext
  <2> QED
    BY <2>1, <2>2
<1>4. TypeOK'
  BY <1>1, <1>3 DEF Inv, TypeOK
<1>5. ParseInv' /\ AllOrNothing'
  BY <1>1 DEF Inv, ParseInv, AllOrNothing
<1> QED
  BY <1>1, <1>4, <1>5 DEF Inv

LEMMA GetValueInv == ASSUME Inv, NEW n \in Name, GetValue(n) PROVE Inv'
<1>1. /\ pc = "serve"
      /\ UNCHANGED <<pc, opts, lines, read, params, iter, call, answer, file, loaded>>
      /\ found' = [name |-> n, value |-> Lookup(n)]
  BY DEF GetValue, parser, profile
<1>2. Lookup(n) \in Value \cup {None}
  <2> DEFINE hits == {i \in DOMAIN params : params[i].name = n}
  <2>1. CASE hits = {}
    BY <2>1 DEF Lookup
  <2>2. CASE hits # {}
    <3>1. params \in Seq(Param)
      BY DEF Inv, TypeOK
    <3>2. PICK i \in 1..Len(params) : params[i].value = Lookup(n)
      BY <2>2, <3>1, FirstHit
    <3>3. params[i] \in Param
      BY <3>1
    <3>4. params[i].value \in Value
      BY <3>3 DEF Param
    <3> QED
      BY <3>2, <3>4
  <2> QED
    BY <2>1, <2>2
<1>3. TypeOK'
  BY <1>1, <1>2 DEF Inv, TypeOK
<1>4. ParseInv' /\ AllOrNothing'
  BY <1>1 DEF Inv, ParseInv, AllOrNothing
<1> QED
  BY <1>1, <1>3, <1>4 DEF Inv

LEMMA OptionInv ==
  Inv /\ (PortMap \/ OptionFails \/ LineFails \/ NoProfile \/ Start) => Inv'
<1> SUFFICES ASSUME Inv, PortMap \/ OptionFails \/ LineFails \/ NoProfile \/ Start
             PROVE  Inv'
  OBVIOUS
<1>1. /\ pc \in {"options", "parse"}
      /\ UNCHANGED <<lines, read, params, call, answer, found, file, loaded>>
      /\ pc' # "parse"
  BY DEF PortMap, OptionFails, LineFails, NoProfile, Start, NextOption, parser, profile, service
<1>2. opts' \in 0..MaxOpts
  BY ProfileAssumption DEF Inv, TypeOK, PortMap, OptionFails, LineFails, NoProfile, Start, NextOption
<1>4. /\ pc' \in {"options", "serve", "no_profile", "failed"}
      /\ IF pc' = "serve" THEN params # << >> /\ iter' = 1 ELSE iter' = 0
  BY <1>1 DEF Inv, PortMap, OptionFails, LineFails, NoProfile, Start, NextOption, service
<1>5. iter' \in 0..Len(params)
  <2>1. params \in Seq(Param)
    BY DEF Inv, TypeOK
  <2> QED
    BY <1>4, <2>1
<1>6. TypeOK'
  BY <1>1, <1>2, <1>4, <1>5 DEF Inv, TypeOK
<1>7. ParseInv' /\ AllOrNothing'
  BY <1>1 DEF Inv, ParseInv, AllOrNothing
<1> QED
  BY <1>1, <1>4, <1>6, <1>7 DEF Inv

LEMMA NextInv == Inv /\ [Next]_vars => Inv'
<1> SUFFICES ASSUME Inv, [Next]_vars PROVE Inv'
  OBVIOUS
<1>1. ASSUME NEW f \in Files, OpenProfile(f) PROVE Inv'
  <2>1. f \in Seq(Line)
    BY FilesAreSequences
  <2>2. /\ pc = "options" /\ pc' = "parse" /\ opts' \in 0..MaxOpts
        /\ lines' = f /\ file' = f /\ read' = << >>
        /\ UNCHANGED <<params, iter, call, answer, found, loaded>>
    BY <1>1, ProfileAssumption DEF OpenProfile, NextOption, profile, service, Inv, TypeOK
  <2>3. read' \in Seq(Param) /\ Len(read') = 0
    BY <2>2
  <2>4. TypeOK'
    BY <2>1, <2>2, <2>3 DEF Inv, TypeOK, Line
  <2>5. ParseInv'
    <3>1. Len(f) \in Nat
      BY <2>1
    <3> QED
      BY <2>2, <2>3, <3>1 DEF ParseInv
  <2>6. AllOrNothing' /\ iter' = 0
    BY <2>2 DEF Inv, AllOrNothing
  <2> QED
    BY <2>2, <2>4, <2>5, <2>6 DEF Inv
<1>2. CASE PortMap \/ OptionFails \/ LineFails \/ NoProfile \/ Start
  BY <1>2, OptionInv
<1>3. CASE ParseLine
  BY <1>3, ParseLineInv
<1>4. CASE ParseEnds
  BY <1>4, ParseEndsInv
<1>5. ASSUME NEW n \in Name, GetValue(n) PROVE Inv'
  BY <1>5, GetValueInv
<1>6. CASE Restart \/ GetNextAtEnd \/ GetNext
  BY <1>6, ServiceInv
<1>7. CASE UNCHANGED vars
  BY <1>7 DEF vars, parser, profile, service, Inv, TypeOK, ParseInv, AllOrNothing
<1> QED
  BY <1>1, <1>2, <1>3, <1>4, <1>5, <1>6, <1>7 DEF Next

LEMMA InvHolds == Spec => []Inv
BY InitInv, NextInv, PTL DEF Spec

(* The profile component is type correct for files, names, values and      *)
(* command lines of any number (saiagent.c:24-84, 94-152).                 *)
THEOREM ProfileTypeCorrect == Spec => []TypeOK
<1>1. Inv => TypeOK
  BY DEF Inv
<1> QED
  BY <1>1, InvHolds, PTL

(* The agent's parameters are those of one whole file: one that fails      *)
(* halfway neither adds nor removes any (saiagent.c:38-50).                *)
THEOREM ProfileAllOrNothing == Spec => []AllOrNothing
<1>1. Inv => AllOrNothing
  BY DEF Inv
<1> QED
  BY <1>1, InvHolds, PTL

(* The first parameter of a reversed list is the last line of the file.    *)
LEMMA LookupInFile ==
  ASSUME Inv, NEW n \in Name
  PROVE  IF \E i \in DOMAIN loaded : loaded[i].name = n
         THEN \E i \in DOMAIN loaded :
                /\ loaded[i] = [name |-> n, value |-> Lookup(n)]
                /\ \A j \in (i + 1)..Len(loaded) : loaded[j].name # n
         ELSE Lookup(n) = None
<1> DEFINE hits == {i \in DOMAIN params : params[i].name = n}
           k == Len(loaded)
<1>1. params \in Seq(Param) /\ loaded \in Seq(Param)
  BY DEF Inv, TypeOK
<1>2. k \in Nat /\ DOMAIN loaded = 1..k /\ DOMAIN params = 1..k
  <2>1. params = [i \in 1..Len(loaded) |-> loaded[Len(loaded) - i + 1]]
    BY DEF Inv, AllOrNothing, Reverse
  <2> QED
    BY <1>1, <2>1
<1>3. \A i \in 1..k : params[i] = loaded[k - i + 1]
  BY <1>2 DEF Inv, AllOrNothing, Reverse
<1> HIDE DEF k
<1>4. CASE hits = {}
  <2>1. ASSUME NEW i \in DOMAIN loaded PROVE loaded[i].name # n
    <3>1. k - i + 1 \in 1..k /\ k - (k - i + 1) + 1 = i
      BY <1>2
    <3>2. params[k - i + 1] = loaded[i]
      BY <1>3, <3>1
    <3> QED
      BY <1>2, <1>4, <3>1, <3>2
  <2> QED
    BY <1>4, <2>1 DEF Lookup
<1>5. CASE hits # {}
  <2>1. PICK i \in 1..Len(params) :
          /\ params[i].name = n /\ params[i].value = Lookup(n)
          /\ \A j \in 1..(i - 1) : params[j].name # n
    BY <1>1, <1>5, FirstHit
  <2>2. i \in 1..k
    BY <1>1, <1>2
  <2>3. params[i] = [name |-> n, value |-> Lookup(n)]
    <3>1. params[i] \in [name : Name, value : Value]
      <4>1. params[i] \in Param
        BY <1>1
      <4> QED
        BY <4>1 DEF Param
    <3>2. params[i] = [name |-> params[i].name, value |-> params[i].value]
      BY <3>1
    <3> QED
      BY <2>1, <3>2
  <2>4. k - i + 1 \in 1..k /\ loaded[k - i + 1] = params[i]
    BY <1>2, <1>3, <2>2
  <2>5. ASSUME NEW j \in (k - i + 2)..k PROVE loaded[j].name # n
    <3>1. k - j + 1 \in 1..(i - 1) /\ k - j + 1 \in 1..k /\ k - (k - j + 1) + 1 = j
      BY <1>2, <2>2
    <3> QED
      BY <1>3, <2>1, <3>1
  <2>6. (k - i + 1) + 1 = k - i + 2
    BY <1>2, <2>2
  <2>7. \E m \in DOMAIN loaded :
          /\ loaded[m] = [name |-> n, value |-> Lookup(n)]
          /\ \A j \in (m + 1)..k : loaded[j].name # n
    BY <1>2, <2>3, <2>4, <2>5, <2>6
  <2> QED
    BY <2>7 DEF k
<1> QED
  BY <1>4, <1>5

(* Before the SAI runs nothing was looked up.                              *)
LookupInv == LookupIsLastDefinition /\ (pc # "serve" => found = None)

(* A lookup answers with the last definition in the file, and with NULL    *)
(* only if there is none (saiagent.c:45, 57-62).                           *)
THEOREM LookupCorrect == Spec => []LookupIsLastDefinition
<1>1. Init => LookupInv
  BY DEF Init, LookupInv, LookupIsLastDefinition
<1>2. Inv /\ LookupInv /\ [Next]_vars => LookupInv'
  <2> SUFFICES ASSUME Inv, LookupInv, [Next]_vars PROVE LookupInv'
    OBVIOUS
  <2>1. ASSUME NEW n \in Name, GetValue(n) PROVE LookupInv'
    <3>1. /\ pc' = "serve" /\ UNCHANGED loaded
          /\ found' = [name |-> n, value |-> Lookup(n)]
      BY <2>1 DEF GetValue, profile
    <3>2. found'.name = n /\ found'.value = Lookup(n)
      BY <3>1
    <3> QED
      BY <3>1, <3>2, LookupInFile DEF LookupInv, LookupIsLastDefinition
  <2>2. CASE UNCHANGED <<found, loaded>> /\ (pc = "serve" => pc' = "serve")
    BY <2>2 DEF LookupInv, LookupIsLastDefinition
  <2>3. CASE ParseEnds
    BY <2>3 DEF ParseEnds, service, LookupInv, LookupIsLastDefinition
  <2>4. ASSUME NEW f \in Files, OpenProfile(f)
        PROVE  UNCHANGED <<found, loaded>> /\ (pc = "serve" => pc' = "serve")
    BY <2>4 DEF OpenProfile, NextOption, profile, service
  <2>5. ASSUME PortMap \/ OptionFails \/ ParseLine \/ LineFails \/ NoProfile \/ Start
        PROVE  UNCHANGED <<found, loaded>> /\ (pc = "serve" => pc' = "serve")
    BY <2>5 DEF PortMap, OptionFails, ParseLine, LineFails, NoProfile, Start,
                NextOption, profile, service
  <2>6. ASSUME Restart \/ GetNextAtEnd \/ GetNext \/ UNCHANGED vars
        PROVE  UNCHANGED <<found, loaded>> /\ (pc = "serve" => pc' = "serve")
    BY <2>6 DEF Restart, GetNextAtEnd, GetNext, vars, profile, service
  <2> QED
    BY <2>1, <2>2, <2>3, <2>4, <2>5, <2>6 DEF Next
<1>3. LookupInv => LookupIsLastDefinition
  BY DEF LookupInv
<1> QED
  BY <1>1, <1>2, <1>3, InvHolds, PTL DEF Spec

(* The enumeration hands out every line of the file once between two ends  *)
(* of the list (saiagent.c:68-84).                                         *)
THEOREM EnumerationImplemented == Spec => ImplementsEnumeration
<1> DEFINE content == IF pc = "serve" THEN loaded ELSE << >>
           todo == IF iter = 0 THEN {} ELSE 1..(Len(params) + 1 - iter)
<1>1. Init => E!Init
  BY DEF Init, E!Init
<1>2. Inv /\ Inv' /\ [Next]_vars => [E!Next]_E!vars
  <2> SUFFICES ASSUME Inv, Inv', [Next]_vars PROVE E!Next \/ UNCHANGED E!vars
    OBVIOUS
  <2>1. /\ params \in Seq(Param) /\ loaded \in Seq(Param) /\ iter \in 0..Len(params)
        /\ Len(params) \in Nat /\ DOMAIN loaded = 1..Len(params)
        /\ \A i \in 1..Len(params) : params[i] = loaded[Len(params) - i + 1]
    <3>1. params \in Seq(Param) /\ loaded \in Seq(Param) /\ iter \in 0..Len(params)
      BY DEF Inv, TypeOK
    <3>2. params = [i \in 1..Len(loaded) |-> loaded[Len(loaded) - i + 1]]
      BY DEF Inv, AllOrNothing, Reverse
    <3>3. Len(params) = Len(loaded) /\ DOMAIN loaded = 1..Len(loaded)
      BY <3>1, <3>2
    <3> QED
      BY <3>1, <3>2, <3>3
  <2>2. ASSUME pc # "serve", pc' # "serve", UNCHANGED <<call, answer>>
        PROVE  UNCHANGED E!vars
    BY <2>2 DEF E!vars, Inv
  <2>3. CASE Start
    <3>1. /\ pc # "serve" /\ pc' = "serve" /\ params # << >>
          /\ UNCHANGED <<params, loaded, call, answer>> /\ iter' = 1
      BY <2>3 DEF Start, profile
    <3>2. loaded # << >> /\ 1..(Len(params) + 1 - 1) = DOMAIN loaded
      BY <2>1, <3>1
    <3> QED
      BY <2>1, <3>1, <3>2 DEF E!Next, E!Load
  <2>4. CASE Restart
    <3>1. /\ pc = "serve" /\ pc' = "serve" /\ iter' = 1
          /\ UNCHANGED <<params, loaded>> /\ call' = "restart" /\ answer' = End
      BY <2>4 DEF Restart, profile
    <3> QED
      BY <2>1, <3>1 DEF E!Next, E!Restart
  <2>5. CASE GetNextAtEnd
    <3>1. /\ pc = "serve" /\ pc' = "serve" /\ iter = 0 /\ iter' = 1
          /\ UNCHANGED <<params, loaded>> /\ call' = "next" /\ answer' = End
      BY <2>5 DEF GetNextAtEnd, profile
    <3>2. loaded # << >>
      BY <2>1, <3>1 DEF Inv
    <3> QED
      BY <2>1, <3>1, <3>2 DEF E!Next, E!Finish
  <2>6. CASE GetNext
    <3> DEFINE m == Len(params) + 1 - iter
    <3>1. /\ pc = "serve" /\ pc' = "serve" /\ iter # 0
          /\ UNCHANGED <<params, loaded>> /\ call' = "next" /\ answer' = params[iter]
          /\ iter' = IF iter = Len(params) THEN 0 ELSE iter + 1
      BY <2>6 DEF GetNext, profile
    <3>2. m \in 1..m /\ answer' = loaded[m]
      BY <2>1, <3>1
    <3>3. todo' = todo \ {m}
      <4>1. CASE iter = Len(params)
        BY <2>1, <3>1, <4>1
      <4>2. CASE iter # Len(params)
        BY <2>1, <3>1, <4>2
      <4> QED
        BY <4>1, <4>2
    <3>4. m \in todo
      BY <3>1, <3>2
    <3>5. E!HandOut(m)
      BY <3>1, <3>2, <3>3, <3>4 DEF E!HandOut
    <3> QED
      BY <3>4, <3>5 DEF E!Next
  <2>7. ASSUME NEW n \in Name, GetValue(n) PROVE UNCHANGED E!vars
    BY <2>7 DEF GetValue, profile, E!vars
  <2>8. CASE UNCHANGED vars
    BY <2>8 DEF vars, profile, service, E!vars
  <2>9. ASSUME \/ \E f \in Files : OpenProfile(f)
               \/ PortMap \/ OptionFails \/ ParseLine \/ LineFails \/ ParseEnds \/ NoProfile
        PROVE  UNCHANGED E!vars
    <3>1. pc # "serve" /\ pc' # "serve" /\ UNCHANGED <<call, answer>>
      BY <2>9 DEF OpenProfile, PortMap, OptionFails, ParseLine, LineFails, ParseEnds,
                  NoProfile, NextOption, service
    <3> QED
      BY <2>2, <3>1
  <2> QED
    BY <2>3, <2>4, <2>5, <2>6, <2>7, <2>8, <2>9 DEF Next
<1> QED
  BY <1>1, <1>2, InvHolds, PTL DEF Spec, E!Spec, ImplementsEnumeration
=============================================================================
