-------------------------------- MODULE IniFiles --------------------------------
(***************************************************************************)
(* An IniFileDB (inifiledb.cpp) of IniSections (inisection.cpp) of IniFields *)
(* (inifield.cpp), that threads look values up in and set, and the file it   *)
(* can be saved to at any time, a sequence of lines.  Names and values have  *)
(* none of the characters =, [ and ] and no ends of lines; names that differ *)
(* in case only are the same.                                                *)
(***************************************************************************)
EXTENDS Naturals, Sequences, SequencesExt, FiniteSets

CONSTANTS
  IniUsers,   \* threads
  SectionNames,
  FieldNames,
  IniValues,
  NullText,   \* nullptr
  EmptyText,  \* ""
  MaxFields   \* bound: sections of the file, fields of a section

ASSUME IniAssumption == {NullText, EmptyText} \subseteq IniValues /\ MaxFields \in Nat

VARIABLES
  sections, \* _sections: [name, fields]
  setter,   \* where a thread is in set(), and what it has looked for in vain
  hung,     \* a thread waits for a mutex that it holds itself
  iniOdd    \* observer: two threads were in set() at the same time

iniVars == <<sections, setter, hung, iniOdd>>

Resting == [at |-> "idle"]
IniInit ==
  /\ sections = <<>> /\ setter = [t \in IniUsers |-> Resting]
  /\ hung = FALSE /\ iniOdd = FALSE

(* find(): the first of a name, 0 if there is none. *)
Find(seq, name) == SelectInSeq(seq, LAMBDA x : x.name = name)
FieldsOf(name) == sections[Find(sections, name)].fields
Has(name, field) == Find(sections, name) # 0 /\ Find(FieldsOf(name), field) # 0

-------------------------------------------------------------------------------
(* set() looks for the section and makes one, then for the field; in get() it makes
   the default the value, if there is none. *)
Set(t, name, field, value) ==
  /\ setter[t].at = "idle"
  /\ setter' = [setter EXCEPT ![t] =
                  [at |-> IF Find(sections, name) = 0 THEN "section" ELSE "field",
                   name |-> name, sec |-> Find(sections, name), field |-> field, value |-> value]]
  /\ iniOdd' = (iniOdd \/ \E u \in IniUsers \ {t} : setter[u].at # "idle")
  /\ UNCHANGED <<sections, hung>>

Get(t, name, field, default) ==
  /\ Has(name, field) => FieldsOf(name)[Find(FieldsOf(name), field)].value = NullText
  /\ Set(t, name, field, default)

AddSection(t) ==
  /\ setter[t].at = "section" /\ Len(sections) < MaxFields
  /\ sections' = Append(sections, [name |-> setter[t].name, fields |-> <<>>])
  /\ setter' = [setter EXCEPT ![t].at = "field", ![t].sec = Len(sections')]
  /\ UNCHANGED <<hung, iniOdd>>

SetField(t) ==
  LET s == setter[t].sec
      f == Find(sections[s].fields, setter[t].field)
  IN /\ setter[t].at = "field"
     /\ IF f # 0
        THEN /\ sections' = [sections EXCEPT ![s].fields[f].value = setter[t].value]
             /\ setter' = [setter EXCEPT ![t] = Resting]
        ELSE setter' = [setter EXCEPT ![t].at = "add"] /\ UNCHANGED sections
     /\ UNCHANGED <<hung, iniOdd>>

AddField(t) ==
  LET s == setter[t].sec
  IN /\ setter[t].at = "add" /\ Len(sections[s].fields) < MaxFields
     /\ sections' = [sections EXCEPT ![s].fields =
                       Append(@, [name |-> setter[t].field, value |-> setter[t].value])]
     /\ setter' = [setter EXCEPT ![t] = Resting]
     /\ UNCHANGED <<hung, iniOdd>>

(* clear(), the destructor and import() of the file, and remove() of a field that there
   is, take the mutex of the deque and then call an operation of it, that takes it. *)
Hang(t) == setter[t].at = "idle" /\ hung' = TRUE /\ UNCHANGED <<sections, setter, iniOdd>>
RemoveField(t, name, field) == Has(name, field) /\ Hang(t)
Clear(t) == Hang(t)
Import(t) == Hang(t)

-------------------------------------------------------------------------------
(* save_as() *)
FieldLines(f) ==
  <<IF f.value = NullText THEN [is |-> "name", name |-> f.name]
    ELSE [is |-> "value", name |-> f.name, value |-> f.value]>>
SectionLines(s) ==
  <<[is |-> "section", name |-> s.name]>> \o FlattenSeq([i \in DOMAIN s.fields |-> FieldLines(s.fields[i])])
    \o <<[is |-> "blank"]>>
FileLines(db) == FlattenSeq([i \in DOMAIN db |-> SectionLines(db[i])])

(* Mistake: an empty value stays one. *)
ImportEmpty(line) ==
  IF line.is # "value" THEN <<>> ELSE <<[name |-> line.name, value |-> line.value]>>

(* IniField's import() skips what is no field, and fails at the next section; an empty
   value becomes nullptr. *)
ImportField(line) ==
  IF line.is # "value" THEN <<>>
  ELSE <<[name |-> line.name, value |-> IF line.value = EmptyText THEN NullText ELSE line.value]>>

SectionStarts(file) == {i \in DOMAIN file : file[i].is = "section"}

(* IniSection's import() at the section that starts with line i. *)
ImportSection(file, i) ==
  LET rest == {j \in SectionStarts(file) : j > i}
      last == IF rest = {} THEN Len(file) ELSE (CHOOSE j \in rest : \A k \in rest : j <= k) - 1
  IN [name |-> file[i].name,
      fields |-> FlattenSeq([j \in 1 .. last - i |-> ImportField(file[i + j])])]

IniNext ==
  /\ ~hung
  /\ \E t \in IniUsers :
       \/ \E name \in SectionNames, field \in FieldNames :
            \/ \E value \in IniValues : Set(t, name, field, value) \/ Get(t, name, field, value)
            \/ RemoveField(t, name, field)
       \/ AddSection(t) \/ SetField(t) \/ AddField(t)
       \/ Clear(t) \/ Import(t)

-------------------------------------------------------------------------------
Unique(seq) == \A i, j \in DOMAIN seq : seq[i].name = seq[j].name => i = j

(* What the sections of the file should be read as. *)
KeptField(fields, f) ==
  IF f.value = NullText THEN fields
  ELSE Append(fields, [f EXCEPT !.value = IF @ = EmptyText THEN NullText ELSE @])
Read(s) == [name |-> s.name, fields |-> FoldLeft(KeptField, <<>>, s.fields)]

(***************************************************************************)
(* The file is read as it was saved, but for fields with no value, which are   *)
(* lost, and empty ones, which have none then; and there is one section of a   *)
(* name, and one field in it, unless two threads set() at the same time.       *)
(***************************************************************************)
IniRight ==
  /\ LET file == FileLines(sections)
         starts == SectionStarts(file)
     IN /\ Cardinality(starts) = Len(sections)
        /\ \A i \in starts :
             ImportSection(file, i) = Read(sections[Cardinality({j \in starts : j <= i})])
  /\ ~iniOdd => Unique(sections) /\ \A i \in DOMAIN sections : Unique(sections[i].fields)
===============================================================================
