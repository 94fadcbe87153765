------------------------------ MODULE MCFiles ------------------------------
(***************************************************************************)
(* The modules about what is written into files and read back, checked in  *)
(* one run.  Each behaviour is of one of them, the one `which' says; the   *)
(* variables of the others keep the value they start with.                 *)
(***************************************************************************)
EXTENDS MCSetFile, MCValueFile, MCTextFile, MCSchema

VARIABLES which, source, order, phase, pos, mem

SC == INSTANCE Schema WITH SourceFiles <- MCSourceFiles, Root <- "/", None <- NoClass

schemaVars == <<source, order, phase, pos, mem>>
vars == <<which, fileVars, valueVars, textVars, schemaVars>>

SchemaIdle == /\ source = Null /\ order = Null /\ phase = Null /\ pos = Null
              /\ mem = Null

MCInit == /\ FileInit /\ ValueInit /\ TextInit
          /\ \/ which \in {"set", "value", "text"} /\ SchemaIdle
             \/ which = "schema" /\ SC!SchemaInit

OfSet == which = "set" /\ UNCHANGED <<which, valueVars, textVars, schemaVars>>
OfValue == which = "value" /\ UNCHANGED <<which, fileVars, textVars, schemaVars>>
OfText == which = "text" /\ UNCHANGED <<which, fileVars, valueVars, schemaVars>>
OfSchema == which = "schema" /\ UNCHANGED <<which, fileVars, valueVars, textVars>>

MCNext ==
    \/ OfSet /\ \E id \in FileIds : \E made \in RecordsOf(id) : AddRecord(id, made)
    \/ OfSet /\ WriteFile
    \/ OfSet /\ OpenFile
    \/ OfValue /\ src = Null /\ \E m \in Values : ImportValue(m)
    \/ OfValue /\ ExportValue
    \/ OfValue /\ ReadValue
    \/ OfText /\ \E n \in Texts : Give(n)
    \/ OfText /\ \E n \in Texts : Find(n)
    \/ OfText /\ \E l \in Locales : BuildJSON(l)
    \/ OfText /\ KeepText
    \/ OfText /\ LoadText
    \/ OfSchema /\ SC!ReadClass
    \/ OfSchema /\ SC!ResolveNext
    \/ OfSchema /\ SC!IndexNext

MCSpec == MCInit /\ [][MCNext]_vars

----------------------------------------------------------------------------
\* Whether a schema loads does not depend on the hash table's order (Schema).
LoadFollowsSchema == which = "schema" => SC!LoadFollowsSchema
\* Ancestors, descendants and children are those of the schema, a class has every
\* attribute from above it with the value last given, and the hubs hold exactly
\* the classes with a value that names them (Schema).
SchemaExact == which = "schema" => SC!AncestorsExact /\ SC!DescendantsExact
                                   /\ SC!AttrsExact /\ SC!HubsExact
=============================================================================
