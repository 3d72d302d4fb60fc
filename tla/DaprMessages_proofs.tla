-------------------------- MODULE DaprMessages_proofs --------------------------
(***************************************************************************)
(* What is written to a message is what is read from it.                   *)
(***************************************************************************)
EXTENDS DaprMessages, TLAPS

\* The wire holds a field exactly if it was written, under its number.
LEMMA WireHolds ==
    ASSUME NEW schema, WellFormed(schema), NEW message,
           DOMAIN message \subseteq DOMAIN schema,
           NEW f \in DOMAIN message
    PROVE  /\ schema[f].number \in DOMAIN Wire(schema, message).wire
                  <=> f \in Written(schema, message)
           /\ f \in Written(schema, message) =>
                  Wire(schema, message).wire[schema[f].number] = message[f]
<1> DEFINE written == Written(schema, message)
           numbers == {schema[g].number : g \in written}
           wire == [n \in numbers |-> message[CHOOSE g \in written : schema[g].number = n]]
<1>1. Wire(schema, message).wire = wire
  BY DEF Wire
<1>2. written \subseteq DOMAIN message
  BY DEF Written
<1>3. \A g \in written : schema[g].number = schema[f].number => g = f
  BY <1>2 DEF WellFormed
<1>4. schema[f].number \in numbers <=> f \in written
  BY <1>3
<1>5. ASSUME f \in written
      PROVE  wire[schema[f].number] = message[f]
  <2>1. (CHOOSE g \in written : schema[g].number = schema[f].number) = f
    BY <1>3, <1>5
  <2> QED
    BY <1>4, <1>5, <2>1
<1> QED
  BY <1>1, <1>4, <1>5

\* A reader that has the field of the writer, whatever other fields either has,
\* gets what the writer set, also where the writer sends nothing because it is
\* the default (every message class of the generated code).
THEOREM WireKeeps ==
    ASSUME NEW writer, WellFormed(writer), NEW message,
           DOMAIN message \subseteq DOMAIN writer,
           NEW reader, NEW f \in DOMAIN message,
           f \in DOMAIN reader, reader[f] = writer[f]
    PROVE  Read(reader, Wire(writer, message))[f] = message[f]
<1>1. Read(reader, Wire(writer, message))[f] =
          IF writer[f].number \in DOMAIN Wire(writer, message).wire
          THEN Wire(writer, message).wire[writer[f].number]
          ELSE writer[f].default
  BY DEF Read
<1>2. CASE f \in Written(writer, message)
  BY <1>1, <1>2, WireHolds
<1>3. CASE f \notin Written(writer, message)
  <2>1. message[f] = writer[f].default
    BY <1>3 DEF Written
  <2> QED
    BY <1>1, <1>3, <2>1, WireHolds
<1> QED
  BY <1>2, <1>3

\* A field that was not set, or that the writer does not know, reads as its
\* default.
THEOREM WireAddsNothing ==
    ASSUME NEW writer, WellFormed(writer), NEW message,
           DOMAIN message \subseteq DOMAIN writer,
           NEW reader, NEW f \in DOMAIN reader,
           \A g \in DOMAIN message : writer[g].number # reader[f].number
    PROVE  Read(reader, Wire(writer, message))[f] = reader[f].default
<1>1. reader[f].number \notin DOMAIN Wire(writer, message).wire
  BY DEF Wire, Written
<1> QED
  BY <1>1 DEF Read
=============================================================================
