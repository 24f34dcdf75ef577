------------------------------- MODULE Expected -------------------------------
(***************************************************************************)
(* expected (expected.hpp): a union of a value and an error, and a flag    *)
(* that says which of them is alive.  Every operation ends and begins      *)
(* lifetimes by hand.  What an operation does with a value of type Ty is   *)
(* left to its user: each returns the new object, and the value that was   *)
(* destroyed or overwritten.                                               *)
(***************************************************************************)
CONSTANT NoValue   \* what a value that is not alive, or moved from, holds

(***************************************************************************)
(* An object of either template: live says which members of the union are  *)
(* between their constructor and their destructor.  In expected<void> the  *)
(* value is no object, and only the error has a lifetime.                  *)
(***************************************************************************)
Object(has_value, live, value) == [m_has_value |-> has_value, live |-> live, value |-> value]

Storage == Object(FALSE, {}, NoValue)

Construct(x, member, value) ==
  Object(x.m_has_value, x.live \cup {member}, IF member = "value" THEN value ELSE x.value)

Destroy(x, member) ==
  Object(x.m_has_value, x.live \ {member}, IF member = "value" THEN NoValue ELSE x.value)

Overwrite(x, value) == Object(x.m_has_value, x.live, value)

Flag(x, has_value) == Object(has_value, x.live, x.value)

Result(x, dropped) == [cell |-> x, dropped |-> dropped]

-----------------------------------------------------------------------------
(***************************************************************************)
(* Constructors: of a value (also in place), of an unexpected, of another  *)
(* expected, whose value is copied or moved.                               *)
(***************************************************************************)
FromValue(value) == Flag(Construct(Storage, "value", value), TRUE)

FromUnexpected == Flag(Construct(Storage, "error", NoValue), FALSE)

FromExpected(other) ==
  Flag(IF other.m_has_value
       THEN Construct(Storage, "value", other.value)
       ELSE Construct(Storage, "error", NoValue),
       other.m_has_value)

(***************************************************************************)
(* The destructor.                                                         *)
(***************************************************************************)
Destructor(x) ==
  IF x.m_has_value
  THEN Result(Destroy(x, "value"), x.value)
  ELSE Result(Destroy(x, "error"), NoValue)

(***************************************************************************)
(* Assignment of an expected, of a value, of an unexpected; emplace.       *)
(***************************************************************************)
Assign(x, other) ==
  LET r == IF x.m_has_value /\ other.m_has_value
           THEN Result(Overwrite(x, other.value), x.value)
           ELSE IF x.m_has_value
           THEN Result(Construct(Destroy(x, "value"), "error", NoValue), x.value)
           ELSE IF other.m_has_value
           THEN Result(Construct(Destroy(x, "error"), "value", other.value), NoValue)
           ELSE Result(x, NoValue)
  IN  Result(Flag(r.cell, other.m_has_value), r.dropped)

AssignValue(x, value) ==
  IF x.m_has_value
  THEN Result(Overwrite(x, value), x.value)
  ELSE Result(Flag(Construct(Destroy(x, "error"), "value", value), TRUE), NoValue)

AssignUnexpectedKeepsFlag(x) ==      \* mutant: m_has_value is not reset
  IF x.m_has_value
  THEN Result(Construct(Destroy(x, "value"), "error", NoValue), x.value)
  ELSE Result(x, NoValue)

AssignUnexpected(x) ==
  IF x.m_has_value
  THEN Result(Flag(Construct(Destroy(x, "value"), "error", NoValue), FALSE), x.value)
  ELSE Result(x, NoValue)

Emplace(x, value) ==
  LET empty == IF x.m_has_value THEN Destroy(x, "value") ELSE Flag(Destroy(x, "error"), TRUE)
  IN  Result(Construct(empty, "value", value), IF x.m_has_value THEN x.value ELSE NoValue)

-----------------------------------------------------------------------------
(***************************************************************************)
(* expected<void>: the flag is set case by case, and a value needs neither *)
(* constructor nor destructor.                                             *)
(***************************************************************************)
VoidValue == Flag(Storage, TRUE)

VoidAssign(x, other) ==
  IF x.m_has_value /\ other.m_has_value THEN x
  ELSE IF x.m_has_value THEN Flag(Construct(x, "error", NoValue), FALSE)
  ELSE IF other.m_has_value THEN Flag(Destroy(x, "error"), TRUE)
  ELSE x

VoidAssignUnexpected(x) ==
  IF x.m_has_value THEN Flag(Construct(x, "error", NoValue), FALSE) ELSE x

VoidEmplace(x) == IF x.m_has_value THEN x ELSE Flag(Destroy(x, "error"), TRUE)
=============================================================================
