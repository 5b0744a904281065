--------------------------- MODULE GraphQLService ---------------------------
(***************************************************************************)
(* The service layer every page calls (lib/pages/graphql_service.dart).    *)
(* A call is one HTTP POST.  What comes back over the wire is abstracted   *)
(* to a record [fault, field]: fault names the first thing that went wrong *)
(* ("none" if nothing did), field is the value found in data[<operation>], *)
(* of which only what the callers can tell apart is kept.                  *)
(*                                                                         *)
(* A method is modelled by the way its Future completes: Completed(v), or  *)
(* Raised if it completes with an error.                                   *)
(***************************************************************************)
EXTENDS Integers, Sequences

CONSTANTS
  Null,      \* Dart's null
  Malformed  \* a list element, or a field, that is not of the JSON type expected

ASSUME NullAssumption == Null \notin Int /\ Malformed \notin Int /\ Null # Malformed

Completed(v) == [raised |-> FALSE, value |-> v]
Raised == [raised |-> TRUE, value |-> Null]

(***************************************************************************)
(* The faults _post distinguishes.  Each ends in a throw, whichever of its *)
(* four handlers catches it first: SocketException, TimeoutException after *)
(* 25 seconds, FormatException, or the catch-all that rethrows (body not   *)
(* an object, status other than 200, "errors" present, "data" missing).    *)
(***************************************************************************)
Faults == {"none", "socket", "timeout", "nonJson", "nonObject", "status",
           "errors", "noData"}

\* _post: does the call end in a throw instead of returning body['data']?
PostThrows(w) == w.fault # "none"

IsMap(e) == e # Malformed

(***************************************************************************)
(* signin and signup: Null on every failure and on a field that is not an  *)
(* object; otherwise the field as it came, error codes included.           *)
(***************************************************************************)
AccountCall(w) ==
  Completed(IF PostThrows(w) \/ w.field = Malformed THEN Null ELSE w.field)

\* Every element of the list can be indexed like a map.
AllMaps(list) == \A k \in DOMAIN list : IsMap(list[k])

\* int.tryParse(...) ?? 0 on a flag that is an int, or null / not a number.
FlagOf(f) == IF f = Null THEN 0 ELSE f

\* Mutant of GetProducts: null product codes are not skipped.
GetProductsWithNulls(w) ==
  IF PostThrows(w) \/ w.field = Null \/ w.field = Malformed \/ ~AllMaps(w.field)
  THEN Completed({})
  ELSE Completed({w.field[k] : k \in DOMAIN w.field})

\* Mutant of GetProducts: what _post throws is not caught.
GetProductsUncaught(w) ==
  IF PostThrows(w) THEN Raised
  ELSE IF w.field \in {Null, Malformed} \/ ~AllMaps(w.field) THEN Completed({})
  ELSE Completed({w.field[k] : k \in DOMAIN w.field} \ {Null})

(***************************************************************************)
(* getProducts: every failure, an answer that is not a list, and a list    *)
(* with a single malformed element all give the empty list; null product   *)
(* codes are skipped.  Only which codes are listed matters to the pages,   *)
(* not their order: the list is kept as a set.                             *)
(***************************************************************************)
GetProducts(w) ==
  IF PostThrows(w) \/ w.field = Null \/ w.field = Malformed \/ ~AllMaps(w.field)
  THEN Completed({})
  ELSE Completed({w.field[k] : k \in DOMAIN w.field} \ {Null})

\* The largest flag of a non-empty list of status items.
WorstFlag(items) ==
  CHOOSE m \in {FlagOf(items[k].flag) : k \in DOMAIN items} :
    \A k \in DOMAIN items : FlagOf(items[k].flag) <= m

\* Mutant of GetProductStatus: what _post throws is not caught.
GetProductStatusUncaught(w) ==
  IF PostThrows(w) THEN Raised
  ELSE IF w.field \in {Null, Malformed, <<>>} \/ ~AllMaps(w.field) THEN Completed(Null)
  ELSE Completed([flag |-> WorstFlag(w.field), statuses |-> w.field])

(***************************************************************************)
(* getProductStatus: Null on every failure, on an answer that is not a     *)
(* list, on an empty list and on a malformed element; otherwise the worst  *)
(* flag together with all the entries.  The entries no longer say which    *)
(* product they are about (product_code is dropped, line 254): the field   *)
(* "of" of an item is there for the properties only.                       *)
(***************************************************************************)
GetProductStatus(w) ==
  IF \/ PostThrows(w)
     \/ w.field = Null \/ w.field = Malformed
     \/ w.field = <<>> \/ ~AllMaps(w.field)
  THEN Completed(Null)
  ELSE Completed([flag |-> WorstFlag(w.field), statuses |-> w.field])

(***************************************************************************)
(* getAlerts: Null on every failure and if there is no list; otherwise the *)
(* list as it came, for cast() is lazy (line 170): a malformed element     *)
(* throws only when the caller reads it.                                   *)
(***************************************************************************)
GetAlerts(w) ==
  Completed(IF PostThrows(w) \/ w.field = Malformed THEN Null ELSE w.field)
=============================================================================
