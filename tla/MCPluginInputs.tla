--------------------------- MODULE MCPluginInputs ---------------------------
(***************************************************************************)
(* PluginInputs for TLC.                                                   *)
(*                                                                         *)
(* Arguments around every bound: from a base call of each operation, one   *)
(* field is replaced, dropped or added.                                    *)
(***************************************************************************)
EXTENDS PluginInputs

Short(label) == Text(label, 1, 1)
Empty == Text("", 0, 0)
Blank == [Text("blank", 1, 1) EXCEPT !.blank = TRUE, !.space = TRUE]
WithControl == [Text("a<NUL>b", 3, 3) EXCEPT !.control = TRUE]
Long(n) == Text("ascii", n, n)
Wide(n) == Text("wide", n, 4 * n)
Decimal(label, value, digits, canonical) ==
    [Short(label) EXCEPT !.decimal = value, !.digits = digits,
                         !.canonical = canonical]

Numerals ==
    {Decimal("2", 2, TRUE, TRUE), Decimal("02", 2, TRUE, FALSE),
     Decimal("0", 0, TRUE, FALSE), Decimal("+2", 2, FALSE, FALSE),
     Decimal("-1", -1, FALSE, FALSE), Short("two"),
     Decimal("9223372036854775808", None, TRUE, TRUE)}

Odd == {Null, Number(7), Empty, Blank, WithControl}

Values(f) ==
    CASE f \in {"expected_revision", "after"} -> Numerals \cup {Null, Number(7)}
      [] f = "limit" -> {Null, Short("two")}
                        \cup {Number(n) : n \in {0, 1, 200, 201, 500, 501}}
      [] f = "status" -> {Null, Short("active"), Short("released"), Short("open")}
      [] f = "idempotency_key" -> Odd \cup {Long(200), Long(201), Wide(51)}
      [] f = "scope_kind" -> Odd \cup {Long(64), Long(128), Long(129)}
      [] f \in {"title", "legal_authority"} -> Odd \cup {Long(1000), Long(1001)}
      [] f = "reason" -> Odd \cup {Long(4000), Long(20000), Wide(5001)}
      [] OTHER -> Odd \cup {Short("other"), Long(512), Long(513), Wide(129)}

Base(op) ==
    [f \in RequiredStrings(op) \cup Limits(op) \cup (Optional(op) \cap {"subject"}) |->
        CASE f = "expected_revision" -> Decimal("1", 1, TRUE, TRUE)
          [] f = "limit" -> Number(100)
          [] OTHER -> Short(f)]

Without(a, f) == [g \in DOMAIN a \ {f} |-> a[g]]
With(a, f, v) == [g \in DOMAIN a \cup {f} |-> IF g = f THEN v ELSE a[g]]

Variations(op) ==
    {Base(op), With(Base(op), "subjekt", Short("s"))}
    \cup {Without(Base(op), f) : f \in DOMAIN Base(op)}
    \cup UNION {{With(Base(op), f, v) : v \in Values(f)} : f \in Fields(op)}

Widest(op) ==
    [f \in DOMAIN Base(op) |->
        IF f = "expected_revision" THEN Base(op)[f] ELSE Long(MaxBytes(f))]

Misspelt == With(Without(Base("add_scope"), "subject"), "subjekt", Short("subject"))

EveryCall ==
    {<<"add_scope", a>> : a \in Variations("add_scope")
                                   \cup {Misspelt, Widest("add_scope")}}
    \cup {<<"release_hold", a>> : a \in Variations("release_hold")}
    \cup {<<"create_hold", a>> : a \in
            {Base("create_hold"), Widest("create_hold")}
            \cup UNION {{With(Base("create_hold"), f, v) : v \in Values(f)} :
                    f \in {"title", "legal_authority", "idempotency_key"}}}
    \cup {<<"remove_scope", Base("remove_scope")>>}
    \cup {<<"get_hold", a>> : a \in Variations("get_hold")}
    \cup {<<"list_holds", a>> : a \in Variations("list_holds")}
    \cup {<<"list_activity", a>> : a \in Variations("list_activity")}

(***************************************************************************)
(* Configurations around every bound: any two caller lists, and one text   *)
(* field replaced, dropped or added at a time.                             *)
(***************************************************************************)
Key == Long(44)
Spaced == [Text("legal api", 9, 9) EXCEPT !.space = TRUE]

ConfigValues ==
    {Empty, Short("other"), Blank, Spaced, WithControl, Long(63), Long(64),
     Long(256), Long(257), Wide(64), Wide(65)}

Names == {Short("schema"), Long(63)}
Keys == {Key}

Many(n) == [i \in 1..n |-> Text(i, 1, 1)]

CallerLists ==
    {<<>>, <<Short("a")>>, <<Short("a"), Short("b")>>, <<Short("a"), Short("a")>>,
     <<Short("a"), Short("b"), Short("a")>>, Many(63), Many(64), Many(65),
     Append(Many(63), Text(1, 1, 1))}
    \cup {<<Short("a"), v>> : v \in ConfigValues}

BaseDocument ==
    [schema |-> Short("schema"), database_url_secret |-> Short("secret"),
     auth_issuer |-> Short("issuer"), auth_assertion_public_key |-> Key,
     admin_callers |-> <<Short("a")>>, guard_callers |-> <<Short("a")>>]

EveryDocument ==
    {[BaseDocument EXCEPT !.admin_callers = a, !.guard_callers = g] :
        a \in CallerLists, g \in CallerLists}
    \cup {With(BaseDocument, f, v) : f \in TextFields, v \in ConfigValues}
    \cup {With(BaseDocument, "admin_caller", <<Short("a")>>)}
    \cup {Without(BaseDocument, f) : f \in ConfigFields}

LongCallers ==
    {[BaseDocument EXCEPT !.admin_callers = <<Short("a"), Long(256)>>]}
=============================================================================
