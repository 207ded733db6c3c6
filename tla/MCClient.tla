------------------------------ MODULE MCClient -------------------------------
(* Instances of the clients of Odoo for TLC. *)
EXTENDS ClientSafety

\* search_read is in the table, without its second parameter; the other two
\* are not: a method of records, and a method of the model.
Methods == {"search_read", "action", "total"}

ParametersOf ==
    [m \in Methods |->
        IF m = "search_read" THEN <<"domain", "fields">>
        ELSE IF m = "action" THEN <<"fields">>
        ELSE <<"domain">>]

TableOf == [m \in {"search_read"} |-> <<"domain">>]

With(protocol, password, apiKey) ==
    [protocol |-> protocol, password |-> password, apiKey |-> apiKey]

\* Detected with both secrets, and each protocol with one that is let in or
\* one that is not.
ProfilesOfTools ==
    {With("auto", "password", "key"), With("json2s", "none", "key"),
     With("json2s", "wrong", "none"), With("jsonrpcs", "password", "none"),
     With("xmlrpcs", "wrong", "none")}

MadeNames == <<"_arg0", "_arg1">>
==============================================================================
