------------------------- MODULE MCRequestCategory -------------------------
EXTENDS RequestCategory, TLC

Signs(i, e, a, o) == [id |-> i, email |-> e, role |-> "SIGNER", actor |-> a, open |-> TRUE,
                      order |-> o, expiresAt |-> Null]
Pending(s, R) == [status |-> "PENDING", sequential |-> s, recipients |-> R]

\* The owner before and after a customer, for the company, without an order,
\* behind a link that expires, and behind a copy that is not waited for.
MCDocuments ==
  LET owner == Signs(1, "agent", "owner", 2)
      customer == Signs(2, "customer", "customer", 1)
      late == [customer EXCEPT !.expiresAt = 1]
      copy == [customer EXCEPT !.role = "CC"]
      company == Signs(2, "agent", "company", Null)
  IN  {[status |-> s, sequential |-> FALSE, recipients |-> {}] :
         s \in {"DRAFT", "COMPLETED", "REJECTED"}}
      \union {Pending(TRUE, {owner, customer}), Pending(TRUE, {owner, late}),
              Pending(TRUE, {owner, copy}), Pending(FALSE, {owner, late}),
              Pending(TRUE, {owner, company}), Pending(FALSE, {[late EXCEPT !.email = "agent"]})}

MCPrincipals ==
  {[agent |-> g, admin |-> d, emails |-> {"agent"}, company |-> c] :
     g \in {"me", "other"}, d \in BOOLEAN, c \in BOOLEAN}

Symmetric == Permutations(Parts)
=============================================================================
