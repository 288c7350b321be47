----------------------------- MODULE Companies ------------------------------
(***************************************************************************)
(* The collections of CompanyService: companies and their members, as      *)
(* sequences of rows in the order of their insertion; a row is named by    *)
(* its place.  Module Onboarding makes the calls.                          *)
(***************************************************************************)
EXTENDS Documents, Integers, Sequences, FiniteSets

CONSTANTS
    Users,
    MaxCompanies  \* bound on the companies created

VARIABLES
    companies,  \* companies[c]: the representative of company c
    members     \* rows of company_members

Role     == {"OWNER", "MEMBER"}  \* a TECHNICIAN is treated as a MEMBER is
Standing == {"INVITED", "ACTIVE", "REMOVED"}
Member   == [company: 1..MaxCompanies, user: Users, role: Role, status: Standing]

Membership(c, u) == {i \in DOMAIN members : members[i].company = c /\ members[i].user = u}

\* The unique index on (companyId, userId).
NoMembership(c, u) == Membership(c, u) = {}

InsertCompany(u) == companies' = Append(companies, u)

\* An insertion that the index refuses fails with the request.
InsertMember(c, u, role, status) ==
    members' = IF NoMembership(c, u)
               THEN Append(members, [company |-> c, user |-> u, role |-> role, status |-> status])
               ELSE members

SaveMember(i, seen, status) == members' = [members EXCEPT ![i].status = SetIfModified(seen, status, @)]

IsActiveOwner(c, u) ==
    \E i \in Membership(c, u) : members[i].role = "OWNER" /\ members[i].status = "ACTIVE"

\* Mutant: anybody may be removed.
Anyone(i) == TRUE

\* removeMember counts the active owners before it removes one.
Removable(i) ==
    members[i].role = "OWNER" =>
        Cardinality({j \in DOMAIN members :
            /\ members[j].company = members[i].company
            /\ members[j].role = "OWNER" /\ members[j].status = "ACTIVE"}) > 1

CompaniesOK ==
    /\ companies \in Seq(Users) /\ Len(companies) <= MaxCompanies
    /\ members \in Seq(Member)
=============================================================================
