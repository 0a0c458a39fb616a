------------------------------ MODULE MCLookup ------------------------------
\* LookupCommand on small catalogs made of the cases the registries have.
EXTENDS LookupCommand, TLC

MCOrganizations == {"Private", "IEEE Registration Authority", "", "A", "B"}
MCWellKnown == {<<0, 0, 0, 0, 5, 14, 0, 0, 0, 1>>, <<0, 1, 0, 0, 5, 14>>, <<3, 3, 3, 3>>}

\* A block held by IEEE with sub-assignments, one of them both IAB and MA-S.
Block == <<0, 0, 5, 0, 12, 2>>
Block28 == Block \o <<9>>
Block36 == Block \o <<9, 1, 2>>
\* An MA-L assignment with the local bit set, as the oldest ones have, and a CID.
Legacy == <<10, 10, 0, 0, 0, 4>>
Company == <<13, 10, 10, 1, 1, 9>>
VRRP == <<0, 0, 0, 0, 5, 14>>

Of(r, a, o) == [reg |-> r, assignment |-> a, org |-> o]
Held == Of("MA-L", Block, "IEEE Registration Authority")
Usual == {Held, Of("MA-M", Block28, "Private"), Of("MA-S", Block36, "A"),
          Of("IAB", Block36, "B"), Of("MA-L", Legacy, "A"), Of("MA-L", VRRP, "B")}
WithCID == {Of("MA-L", Legacy, "A"), Of("CID", Company, "Private"), Held, Of("MA-S", Block36, "B")}
\* Two rows with one assignment, and a blank name.
Odd == {Of("MA-L", VRRP, "A"), Of("MA-L", VRRP, ""), Of("CID", Company, "B")}

MCCatalogs == {Usual, WithCID, Odd, {}}

Full(p) == p \o [i \in 1 .. 12 - Len(p) |-> 1]
MCInputs == {Block, Block28, Full(Block28), Full(Block36), Full(Block),
             Full(Legacy), Full(Company), Full(VRRP \o <<0, 0, 0, 1>>),
             <<16>> \o Block \o <<16, 9, 1, 2>>,       \* with separators
             <<0, 0, 5, 0, 12>>,                        \* too short
             Block \o <<17>>,                           \* not a digit
             [i \in 1 .. 12 |-> 15],                    \* broadcast
             Full(<<3, 3, 3, 3>>), Full(<<0, 1, 2, 3>>)} \* multicast
\* A group address in no reserved range, the prefix of a subdivided block, and
\* an address whose block may be listed with a blank name.
GroupInputs == {Full(<<0, 1, 2, 3>>)}
PrefixInputs == {Block}
BlankInputs == {Full(VRRP)}
FewInputs == GroupInputs \cup PrefixInputs \cup BlankInputs \cup {Full(Company)}
=============================================================================
