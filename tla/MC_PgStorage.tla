---------------------------- MODULE MC_PgStorage ----------------------------
(* PgStorage with rules of two, three and seven fields, one of them empty, *)
(* and the rules, filters and models on which the two copies part.  Some   *)
(* filters come from a caller who passes a binary for a list.              *)
EXTENDS PgStorage, NifTerms, TLC

T(text) == [text |-> text, padded |-> FALSE, quotes |-> 0]

alice  == T("alice")
bob    == T("bob")
data   == T("data")
read   == T("read")
editor == T("editor")
padded == [alice EXCEPT !.padded = TRUE]
quoted == [alice EXCEPT !.quotes = 1]

MCTexts == {"alice", "bob", "data", "read", "editor"}

Rule(ptype, fields)           == [ptype |-> ptype, fields |-> fields]
Filter(ptype, index, values) == [ptype |-> ptype, index |-> index, values |-> values]

CleanSet ==
    {Rule("p", <<alice, data>>), Rule("p", <<alice, data, read>>),
     Rule("p", <<bob, data, read>>), Rule("p", <<bob, Empty, read>>),
     Rule("p", <<alice, bob, data, read, read, data, editor>>),
     Rule("g", <<alice, editor>>), Rule("g", <<bob, editor>>)}

FewRules    == {Rule("p", <<alice, data, read>>), Rule("p", <<bob, data, read>>)}
PaddedRules == FewRules \cup {Rule("p", <<padded, data, read>>)}
QuotedRules == FewRules \cup {Rule("p", <<quoted, data, read>>)}
OtherTypes  == FewRules \cup {Rule("p2", <<bob, read>>)}

WildRules == PaddedRules \cup QuotedRules \cup OtherTypes \cup
    {Rule("g", <<alice, editor>>),
     Rule("p", <<bob, data, read, read, read, read, data, editor>>)}

CleanFilterSet ==
    {Filter("p", 0, <<alice>>), Filter("p", 1, <<data>>),
     Filter("p", 0, <<bob, data>>), Filter("p", 0, <<>>),
     Filter("g", 1, <<editor>>), Filter("g", 0, <<bob>>)}

(* removeFilteredPolicy(index, terms)                                      *)
Called(index, terms) == Filter("p", index, ListToVector(terms, Empty))

EmptyValue    == {Called(0, <<Other(alice), Charlist(data)>>)}
NegativeIndex == {Called(-1, <<Other(alice), Charlist(alice)>>)}

WildFilters   == {Called(6, <<Other(alice), Other(bob)>>),
                  Called(-1, <<Other(alice)>>), Called(-2, <<Other(alice)>>),
                  Filter("p2", 1, <<read>>)}
                 \cup EmptyValue \cup NegativeIndex

OneModel  == {{"p", "g"}}
TwoModels == {{"p", "g"}, {"p", "g", "p2"}}
=============================================================================
