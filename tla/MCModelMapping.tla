--------------------------- MODULE MCModelMapping ---------------------------
EXTENDS ModelMapping

CONSTANT Names  \* whitelists and mappings are made of these

\* A whitelist of one name at most, a mapping of one or two entries or none.
MCProviders ==
  [supported : {s \in SUBSET Names : Cardinality(s) <= 1},
   mapping : UNION {[keys -> Names] : keys \in {s \in SUBSET Names : Cardinality(s) <= 2}},
   providerType : {"deepseek", "custom"}]

MCModels == {<<>>, <<"a">>, <<"b">>, <<"a", "b">>, <<"a", "a">>, <<"a", "b", "b">>}

\* Keys that hit each other's models, a prefix, a suffix, both, and two stars; the
\* prefix and the suffix of <<"a", Star, "a">> overlap in <<"a">>.
AllNames == {<<"a">>, <<"a", "b">>, <<Star>>, <<"a", Star>>, <<Star, "b">>, <<"a", Star, "a">>, <<Star, "a", Star>>}
============================================================================
