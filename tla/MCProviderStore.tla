--------------------------- MODULE MCProviderStore ---------------------------
EXTENDS ProviderStore

MCDefaults == <<"a">>
==============================================================================
