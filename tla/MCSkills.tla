------------------------------ MODULE MCSkills ------------------------------
EXTENDS Skills, TLC

\* Skill "a" is in both repositories and in two branches of the first, with other files in each.
MCArchive ==
  (<<"r", "main">>   :> ("a" :> <<"SKILL.md", "x">> @@ "b" :> <<"SKILL.md">>)) @@
  (<<"r", "master">> :> ("a" :> <<"SKILL.md", "y">>)) @@
  (<<"s", "master">> :> ("a" :> <<"SKILL.md", "z">>))

MCDefaults == <<Repo("r", "main")>>

MCAddable == {Repo("r", "master"), Repo("s", "main")}
=============================================================================
