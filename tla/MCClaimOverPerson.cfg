\* One card, one agent and one person, a claim and an edit running together.
CONSTANTS
  Cards = {c1}
  Users = {ada, ben}
  Owner = ada
  Calls = {p1, p2}
  NoCard = NoCard
  NoUser = NoUser
SPECIFICATION Spec
PROPERTY ClaimsOnlyFreeCards
