SPECIFICATION ZombieSpec
CONSTANTS
  Child = {c1, c2, c3, c4}
INVARIANTS
  ZombieTypeOK
  NoForgottenZombie
PROPERTIES
  ZombiesReaped
