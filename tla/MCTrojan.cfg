SPECIFICATION Spec
CONSTANT
  Uids = {u1, u2, u3}
INVARIANT ListedIsFound
