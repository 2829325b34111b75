SPECIFICATION Spec
CONSTANTS
  Nums = {n1}
  Serial = serial
  Nobody = nobody
  Fields = {"name", "token", "wifi"}
INVARIANTS TrueMeansStored
