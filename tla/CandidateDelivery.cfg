CONSTANTS
    Commits = {c1, c2}
    Bodies = {b1}
    Kinds = {review}
    None = None
    MaxGenerations = 2
    MaxAttempts <- Once
    Starters = {s1}
    Delivered = {"push"}
SPECIFICATION DeliverySpec
PROPERTY InvalidatedReturns
CHECK_DEADLOCK FALSE
